--------------------------- MODULE PolarsQueries ---------------------------
(***************************************************************************)
(* The 22 queries as src/queries/polars writes them: chains of joins and   *)
(* filters on lazy frames, in the order of the source.  A frame that the   *)
(* source names keeps its name.                                            *)
(***************************************************************************)
EXTENDS RowSets

CONSTANTS
    ScaleFactor,   \* settings.scale_factor
    Divisor        \* var2 of q11 is 1 / Divisor / scale_factor: 10000

Price(r) == r.l_extendedprice
Quantity(r) == r.l_quantity
Revenue(r) == r.l_extendedprice * (100 - r.l_discount)
Charge(r) == Revenue(r) * (100 + r.l_tax)
Discount(r) == r.l_discount

(* is_between(low, high, closed="left")                                    *)
ClosedLeft(x, low, high) == low <= x /\ x < high

Q1(db) ==
    LET rows == {r \in db.lineitem : r.l_shipdate <= 19980902}
    IN  Sorted(GroupBy(rows, {"l_returnflag", "l_linestatus"},
               LAMBDA g : [sum_qty |-> Total(g, Quantity), sum_base_price |-> Total(g, Price),
                           sum_disc_price |-> Total(g, Revenue), sum_charge |-> Total(g, Charge),
                           avg_qty |-> Mean(g, Quantity), avg_price |-> Mean(g, Price),
                           avg_disc |-> Mean(g, Discount), count_order |-> Cardinality(g)]),
               LAMBDA r : <<Alpha(r.l_returnflag), Alpha(r.l_linestatus)>>)

(* q1 of the source: the offers of the wanted parts in Europe.             *)
Q2(db) ==
    LET suppliers == Merge(Merge(db.part, db.partsupp, <<"p_partkey">>, <<"ps_partkey">>),
                           db.supplier, <<"ps_suppkey">>, <<"s_suppkey">>)
        nations == Merge(suppliers, db.nation, <<"s_nationkey">>, <<"n_nationkey">>)
        q1 == {r \in Merge(nations, db.region, <<"n_regionkey">>, <<"r_regionkey">>) :
                  r.p_size = 15 /\ EndsWith(r.p_type, <<"BRASS">>) /\ r.r_name = "EUROPE"}
        least == GroupBy(q1, {"p_partkey"},
                         LAMBDA g : [ps_supplycost |-> Min({r.ps_supplycost : r \in g})])
        rows == Merge(least, q1, <<"p_partkey", "ps_supplycost">>, <<"p_partkey", "ps_supplycost">>)
    IN  Top(Project(rows, {"s_acctbal", "s_name", "n_name", "p_partkey"}),
            LAMBDA r : <<-r.s_acctbal, Alpha(r.n_name), Alpha(r.s_name), r.p_partkey>>,
            Cut[100])

Q3(db) ==
    LET building == {c \in db.customer : c.c_mktsegment = "BUILDING"}
        rows == {r \in Merge(Merge(building, db.orders, <<"c_custkey">>, <<"o_custkey">>),
                             db.lineitem, <<"o_orderkey">>, <<"l_orderkey">>) :
                    r.o_orderdate < 19950315 /\ r.l_shipdate > 19950315}
        groups == GroupBy(rows, {"o_orderkey", "o_orderdate", "o_shippriority"},
                          LAMBDA g : [revenue |-> Total(g, Revenue)])
    IN  Top(Rename(groups, "o_orderkey", "l_orderkey"),
            LAMBDA r : <<-r.revenue, r.o_orderdate>>, Cut[10])

(* A join instead of a semi-join counts the late lineitems.                *)
Q4Joined(db) ==
    LET late == {l \in db.lineitem : l.l_commitdate < l.l_receiptdate}
        rows == {o \in Merge(db.orders, late, <<"o_orderkey">>, <<"l_orderkey">>) :
                    ClosedLeft(o.o_orderdate, 19930701, 19931001)}
    IN  Sorted(GroupBy(rows, {"o_orderpriority"}, LAMBDA g : [order_count |-> Cardinality(g)]),
               LAMBDA r : <<Alpha(r.o_orderpriority)>>)

Q4(db) ==
    LET late == {l \in db.lineitem : l.l_commitdate < l.l_receiptdate}
        rows == {o \in SemiMerge(db.orders, late, <<"o_orderkey">>, <<"l_orderkey">>) :
                    ClosedLeft(o.o_orderdate, 19930701, 19931001)}
    IN  Sorted(GroupBy(rows, {"o_orderpriority"}, LAMBDA g : [order_count |-> Cardinality(g)]),
               LAMBDA r : <<Alpha(r.o_orderpriority)>>)

Q5(db) ==
    LET customers == Merge(Merge(db.region, db.nation, <<"r_regionkey">>, <<"n_regionkey">>),
                           db.customer, <<"n_nationkey">>, <<"c_nationkey">>)
        lines == Merge(Merge(customers, db.orders, <<"c_custkey">>, <<"o_custkey">>),
                       db.lineitem, <<"o_orderkey">>, <<"l_orderkey">>)
        rows == {r \in Merge(lines, db.supplier, <<"l_suppkey", "n_nationkey">>,
                                                 <<"s_suppkey", "s_nationkey">>) :
                    r.r_name = "ASIA" /\ ClosedLeft(r.o_orderdate, 19940101, 19950101)}
    IN  Sorted(GroupBy(rows, {"n_name"}, LAMBDA g : [revenue |-> Total(g, Revenue)]),
               LAMBDA r : <<-r.revenue>>)

Q6(db) ==
    LET rows == {r \in db.lineitem : /\ ClosedLeft(r.l_shipdate, 19940101, 19950101)
                                     /\ Between(r.l_discount, 5, 7)
                                     /\ r.l_quantity < 24}
    IN  [revenue |-> Total(rows, LAMBDA r : r.l_extendedprice * r.l_discount)]

Q7(db) ==
    LET nations == {n \in db.nation : n.n_name \in {"FRANCE", "GERMANY"}}
        customers == Rename(Merge(db.customer, nations, <<"c_nationkey">>, <<"n_nationkey">>),
                            "n_name", "cust_nation")
        lines == Merge(Merge(customers, db.orders, <<"c_custkey">>, <<"o_custkey">>),
                       db.lineitem, <<"o_orderkey">>, <<"l_orderkey">>)
        suppliers == Merge(lines, db.supplier, <<"l_suppkey">>, <<"s_suppkey">>)
        rows == {r \in Rename(Merge(suppliers, nations, <<"s_nationkey">>, <<"n_nationkey">>),
                              "n_name", "supp_nation") :
                    /\ \/ r.cust_nation = "FRANCE" /\ r.supp_nation = "GERMANY"
                       \/ r.cust_nation = "GERMANY" /\ r.supp_nation = "FRANCE"
                    /\ Between(r.l_shipdate, 19950101, 19961231)}
    IN  Sorted(GroupBy(WithColumns(rows, LAMBDA r : [l_year |-> Year(r.l_shipdate)]),
                       {"supp_nation", "cust_nation", "l_year"},
                       LAMBDA g : [revenue |-> Total(g, Revenue)]),
               LAMBDA r : <<Alpha(r.supp_nation), Alpha(r.cust_nation), r.l_year>>)

Q8(db) ==
    LET n1 == Project(db.nation, {"n_nationkey", "n_regionkey"})
        n2 == Project(db.nation, {"n_nationkey", "n_name"})
        suppliers == Merge(Merge(db.part, db.lineitem, <<"p_partkey">>, <<"l_partkey">>),
                           db.supplier, <<"l_suppkey">>, <<"s_suppkey">>)
        customers == Merge(Merge(suppliers, db.orders, <<"l_orderkey">>, <<"o_orderkey">>),
                           db.customer, <<"o_custkey">>, <<"c_custkey">>)
        regions == Merge(Merge(customers, n1, <<"c_nationkey">>, <<"n_nationkey">>),
                         db.region, <<"n_regionkey">>, <<"r_regionkey">>)
        america == {r \in regions : r.r_name = "AMERICA"}
        rows == {r \in Merge(america, n2, <<"s_nationkey">>, <<"n_nationkey">>) :
                    /\ Between(r.o_orderdate, 19950101, 19961231)
                    /\ r.p_type = <<"ECONOMY", "ANODIZED", "STEEL">>}
        tmp(r) == IF r.n_name = "BRAZIL" THEN Revenue(r) ELSE 0
    IN  Sorted(GroupBy(WithColumns(rows, LAMBDA r : [o_year |-> Year(r.o_orderdate)]), {"o_year"},
                       LAMBDA g : [mkt_share |-> <<Total(g, tmp), Total(g, Revenue)>>]),
               LAMBDA r : <<r.o_year>>)

Q9(db) ==
    LET suppliers == Merge(Merge(db.part, db.partsupp, <<"p_partkey">>, <<"ps_partkey">>),
                           db.supplier, <<"ps_suppkey">>, <<"s_suppkey">>)
        lines == Merge(suppliers, db.lineitem, <<"p_partkey", "ps_suppkey">>,
                                               <<"l_partkey", "l_suppkey">>)
        rows == {r \in Merge(Merge(lines, db.orders, <<"l_orderkey">>, <<"o_orderkey">>),
                             db.nation, <<"s_nationkey">>, <<"n_nationkey">>) :
                    Mentions(r.p_name, "green")}
        amount(r) == Revenue(r) - 100 * r.ps_supplycost * r.l_quantity
    IN  Sorted(GroupBy(WithColumns(rows, LAMBDA r : [nation |-> r.n_name,
                                                     o_year |-> Year(r.o_orderdate)]),
                       {"nation", "o_year"}, LAMBDA g : [sum_profit |-> Total(g, amount)]),
               LAMBDA r : <<Alpha(r.nation), -r.o_year>>)

Q10(db) ==
    LET lines == Merge(Merge(db.customer, db.orders, <<"c_custkey">>, <<"o_custkey">>),
                       db.lineitem, <<"o_orderkey">>, <<"l_orderkey">>)
        rows == {r \in Merge(lines, db.nation, <<"c_nationkey">>, <<"n_nationkey">>) :
                    ClosedLeft(r.o_orderdate, 19931001, 19940101) /\ r.l_returnflag = "R"}
    IN  Top(GroupBy(rows, {"c_custkey", "c_name", "c_acctbal", "n_name"},
                    LAMBDA g : [revenue |-> Total(g, Revenue)]),
            LAMBDA r : <<-r.revenue>>, Cut[20])

(* q2 of the source is the one-row frame with tmp, crossed with the sums   *)
(* per part.                                                               *)
Q11(db) ==
    LET q1 == {r \in Merge(Merge(db.partsupp, db.supplier, <<"ps_suppkey">>, <<"s_suppkey">>),
                           db.nation, <<"s_nationkey">>, <<"n_nationkey">>) :
                  r.n_name = "GERMANY"}
        cost(r) == r.ps_supplycost * r.ps_availqty
        q2 == {[tmp |-> <<Total(q1, cost), Divisor * ScaleFactor>>]}
        parts == GroupBy(q1, {"ps_partkey"}, LAMBDA g : [value |-> Total(g, cost)])
        rows == {r \in Cross(parts, q2) : r.value * r.tmp[2] > r.tmp[1]}
    IN  Sorted(Project(rows, {"ps_partkey", "value"}), LAMBDA r : <<-r.value>>)

Q12(db) ==
    LET rows == {r \in Merge(db.orders, db.lineitem, <<"o_orderkey">>, <<"l_orderkey">>) :
                    /\ r.l_shipmode \in {"MAIL", "SHIP"}
                    /\ r.l_commitdate < r.l_receiptdate
                    /\ r.l_shipdate < r.l_commitdate
                    /\ ClosedLeft(r.l_receiptdate, 19940101, 19950101)}
        counted == WithColumns(rows,
                       LAMBDA r : [line_count |-> r.o_orderpriority \in {"1-URGENT", "2-HIGH"}])
    IN  Sorted(GroupBy(counted, {"l_shipmode"},
                       LAMBDA g : [high_line_count |-> Cardinality({r \in g : r.line_count}),
                                   low_line_count |-> Cardinality({r \in g : ~r.line_count})]),
               LAMBDA r : <<Alpha(r.l_shipmode)>>)

Q13(db) ==
    LET orders == {o \in db.orders : ~MentionsInOrder(o.o_comment, "special", "requests")}
        joined == LeftMerge(db.customer, orders, <<"c_custkey">>, <<"o_custkey">>,
                            {"o_orderkey", "o_comment"})
        counts == GroupBy(joined, {"c_custkey"}, LAMBDA g : [c_count |-> Count(g, "o_orderkey")])
    IN  Sorted(GroupBy(counts, {"c_count"}, LAMBDA g : [custdist |-> Cardinality(g)]),
               LAMBDA r : <<-r.custdist, -r.c_count>>)

Q14(db) ==
    LET rows == {r \in Merge(db.lineitem, db.part, <<"l_partkey">>, <<"p_partkey">>) :
                    ClosedLeft(r.l_shipdate, 19950901, 19951001)}
        promo(r) == IF StartsWith(r.p_type, <<"PROMO">>) THEN Revenue(r) ELSE 0
    IN  [promo_revenue |-> <<100 * Total(rows, promo), Total(rows, Revenue)>>]

(* The maximum is taken after the join with the suppliers.                 *)
Q15(db) ==
    LET lines == {l \in db.lineitem : ClosedLeft(l.l_shipdate, 19960101, 19960401)}
        revenue == Select(GroupBy(lines, {"l_suppkey"},
                                  LAMBDA g : [total_revenue |-> Total(g, Revenue)]),
                          [supplier_no |-> "l_suppkey", total_revenue |-> "total_revenue"])
        joined == Merge(db.supplier, revenue, <<"s_suppkey">>, <<"supplier_no">>)
        best == {r \in joined : r.total_revenue = Max({s.total_revenue : s \in joined})}
    IN  Sorted(Project(best, {"s_suppkey", "s_name", "total_revenue"}),
               LAMBDA r : <<r.s_suppkey>>)

(* supplier of the source: those with complaints, with their key twice, so *)
(* that the second one shows in the left join that there was a match.      *)
Q16(db) ==
    LET complaints == {s \in db.supplier : MentionsInOrder(s.s_comment, "Customer", "Complaints")}
        supplier == Select(complaints, [s_suppkey |-> "s_suppkey", ps_suppkey_right |-> "s_suppkey"])
        offers == {r \in Merge(db.part, db.partsupp, <<"p_partkey">>, <<"ps_partkey">>) :
                      /\ r.p_brand # "Brand#45"
                      /\ ~HasPhrase(r.p_type, <<"MEDIUM", "POLISHED">>)
                      /\ r.p_size \in {49, 14, 23, 45, 19, 3, 36, 9}}
        rows == {r \in LeftMerge(offers, supplier, <<"ps_suppkey">>, <<"s_suppkey">>,
                                 {"s_suppkey", "ps_suppkey_right"}) :
                    r.ps_suppkey_right = Null}
    IN  Sorted(GroupBy(rows, {"p_brand", "p_type", "p_size"},
                       LAMBDA g : [supplier_cnt |-> CountDistinct(g, "ps_suppkey")]),
               LAMBDA r : <<-r.supplier_cnt, Alpha(r.p_brand)>> \o AlphaWords(r.p_type) \o <<r.p_size>>)

Q17(db) ==
    LET parts == {p \in db.part : p.p_brand = "Brand#23" /\ p.p_container = "MED BOX"}
        q1 == Merge(parts, db.lineitem, <<"p_partkey">>, <<"l_partkey">>)
        means == Select(GroupBy(q1, {"p_partkey"},
                                LAMBDA g : [avg_quantity |-> Mean(g, Quantity)]),
                        [key |-> "p_partkey", avg_quantity |-> "avg_quantity"])
        rows == {r \in Merge(means, q1, <<"key">>, <<"p_partkey">>) :
                    r.l_quantity * 5 * r.avg_quantity[2] < r.avg_quantity[1]}
    IN  [avg_yearly |-> Total(rows, Price)]

Q18(db) ==
    LET q1 == {o \in GroupBy(db.lineitem, {"l_orderkey"},
                             LAMBDA g : [sum_quantity |-> Total(g, Quantity)]) :
                  o.sum_quantity > 300}
        large == SemiMerge(db.orders, q1, <<"o_orderkey">>, <<"l_orderkey">>)
        rows == Merge(Merge(large, db.lineitem, <<"o_orderkey">>, <<"l_orderkey">>),
                      db.customer, <<"o_custkey">>, <<"c_custkey">>)
        groups == GroupBy(rows, {"c_name", "o_custkey", "o_orderkey", "o_orderdate", "o_totalprice"},
                          LAMBDA g : [col6 |-> Total(g, Quantity)])
    IN  Top(Rename(Rename(groups, "o_custkey", "c_custkey"), "o_orderdate", "o_orderdat"),
            LAMBDA r : <<-r.o_totalprice, r.o_orderdat>>, Cut[100])

Q19(db) ==
    LET branch(r, brand, containers, low, high, size) ==
            /\ r.p_brand = brand
            /\ r.p_container \in containers
            /\ Between(r.l_quantity, low, high)
            /\ Between(r.p_size, 1, size)
        rows == {r \in Merge(db.part, db.lineitem, <<"p_partkey">>, <<"l_partkey">>) :
            /\ r.l_shipmode \in {"AIR", "AIR REG"}
            /\ r.l_shipinstruct = "DELIVER IN PERSON"
            /\ \/ branch(r, "Brand#12", {"SM CASE", "SM BOX", "SM PACK", "SM PKG"}, 1, 11, 5)
               \/ branch(r, "Brand#23", {"MED BAG", "MED BOX", "MED PKG", "MED PACK"}, 10, 20, 10)
               \/ branch(r, "Brand#34", {"LG CASE", "LG BOX", "LG PACK", "LG PKG"}, 20, 30, 15)}
    IN  [revenue |-> Total(rows, Revenue)]

Q20(db) ==
    LET lines == {l \in db.lineitem : ClosedLeft(l.l_shipdate, 19940101, 19950101)}
        q1 == GroupBy(lines, {"l_partkey", "l_suppkey"},
                      LAMBDA g : [sum_quantity |-> <<Total(g, Quantity), 2>>])
        q2 == {n \in db.nation : n.n_name = "CANADA"}
        q3 == Merge(db.supplier, q2, <<"s_nationkey">>, <<"n_nationkey">>)
        parts == Project({p \in db.part : StartsWith(p.p_name, <<"forest">>)}, {"p_partkey"})
        shipped == Merge(Merge(parts, db.partsupp, <<"p_partkey">>, <<"ps_partkey">>), q1,
                         <<"ps_suppkey", "p_partkey">>, <<"l_suppkey", "l_partkey">>)
        excess == {r \in shipped : r.ps_availqty * r.sum_quantity[2] > r.sum_quantity[1]}
        rows == Merge(Project(excess, {"ps_suppkey"}), q3, <<"ps_suppkey">>, <<"s_suppkey">>)
    IN  Sorted(Project(rows, {"s_name"}), LAMBDA r : <<Alpha(r.s_name)>>)

(* len() counts the lineitems of an order, not its suppliers.              *)
Q21(db) ==
    LET lines(g) == [n_supp_by_order |-> Cardinality(g)]
        several == {o \in GroupBy(db.lineitem, {"l_orderkey"}, lines) : o.n_supp_by_order > 1}
        late == {l \in db.lineitem : l.l_receiptdate > l.l_commitdate}
        q1 == Merge(several, late, <<"l_orderkey">>, <<"l_orderkey">>)
        suppliers == Merge(Merge(GroupBy(q1, {"l_orderkey"}, lines), q1,
                                 <<"l_orderkey">>, <<"l_orderkey">>),
                           db.supplier, <<"l_suppkey">>, <<"s_suppkey">>)
        rows == {r \in Merge(Merge(suppliers, db.nation, <<"s_nationkey">>, <<"n_nationkey">>),
                             db.orders, <<"l_orderkey">>, <<"o_orderkey">>) :
                    r.n_supp_by_order = 1 /\ r.n_name = "SAUDI ARABIA" /\ r.o_orderstatus = "F"}
    IN  Top(GroupBy(rows, {"s_name"}, LAMBDA g : [numwait |-> Cardinality(g)]),
            LAMBDA r : <<-r.numwait, Alpha(r.s_name)>>, Cut[100])

Q22(db) ==
    LET q1 == {c \in WithColumns(db.customer, LAMBDA c : [cntrycode |-> c.c_phone[1]]) :
                  c.cntrycode \in {13, 31, 23, 29, 30, 18, 17}}
        balance(c) == c.c_acctbal
        positive == {c \in q1 : c.c_acctbal > 0}
        \* the mean of no balances is null, and no balance is above it
        q2 == {[avg_acctbal |-> Mean(positive, balance)]}
        q3 == Select(Project(db.orders, {"o_custkey"}),
                     [o_custkey |-> "o_custkey", c_custkey |-> "o_custkey"])
        without == {c \in LeftMerge(q1, q3, <<"c_custkey">>, <<"c_custkey">>, {"o_custkey"}) :
                       c.o_custkey = Null}
        rows == {c \in Cross(without, q2) :
                    positive # {} /\ c.c_acctbal * c.avg_acctbal[2] > c.avg_acctbal[1]}
    IN  Sorted(GroupBy(rows, {"cntrycode"}, LAMBDA g : [numcust |-> Count(g, "c_acctbal"),
                                                        totacctbal |-> Total(g, balance)]),
               LAMBDA r : <<r.cntrycode>>)
=============================================================================
