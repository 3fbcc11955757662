--------------------------- MODULE PandasQueries ---------------------------
(***************************************************************************)
(* The 22 queries as src/queries/pandas writes them.  The frames have the  *)
(* source's names; jn is assigned again and again there, and a number here *)
(* tells its values apart.  A column the source adds to a frame just to    *)
(* sum it is the function that is summed.                                  *)
(***************************************************************************)
EXTENDS RowSets

CONSTANTS
    ScaleFactor,   \* settings.scale_factor
    Divisor        \* var2 of q11 is 1 / Divisor / scale_factor: 10000

Price(r) == r.l_extendedprice
Quantity(r) == r.l_quantity
Revenue(r) == r.l_extendedprice * (100 - r.l_discount)
Charge(r) == Revenue(r) * (100 + r.l_tax)
Discount(r) == r.l_discount

Q1(db) ==
    LET filt == {r \in db.lineitem : r.l_shipdate <= 19980902}
    IN  Sorted(GroupBy(filt, {"l_returnflag", "l_linestatus"},
               LAMBDA g : [sum_qty |-> Total(g, Quantity), sum_base_price |-> Total(g, Price),
                           sum_disc_price |-> Total(g, Revenue), sum_charge |-> Total(g, Charge),
                           avg_qty |-> Mean(g, Quantity), avg_price |-> Mean(g, Price),
                           avg_disc |-> Mean(g, Discount), count_order |-> Cardinality(g)]),
               LAMBDA r : <<Alpha(r.l_returnflag), Alpha(r.l_linestatus)>>)

Q2(db) ==
    LET jn1 == Merge(Merge(db.part, db.partsupp, <<"p_partkey">>, <<"ps_partkey">>),
                     db.supplier, <<"ps_suppkey">>, <<"s_suppkey">>)
        jn == {r \in Merge(Merge(jn1, db.nation, <<"s_nationkey">>, <<"n_nationkey">>),
                           db.region, <<"n_regionkey">>, <<"r_regionkey">>) :
                  r.p_size = 15 /\ EndsWith(r.p_type, <<"BRASS">>) /\ r.r_name = "EUROPE"}
        agg == GroupBy(jn, {"p_partkey"},
                       LAMBDA g : [ps_supplycost |-> Min({r.ps_supplycost : r \in g})])
        jn2 == Merge(agg, jn, <<"p_partkey", "ps_supplycost">>, <<"p_partkey", "ps_supplycost">>)
    IN  Top(Project(jn2, {"s_acctbal", "s_name", "n_name", "p_partkey"}),
            LAMBDA r : <<-r.s_acctbal, Alpha(r.n_name), Alpha(r.s_name), r.p_partkey>>,
            Cut[100])

Q3(db) ==
    LET fcustomer == {c \in db.customer : c.c_mktsegment = "BUILDING"}
        jn1 == Merge(fcustomer, db.orders, <<"c_custkey">>, <<"o_custkey">>)
        jn2 == {r \in Merge(jn1, db.lineitem, <<"o_orderkey">>, <<"l_orderkey">>) :
                   r.o_orderdate < 19950315 /\ r.l_shipdate > 19950315}
        agg == GroupBy(jn2, {"o_orderkey", "o_orderdate", "o_shippriority"},
                       LAMBDA g : [revenue |-> Total(g, Revenue)])
    IN  Top(Rename(agg, "o_orderkey", "l_orderkey"),
            LAMBDA r : <<-r.revenue, r.o_orderdate>>, Cut[10])

(* Without drop_duplicates().                                              *)
Q4Duplicates(db) ==
    LET jn == {r \in Merge(db.lineitem, db.orders, <<"l_orderkey">>, <<"o_orderkey">>) :
                  /\ r.o_orderdate >= 19930701 /\ r.o_orderdate < 19931001
                  /\ r.l_commitdate < r.l_receiptdate}
    IN  Sorted(GroupBy(jn, {"o_orderpriority"},
                       LAMBDA g : [order_count |-> Count(g, "o_orderkey")]),
               LAMBDA r : <<Alpha(r.o_orderpriority)>>)

(* drop_duplicates() keeps one lineitem of an order.                       *)
Q4(db) ==
    LET jn == {r \in Merge(db.lineitem, db.orders, <<"l_orderkey">>, <<"o_orderkey">>) :
                  /\ r.o_orderdate >= 19930701 /\ r.o_orderdate < 19931001
                  /\ r.l_commitdate < r.l_receiptdate}
        unique == GroupBy(jn, {"o_orderpriority", "l_orderkey"},
                          LAMBDA g : On(CHOOSE r \in g : TRUE, {"o_orderkey"}))
    IN  Sorted(GroupBy(unique, {"o_orderpriority"},
                       LAMBDA g : [order_count |-> Count(g, "o_orderkey")]),
               LAMBDA r : <<Alpha(r.o_orderpriority)>>)

Q5(db) ==
    LET jn1 == Merge(db.region, db.nation, <<"r_regionkey">>, <<"n_regionkey">>)
        jn2 == Merge(jn1, db.customer, <<"n_nationkey">>, <<"c_nationkey">>)
        jn3 == Merge(jn2, db.orders, <<"c_custkey">>, <<"o_custkey">>)
        jn4 == Merge(jn3, db.lineitem, <<"o_orderkey">>, <<"l_orderkey">>)
        jn5 == {r \in Merge(jn4, db.supplier, <<"l_suppkey", "n_nationkey">>,
                                              <<"s_suppkey", "s_nationkey">>) :
                   r.r_name = "ASIA" /\ r.o_orderdate >= 19940101 /\ r.o_orderdate < 19950101}
    IN  Sorted(GroupBy(jn5, {"n_name"}, LAMBDA g : [revenue |-> Total(g, Revenue)]),
               LAMBDA r : <<-r.revenue>>)

Q6(db) ==
    LET filt == {r \in db.lineitem : /\ r.l_shipdate >= 19940101 /\ r.l_shipdate < 19950101
                                     /\ r.l_discount >= 5 /\ r.l_discount <= 7
                                     /\ r.l_quantity < 24}
    IN  [revenue |-> Total(filt, LAMBDA r : r.l_extendedprice * r.l_discount)]

(* The two directions of trade are joined apart and put together.          *)
Q7(db) ==
    LET named(name) == {n \in db.nation : n.n_name = name}
        part(cust, supp) ==
            LET jn1 == Merge(db.customer, cust, <<"c_nationkey">>, <<"n_nationkey">>)
                jn2 == Rename(Merge(jn1, db.orders, <<"c_custkey">>, <<"o_custkey">>),
                              "n_name", "cust_nation")
                jn3 == Merge(jn2, db.lineitem, <<"o_orderkey">>, <<"l_orderkey">>)
                jn4 == Merge(jn3, db.supplier, <<"l_suppkey">>, <<"s_suppkey">>)
                jn5 == Merge(jn4, supp, <<"s_nationkey">>, <<"n_nationkey">>)
            IN  Rename(jn5, "n_name", "supp_nation")
        total == {r \in part(named("FRANCE"), named("GERMANY"))
                        \cup part(named("GERMANY"), named("FRANCE")) :
                     r.l_shipdate >= 19950101 /\ r.l_shipdate <= 19961231}
    IN  Sorted(GroupBy(WithColumns(total, LAMBDA r : [l_year |-> Year(r.l_shipdate)]),
                       {"supp_nation", "cust_nation", "l_year"},
                       LAMBDA g : [revenue |-> Total(g, Revenue)]),
               LAMBDA r : <<Alpha(r.supp_nation), Alpha(r.cust_nation), r.l_year>>)

Q8(db) ==
    LET n1 == Project(db.nation, {"n_nationkey", "n_regionkey"})
        n2 == Project(db.nation, {"n_nationkey", "n_name"})
        jn2 == Merge(Merge(db.part, db.lineitem, <<"p_partkey">>, <<"l_partkey">>),
                     db.supplier, <<"l_suppkey">>, <<"s_suppkey">>)
        jn4 == Merge(Merge(jn2, db.orders, <<"l_orderkey">>, <<"o_orderkey">>),
                     db.customer, <<"o_custkey">>, <<"c_custkey">>)
        jn6 == {r \in Merge(Merge(jn4, n1, <<"c_nationkey">>, <<"n_nationkey">>),
                            db.region, <<"n_regionkey">>, <<"r_regionkey">>) :
                   r.r_name = "AMERICA"}
        jn7 == {r \in Merge(jn6, n2, <<"s_nationkey">>, <<"n_nationkey">>) :
                   /\ r.o_orderdate >= 19950101 /\ r.o_orderdate <= 19961231
                   /\ r.p_type = <<"ECONOMY", "ANODIZED", "STEEL">>}
        udf(df) == LET numerator == {r \in df : r.n_name = "BRAZIL"}
                   IN  [mkt_share |-> <<Total(numerator, Revenue), Total(df, Revenue)>>]
    IN  Sorted(GroupBy(WithColumns(jn7, LAMBDA r : [o_year |-> Year(r.o_orderdate)]),
                       {"o_year"}, udf),
               LAMBDA r : <<r.o_year>>)

Q9(db) ==
    LET jn2 == Merge(Merge(db.part, db.partsupp, <<"p_partkey">>, <<"ps_partkey">>),
                     db.supplier, <<"ps_suppkey">>, <<"s_suppkey">>)
        jn3 == Merge(jn2, db.lineitem, <<"p_partkey", "ps_suppkey">>, <<"l_partkey", "l_suppkey">>)
        jn4 == Merge(jn3, db.orders, <<"l_orderkey">>, <<"o_orderkey">>)
        jn5 == {r \in Merge(jn4, db.nation, <<"s_nationkey">>, <<"n_nationkey">>) :
                   Mentions(r.p_name, "green")}
        amount(r) == Revenue(r) - 100 * r.ps_supplycost * r.l_quantity
        years == WithColumns(jn5, LAMBDA r : [o_year |-> Year(r.o_orderdate)])
    IN  Sorted(GroupBy(Rename(years, "n_name", "nation"), {"nation", "o_year"},
                       LAMBDA g : [sum_profit |-> Total(g, amount)]),
               LAMBDA r : <<Alpha(r.nation), -r.o_year>>)

Q10(db) ==
    LET jn1 == Merge(db.customer, db.orders, <<"c_custkey">>, <<"o_custkey">>)
        jn2 == Merge(jn1, db.lineitem, <<"o_orderkey">>, <<"l_orderkey">>)
        jn3 == {r \in Merge(jn2, db.nation, <<"c_nationkey">>, <<"n_nationkey">>) :
                   /\ r.o_orderdate >= 19931001 /\ r.o_orderdate < 19940101
                   /\ r.l_returnflag = "R"}
    IN  Top(GroupBy(jn3, {"c_custkey", "c_name", "c_acctbal", "n_name"},
                    LAMBDA g : [revenue |-> Total(g, Revenue)]),
            LAMBDA r : <<-r.revenue>>, Cut[20])

Q11(db) ==
    LET jn1 == Merge(db.partsupp, db.supplier, <<"ps_suppkey">>, <<"s_suppkey">>)
        jn2 == {r \in Merge(jn1, db.nation, <<"s_nationkey">>, <<"n_nationkey">>) :
                   r.n_name = "GERMANY"}
        value(r) == r.ps_supplycost * r.ps_availqty
        threshold == <<Total(jn2, value), Divisor * ScaleFactor>>
        agg == GroupBy(jn2, {"ps_partkey"}, LAMBDA g : [value |-> Total(g, value)])
    IN  Sorted({r \in agg : r.value * threshold[2] > threshold[1]}, LAMBDA r : <<-r.value>>)

Q12(db) ==
    LET jn == {r \in Merge(db.orders, db.lineitem, <<"o_orderkey">>, <<"l_orderkey">>) :
                  /\ r.l_shipmode \in {"MAIL", "SHIP"}
                  /\ r.l_commitdate < r.l_receiptdate
                  /\ r.l_shipdate < r.l_commitdate
                  /\ r.l_receiptdate >= 19940101 /\ r.l_receiptdate < 19950101}
        high(r) == r.o_orderpriority \in {"1-URGENT", "2-HIGH"}
    IN  Sorted(GroupBy(jn, {"l_shipmode"},
                       LAMBDA g : [high_line_count |-> Cardinality({r \in g : high(r)}),
                                   low_line_count |-> Cardinality({r \in g : ~high(r)})]),
               LAMBDA r : <<Alpha(r.l_shipmode)>>)

Q13(db) ==
    LET filtered == {o \in db.orders : ~MentionsInOrder(o.o_comment, "special", "requests")}
        jn == LeftMerge(db.customer, filtered, <<"c_custkey">>, <<"o_custkey">>,
                        {"o_orderkey", "o_custkey", "o_comment"})
        agg1 == GroupBy(jn, {"c_custkey"}, LAMBDA g : [c_count |-> Count(g, "o_orderkey")])
    IN  Sorted(GroupBy(agg1, {"c_count"}, LAMBDA g : [custdist |-> Cardinality(g)]),
               LAMBDA r : <<-r.custdist, -r.c_count>>)

(* The quotient of two sums of nothing is one of Python's numbers, where a  *)
(* division by zero is an exception.                                       *)
ZeroDivisionError == <<"ZeroDivisionError">>

(* where() replaces the revenue of all other parts by zero.  Revenues are  *)
(* positive, so that they add up to zero only when there are none.         *)
Q14(db) ==
    LET jn == {r \in Merge(db.lineitem, db.part, <<"l_partkey">>, <<"p_partkey">>) :
                  r.l_shipdate >= 19950901 /\ r.l_shipdate < 19951001}
        promo_revenue(r) == IF StartsWith(r.p_type, <<"PROMO">>) THEN Revenue(r) ELSE 0
    IN  [promo_revenue |-> IF jn = {} THEN ZeroDivisionError
                           ELSE <<100 * Total(jn, promo_revenue), Total(jn, Revenue)>>]

(* The maximum is taken over all revenues, before the join.                *)
Q15(db) ==
    LET filtered == {l \in db.lineitem : l.l_shipdate >= 19960101 /\ l.l_shipdate < 19960401}
        revenue == Rename(GroupBy(filtered, {"l_suppkey"},
                                  LAMBDA g : [total_revenue |-> Total(g, Revenue)]),
                          "l_suppkey", "supplier_no")
        max_revenue == Max({r.total_revenue : r \in revenue})
        jn == {r \in Merge(db.supplier, revenue, <<"s_suppkey">>, <<"supplier_no">>) :
                  r.total_revenue = max_revenue}
    IN  Sorted(Project(jn, {"s_suppkey", "s_name", "total_revenue"}), LAMBDA r : <<r.s_suppkey>>)

Q16(db) ==
    LET complaints == {s \in db.supplier : MentionsInOrder(s.s_comment, "Customer", "Complaints")}
        jn == {r \in Merge(db.part, db.partsupp, <<"p_partkey">>, <<"ps_partkey">>) :
                  /\ r.p_brand # "Brand#45"
                  /\ ~StartsWith(r.p_type, <<"MEDIUM", "POLISHED">>)
                  /\ r.p_size \in {49, 14, 23, 45, 19, 3, 36, 9}}
        jn2 == {r \in LeftMerge(jn, Project(complaints, {"s_suppkey"}),
                                <<"ps_suppkey">>, <<"s_suppkey">>, {"s_suppkey"}) :
                   r.s_suppkey = Null}
    IN  Sorted(GroupBy(jn2, {"p_brand", "p_type", "p_size"},
                       LAMBDA g : [supplier_cnt |-> CountDistinct(g, "ps_suppkey")]),
               LAMBDA r : <<-r.supplier_cnt, Alpha(r.p_brand)>> \o AlphaWords(r.p_type) \o <<r.p_size>>)

Q17(db) ==
    LET filtered_part == {p \in db.part : p.p_brand = "Brand#23" /\ p.p_container = "MED BOX"}
        jn == Merge(filtered_part, db.lineitem, <<"p_partkey">>, <<"l_partkey">>)
        avg_qty == GroupBy(jn, {"p_partkey"}, LAMBDA g : [avg_quantity |-> Mean(g, Quantity)])
        jn2 == {r \in Merge(jn, avg_qty, <<"p_partkey">>, <<"p_partkey">>) :
                   r.l_quantity * 5 * r.avg_quantity[2] < r.avg_quantity[1]}
    IN  [avg_yearly |-> Total(jn2, Price)]

Q18(db) ==
    LET qty_by_order == GroupBy(db.lineitem, {"l_orderkey"},
                                LAMBDA g : [sum_quantity |-> Total(g, Quantity)])
        large_orders == Project({o \in qty_by_order : o.sum_quantity > 300}, {"l_orderkey"})
        jn1 == Merge(db.orders, large_orders, <<"o_orderkey">>, <<"l_orderkey">>)
        jn2 == Merge(jn1, db.lineitem, <<"o_orderkey">>, <<"l_orderkey">>)
        jn3 == Merge(jn2, db.customer, <<"o_custkey">>, <<"c_custkey">>)
        agg == GroupBy(jn3, {"c_name", "o_custkey", "o_orderkey", "o_orderdate", "o_totalprice"},
                       LAMBDA g : [col6 |-> Total(g, Quantity)])
    IN  Top(Rename(Rename(agg, "o_custkey", "c_custkey"), "o_orderdate", "o_orderdat"),
            LAMBDA r : <<-r.o_totalprice, r.o_orderdat>>, Cut[100])

Q19(db) ==
    LET cond(r, brand, containers, low, high, size) ==
            /\ r.p_brand = brand
            /\ r.p_container \in containers
            /\ r.l_quantity >= low /\ r.l_quantity <= high
            /\ r.p_size >= 1 /\ r.p_size <= size
        jn == {r \in Merge(db.part, db.lineitem, <<"p_partkey">>, <<"l_partkey">>) :
            /\ r.l_shipmode \in {"AIR", "AIR REG"}
            /\ r.l_shipinstruct = "DELIVER IN PERSON"
            /\ \/ cond(r, "Brand#12", {"SM CASE", "SM BOX", "SM PACK", "SM PKG"}, 1, 11, 5)
               \/ cond(r, "Brand#23", {"MED BAG", "MED BOX", "MED PKG", "MED PACK"}, 10, 20, 10)
               \/ cond(r, "Brand#34", {"LG CASE", "LG BOX", "LG PACK", "LG PKG"}, 20, 30, 15)}
    IN  [revenue |-> Total(jn, Revenue)]

Q20(db) ==
    LET filtered_lineitem == {l \in db.lineitem : l.l_shipdate >= 19940101 /\ l.l_shipdate < 19950101}
        qty_agg == GroupBy(filtered_lineitem, {"l_partkey", "l_suppkey"},
                           LAMBDA g : [sum_quantity |-> <<Total(g, Quantity), 2>>])
        filtered_nation == {n \in db.nation : n.n_name = "CANADA"}
        filtered_part == Project({p \in db.part : StartsWith(p.p_name, <<"forest">>)}, {"p_partkey"})
        jn1 == Merge(filtered_part, db.partsupp, <<"p_partkey">>, <<"ps_partkey">>)
        jn2 == {r \in Merge(jn1, qty_agg, <<"ps_suppkey", "p_partkey">>, <<"l_suppkey", "l_partkey">>) :
                   r.ps_availqty * r.sum_quantity[2] > r.sum_quantity[1]}
        jn3 == Merge(Project(jn2, {"ps_suppkey"}), db.supplier, <<"ps_suppkey">>, <<"s_suppkey">>)
        jn4 == Merge(jn3, filtered_nation, <<"s_nationkey">>, <<"n_nationkey">>)
    IN  Sorted(Project(jn4, {"s_name"}), LAMBDA r : <<Alpha(r.s_name)>>)

(* The aggregation "count" counts the lineitems of an order, not its       *)
(* suppliers.                                                              *)
n_supp_by_order(g) == [n_supp_by_order |-> Count(g, "l_suppkey")]
multi_supp_orders(db) ==
    {o \in GroupBy(db.lineitem, {"l_orderkey"}, n_supp_by_order) : o.n_supp_by_order > 1}

Q21(db) ==
    LET late_lineitem == {l \in db.lineitem : l.l_receiptdate > l.l_commitdate}
        jn1 == Merge(multi_supp_orders(db), late_lineitem, <<"l_orderkey">>, <<"l_orderkey">>)
        supp_per_order2 == GroupBy(jn1, {"l_orderkey"}, n_supp_by_order)
        jn2 == {r \in Merge(supp_per_order2, jn1, <<"l_orderkey">>, <<"l_orderkey">>) :
                   r.n_supp_by_order = 1}
        jn3 == Merge(jn2, db.supplier, <<"l_suppkey">>, <<"s_suppkey">>)
        jn4 == Merge(jn3, db.nation, <<"s_nationkey">>, <<"n_nationkey">>)
        jn5 == {r \in Merge(jn4, db.orders, <<"l_orderkey">>, <<"o_orderkey">>) :
                   r.n_name = "SAUDI ARABIA" /\ r.o_orderstatus = "F"}
    IN  Top(GroupBy(jn5, {"s_name"}, LAMBDA g : [numwait |-> Cardinality(g)]),
            LAMBDA r : <<-r.numwait, Alpha(r.s_name)>>, Cut[100])

Q22(db) ==
    LET filtered_customer == {c \in WithColumns(db.customer, LAMBDA c : [cntrycode |-> c.c_phone[1]]) :
                                 c.cntrycode \in {13, 31, 23, 29, 30, 18, 17}}
        balance(c) == c.c_acctbal
        positive == {c \in filtered_customer : c.c_acctbal > 0}
        avg_acctbal == Mean(positive, balance)   \* nan if nothing is positive
        jn == {c \in LeftMerge(filtered_customer, Project(db.orders, {"o_custkey"}),
                               <<"c_custkey">>, <<"o_custkey">>, {"o_custkey"}) :
                  /\ c.o_custkey = Null
                  /\ positive # {} /\ c.c_acctbal * avg_acctbal[2] > avg_acctbal[1]}
    IN  Sorted(GroupBy(jn, {"cntrycode"}, LAMBDA g : [numcust |-> Count(g, "c_acctbal"),
                                                      totacctbal |-> Total(g, balance)]),
               LAMBDA r : <<r.cntrycode>>)
=============================================================================
