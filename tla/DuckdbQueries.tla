--------------------------- MODULE DuckdbQueries ---------------------------
(***************************************************************************)
(* The 22 queries in SQL, as src/queries/duckdb states them: the tables of *)
(* the FROM clause, the rows the WHERE clause keeps, the groups, and the   *)
(* order of the answer.  They are the reference the data frame versions    *)
(* are compared with.                                                      *)
(***************************************************************************)
EXTENDS RowSets

CONSTANTS
    ScaleFactor,   \* settings.scale_factor
    Divisor        \* q11 compares with 1 / Divisor of the total: 10000

Price(r) == r.l_extendedprice
Quantity(r) == r.l_quantity
Revenue(r) == r.l_extendedprice * (100 - r.l_discount)
Charge(r) == Revenue(r) * (100 + r.l_tax)
Discount(r) == r.l_discount

Q1(db) ==
    LET rows == {r \in db.lineitem : r.l_shipdate <= 19980902}
    IN  Sorted(GroupBy(rows, {"l_returnflag", "l_linestatus"},
               LAMBDA g : [sum_qty |-> Total(g, Quantity), sum_base_price |-> Total(g, Price),
                           sum_disc_price |-> Total(g, Revenue), sum_charge |-> Total(g, Charge),
                           avg_qty |-> Mean(g, Quantity), avg_price |-> Mean(g, Price),
                           avg_disc |-> Mean(g, Discount), count_order |-> Cardinality(g)]),
               LAMBDA r : <<Alpha(r.l_returnflag), Alpha(r.l_linestatus)>>)

Q2(db) ==
    LET offers == {r \in db.partsupp \otimes db.supplier \otimes db.nation
                         \otimes db.region :
                     /\ r.s_suppkey = r.ps_suppkey
                     /\ r.s_nationkey = r.n_nationkey
                     /\ r.n_regionkey = r.r_regionkey
                     /\ r.r_name = "EUROPE"}
        least(p) == Min({r.ps_supplycost : r \in {o \in offers : o.ps_partkey = p}})
        rows == {r \in Cross(db.part, offers) :
                     /\ r.p_partkey = r.ps_partkey
                     /\ r.p_size = 15
                     /\ EndsWith(r.p_type, <<"BRASS">>)
                     /\ r.ps_supplycost = least(r.p_partkey)}
    IN  Top(Project(rows, {"s_acctbal", "s_name", "n_name", "p_partkey"}),
            LAMBDA r : <<-r.s_acctbal, Alpha(r.n_name), Alpha(r.s_name), r.p_partkey>>,
            Cut[100])

Q3(db) ==
    LET rows == {r \in db.customer \otimes db.orders \otimes db.lineitem :
                     /\ r.c_mktsegment = "BUILDING"
                     /\ r.c_custkey = r.o_custkey
                     /\ r.l_orderkey = r.o_orderkey
                     /\ r.o_orderdate < 19950315
                     /\ r.l_shipdate > 19950315}
    IN  Top(GroupBy(rows, {"l_orderkey", "o_orderdate", "o_shippriority"},
                    LAMBDA g : [revenue |-> Total(g, Revenue)]),
            LAMBDA r : <<-r.revenue, r.o_orderdate>>, Cut[10])

Q4(db) ==
    LET rows == {o \in db.orders :
                     /\ o.o_orderdate >= 19930701
                     /\ o.o_orderdate < 19931001
                     /\ \E l \in db.lineitem : /\ l.l_orderkey = o.o_orderkey
                                               /\ l.l_commitdate < l.l_receiptdate}
    IN  Sorted(GroupBy(rows, {"o_orderpriority"}, LAMBDA g : [order_count |-> Cardinality(g)]),
               LAMBDA r : <<Alpha(r.o_orderpriority)>>)

Q5(db) ==
    LET rows == {r \in db.customer \otimes db.orders \otimes db.lineitem \otimes db.supplier
                       \otimes db.nation \otimes db.region :
                     /\ r.c_custkey = r.o_custkey
                     /\ r.l_orderkey = r.o_orderkey
                     /\ r.l_suppkey = r.s_suppkey
                     /\ r.c_nationkey = r.s_nationkey
                     /\ r.s_nationkey = r.n_nationkey
                     /\ r.n_regionkey = r.r_regionkey
                     /\ r.r_name = "ASIA"
                     /\ r.o_orderdate >= 19940101
                     /\ r.o_orderdate < 19950101}
    IN  Sorted(GroupBy(rows, {"n_name"}, LAMBDA g : [revenue |-> Total(g, Revenue)]),
               LAMBDA r : <<-r.revenue>>)

Q6(db) ==
    LET rows == {r \in db.lineitem : /\ r.l_shipdate >= 19940101
                                     /\ r.l_shipdate < 19950101
                                     /\ Between(r.l_discount, 6 - 1, 6 + 1)
                                     /\ r.l_quantity < 24}
    IN  [revenue |-> SqlSum(rows, LAMBDA r : r.l_extendedprice * r.l_discount)]

Q7(db) ==
    LET n1 == Select(db.nation, [n1_nationkey |-> "n_nationkey", supp_nation |-> "n_name"])
        n2 == Select(db.nation, [n2_nationkey |-> "n_nationkey", cust_nation |-> "n_name"])
        rows == {r \in db.supplier \otimes db.lineitem \otimes db.orders \otimes db.customer
                       \otimes n1 \otimes n2 :
                     /\ r.s_suppkey = r.l_suppkey
                     /\ r.o_orderkey = r.l_orderkey
                     /\ r.c_custkey = r.o_custkey
                     /\ r.s_nationkey = r.n1_nationkey
                     /\ r.c_nationkey = r.n2_nationkey
                     /\ \/ r.supp_nation = "FRANCE" /\ r.cust_nation = "GERMANY"
                        \/ r.supp_nation = "GERMANY" /\ r.cust_nation = "FRANCE"
                     /\ Between(r.l_shipdate, 19950101, 19961231)}
        shipping == WithColumns(rows, LAMBDA r : [l_year |-> Year(r.l_shipdate)])
    IN  Sorted(GroupBy(shipping, {"supp_nation", "cust_nation", "l_year"},
                       LAMBDA g : [revenue |-> Total(g, Revenue)]),
               LAMBDA r : <<Alpha(r.supp_nation), Alpha(r.cust_nation), r.l_year>>)

Q8(db) ==
    LET n1 == Select(db.nation, [n1_nationkey |-> "n_nationkey", n_regionkey |-> "n_regionkey"])
        n2 == Select(db.nation, [n2_nationkey |-> "n_nationkey", nation |-> "n_name"])
        rows == {r \in db.part \otimes db.supplier \otimes db.lineitem \otimes db.orders \otimes db.customer
                       \otimes n1 \otimes n2 \otimes db.region :
                     /\ r.p_partkey = r.l_partkey
                     /\ r.s_suppkey = r.l_suppkey
                     /\ r.l_orderkey = r.o_orderkey
                     /\ r.o_custkey = r.c_custkey
                     /\ r.c_nationkey = r.n1_nationkey
                     /\ r.n_regionkey = r.r_regionkey
                     /\ r.r_name = "AMERICA"
                     /\ r.s_nationkey = r.n2_nationkey
                     /\ Between(r.o_orderdate, 19950101, 19961231)
                     /\ r.p_type = <<"ECONOMY", "ANODIZED", "STEEL">>}
        all_nations == WithColumns(rows, LAMBDA r : [o_year |-> Year(r.o_orderdate)])
        brazil(r) == IF r.nation = "BRAZIL" THEN Revenue(r) ELSE 0
    IN  Sorted(GroupBy(all_nations, {"o_year"},
                       LAMBDA g : [mkt_share |-> <<Total(g, brazil), Total(g, Revenue)>>]),
               LAMBDA r : <<r.o_year>>)

Q9(db) ==
    LET rows == {r \in db.part \otimes db.supplier \otimes db.lineitem \otimes db.partsupp
                       \otimes db.orders \otimes db.nation :
                     /\ r.s_suppkey = r.l_suppkey
                     /\ r.ps_suppkey = r.l_suppkey
                     /\ r.ps_partkey = r.l_partkey
                     /\ r.p_partkey = r.l_partkey
                     /\ r.o_orderkey = r.l_orderkey
                     /\ r.s_nationkey = r.n_nationkey
                     /\ Mentions(r.p_name, "green")}
        profit == WithColumns(rows, LAMBDA r : [nation |-> r.n_name, o_year |-> Year(r.o_orderdate)])
        amount(r) == Revenue(r) - 100 * r.ps_supplycost * r.l_quantity
    IN  Sorted(GroupBy(profit, {"nation", "o_year"}, LAMBDA g : [sum_profit |-> Total(g, amount)]),
               LAMBDA r : <<Alpha(r.nation), -r.o_year>>)

Q10(db) ==
    LET rows == {r \in db.customer \otimes db.orders \otimes db.lineitem
                       \otimes db.nation :
                     /\ r.c_custkey = r.o_custkey
                     /\ r.l_orderkey = r.o_orderkey
                     /\ r.o_orderdate >= 19931001
                     /\ r.o_orderdate < 19940101
                     /\ r.l_returnflag = "R"
                     /\ r.c_nationkey = r.n_nationkey}
    IN  Top(GroupBy(rows, {"c_custkey", "c_name", "c_acctbal", "n_name"},
                    LAMBDA g : [revenue |-> Total(g, Revenue)]),
            LAMBDA r : <<-r.revenue>>, Cut[20])

Q11(db) ==
    LET rows == {r \in db.partsupp \otimes db.supplier \otimes db.nation :
                     /\ r.ps_suppkey = r.s_suppkey
                     /\ r.s_nationkey = r.n_nationkey
                     /\ r.n_name = "GERMANY"}
        cost(r) == r.ps_supplycost * r.ps_availqty
        parts == GroupBy(rows, {"ps_partkey"}, LAMBDA g : [value |-> Total(g, cost)])
    IN  Sorted({p \in parts : p.value * Divisor * ScaleFactor > Total(rows, cost)},
               LAMBDA r : <<-r.value>>)

Q12(db) ==
    LET rows == {r \in db.orders \otimes db.lineitem :
                     /\ r.o_orderkey = r.l_orderkey
                     /\ r.l_shipmode \in {"MAIL", "SHIP"}
                     /\ r.l_commitdate < r.l_receiptdate
                     /\ r.l_shipdate < r.l_commitdate
                     /\ r.l_receiptdate >= 19940101
                     /\ r.l_receiptdate < 19950101}
        high(r) == IF r.o_orderpriority = "1-URGENT" \/ r.o_orderpriority = "2-HIGH" THEN 1 ELSE 0
        low(r) == IF r.o_orderpriority # "1-URGENT" /\ r.o_orderpriority # "2-HIGH" THEN 1 ELSE 0
    IN  Sorted(GroupBy(rows, {"l_shipmode"}, LAMBDA g : [high_line_count |-> Total(g, high),
                                                         low_line_count |-> Total(g, low)]),
               LAMBDA r : <<Alpha(r.l_shipmode)>>)

Q13(db) ==
    LET orders == {o \in db.orders : ~MentionsInOrder(o.o_comment, "special", "requests")}
        joined == LeftMerge(db.customer, orders, <<"c_custkey">>, <<"o_custkey">>,
                            {"o_orderkey", "o_custkey", "o_comment"})
        c_orders == GroupBy(joined, {"c_custkey"}, LAMBDA g : [c_count |-> Count(g, "o_orderkey")])
    IN  Sorted(GroupBy(c_orders, {"c_count"}, LAMBDA g : [custdist |-> Cardinality(g)]),
               LAMBDA r : <<-r.custdist, -r.c_count>>)

Q14(db) ==
    LET rows == {r \in db.lineitem \otimes db.part :
                     /\ r.l_partkey = r.p_partkey
                     /\ r.l_shipdate >= 19950901
                     /\ r.l_shipdate < 19951001}
        promo(r) == IF StartsWith(r.p_type, <<"PROMO">>) THEN Revenue(r) ELSE 0
    IN  [promo_revenue |-> IF rows = {} THEN Null
                           ELSE <<100 * Total(rows, promo), Total(rows, Revenue)>>]

Q15(db) ==
    LET rows == {r \in db.lineitem : /\ r.l_shipdate >= 19960101
                                     /\ r.l_shipdate < 19960401}
        revenue == Select(GroupBy(rows, {"l_suppkey"},
                                  LAMBDA g : [total_revenue |-> Total(g, Revenue)]),
                          [supplier_no |-> "l_suppkey", total_revenue |-> "total_revenue"])
        best == {r \in db.supplier \otimes revenue :
                     /\ r.s_suppkey = r.supplier_no
                     /\ r.total_revenue = Max({v.total_revenue : v \in revenue})}
    IN  Sorted(Project(best, {"s_suppkey", "s_name", "total_revenue"}),
               LAMBDA r : <<r.s_suppkey>>)

Q16(db) ==
    LET complaints == {s.s_suppkey : s \in {t \in db.supplier :
                           MentionsInOrder(t.s_comment, "Customer", "Complaints")}}
        rows == {r \in db.partsupp \otimes db.part :
                     /\ r.p_partkey = r.ps_partkey
                     /\ r.p_brand # "Brand#45"
                     /\ ~StartsWith(r.p_type, <<"MEDIUM", "POLISHED">>)
                     /\ r.p_size \in {49, 14, 23, 45, 19, 3, 36, 9}
                     /\ r.ps_suppkey \notin complaints}
    IN  Sorted(GroupBy(rows, {"p_brand", "p_type", "p_size"},
                       LAMBDA g : [supplier_cnt |-> CountDistinct(g, "ps_suppkey")]),
               LAMBDA r : <<-r.supplier_cnt, Alpha(r.p_brand)>> \o AlphaWords(r.p_type) \o <<r.p_size>>)

Q17(db) ==
    LET fifth(p) == Mean({l \in db.lineitem : l.l_partkey = p}, Quantity)
        rows == {r \in db.lineitem \otimes db.part :
                     /\ r.p_partkey = r.l_partkey
                     /\ r.p_brand = "Brand#23"
                     /\ r.p_container = "MED BOX"
                     /\ r.l_quantity * 5 * fifth(r.p_partkey)[2] < fifth(r.p_partkey)[1]}
    IN  [avg_yearly |-> SqlSum(rows, Price)]

Q18(db) ==
    LET large == {k.l_orderkey : k \in {s \in GroupBy(db.lineitem, {"l_orderkey"},
                      LAMBDA g : [sum |-> Total(g, Quantity)]) : s.sum > 300}}
        rows == {r \in db.customer \otimes db.orders \otimes db.lineitem :
                     /\ r.o_orderkey \in large
                     /\ r.c_custkey = r.o_custkey
                     /\ r.o_orderkey = r.l_orderkey}
        groups == GroupBy(rows, {"c_name", "c_custkey", "o_orderkey", "o_orderdate", "o_totalprice"},
                          LAMBDA g : [col6 |-> Total(g, Quantity)])
    IN  Top(Rename(groups, "o_orderdate", "o_orderdat"),
            LAMBDA r : <<-r.o_totalprice, r.o_orderdat>>, Cut[100])

Q19(db) ==
    LET branch(r, brand, containers, quantity, size) ==
            /\ r.p_partkey = r.l_partkey
            /\ r.p_brand = brand
            /\ r.p_container \in containers
            /\ r.l_quantity >= quantity /\ r.l_quantity <= quantity + 10
            /\ Between(r.p_size, 1, size)
            /\ r.l_shipmode \in {"AIR", "AIR REG"}
            /\ r.l_shipinstruct = "DELIVER IN PERSON"
        rows == {r \in db.lineitem \otimes db.part :
            \/ branch(r, "Brand#12", {"SM CASE", "SM BOX", "SM PACK", "SM PKG"}, 1, 5)
            \/ branch(r, "Brand#23", {"MED BAG", "MED BOX", "MED PKG", "MED PACK"}, 10, 10)
            \/ branch(r, "Brand#34", {"LG CASE", "LG BOX", "LG PACK", "LG PKG"}, 20, 15)}
    IN  [revenue |-> SqlSum(rows, Revenue)]

Q20(db) ==
    LET forest == {p.p_partkey : p \in {q \in db.part : StartsWith(q.p_name, <<"forest">>)}}
        shipped(ps) == {l \in db.lineitem : /\ l.l_partkey = ps.ps_partkey
                                            /\ l.l_suppkey = ps.ps_suppkey
                                            /\ l.l_shipdate >= 19940101
                                            /\ l.l_shipdate < 19950101}
        \* a comparison with the sum of no rows, null, is not true
        excess == {ps \in db.partsupp : /\ ps.ps_partkey \in forest
                                        /\ shipped(ps) # {}
                                        /\ 2 * ps.ps_availqty > Total(shipped(ps), Quantity)}
        rows == {r \in db.supplier \otimes db.nation :
                     /\ r.s_suppkey \in {ps.ps_suppkey : ps \in excess}
                     /\ r.s_nationkey = r.n_nationkey
                     /\ r.n_name = "CANADA"}
    IN  Sorted(Project(rows, {"s_name"}), LAMBDA r : <<Alpha(r.s_name)>>)

Q21(db) ==
    LET others(l1) == {l \in db.lineitem : /\ l.l_orderkey = l1.l_orderkey
                                           /\ l.l_suppkey # l1.l_suppkey}
        rows == {r \in db.supplier \otimes db.lineitem \otimes db.orders
                       \otimes db.nation :
                     /\ r.s_suppkey = r.l_suppkey
                     /\ r.o_orderkey = r.l_orderkey
                     /\ r.o_orderstatus = "F"
                     /\ r.l_receiptdate > r.l_commitdate
                     /\ others(r) # {}
                     /\ ~ \E l3 \in others(r) : l3.l_receiptdate > l3.l_commitdate
                     /\ r.s_nationkey = r.n_nationkey
                     /\ r.n_name = "SAUDI ARABIA"}
    IN  Top(GroupBy(rows, {"s_name"}, LAMBDA g : [numwait |-> Cardinality(g)]),
            LAMBDA r : <<-r.numwait, Alpha(r.s_name)>>, Cut[100])

Q22(db) ==
    LET chosen == {c \in db.customer : c.c_phone[1] \in {13, 31, 23, 29, 30, 18, 17}}
        balance(c) == c.c_acctbal
        positive == {c \in chosen : c.c_acctbal > 0}
        \* the mean of no balances is null, and nothing is above it
        rows == {c \in chosen :
                     /\ positive # {}
                     /\ c.c_acctbal * Cardinality(positive) > Total(positive, balance)
                     /\ ~ \E o \in db.orders : o.o_custkey = c.c_custkey}
        custsale == WithColumns(rows, LAMBDA c : [cntrycode |-> c.c_phone[1]])
    IN  Sorted(GroupBy(custsale, {"cntrycode"}, LAMBDA g : [numcust |-> Cardinality(g),
                                                            totacctbal |-> Total(g, balance)]),
               LAMBDA r : <<r.cntrycode>>)
=============================================================================
