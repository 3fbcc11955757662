----------------------------- MODULE MCQueries -----------------------------
(***************************************************************************)
(* For every query, tables small enough that all their databases can be    *)
(* visited, and rich enough that every condition of the query is met by    *)
(* one row and missed by another, at its boundary: the last day that is    *)
(* in and the first that is out, two rows in a group and one in another,   *)
(* parents without children, more rows than a limit keeps.  A record with  *)
(* sets of values, one per column, stands for all rows with these values.  *)
(***************************************************************************)
EXTENDS Queries

MCCut == (10 :> 1) @@ (20 :> 2) @@ (100 :> 3)

MCAlphabetical ==
    <<"1-URGENT", "2-HIGH", "5-LOW", "A", "ANODIZED", "BRASS", "BRAZIL", "Brand#12", "Brand#23", "Brand#45",
      "CANADA", "Customer#1", "Customer#2", "Customer#3", "ECONOMY", "F", "FRANCE", "GERMANY",
      "INDIA", "JAPAN", "MAIL", "MEDIUM", "O", "POLISHED", "R", "SAUDI ARABIA", "SHIP", "SMALL",
      "STEEL", "Supplier#1", "Supplier#2", "Supplier#3", "Supplier#4">>

(* Names by key.                                                           *)
SName == <<"Supplier#1", "Supplier#2", "Supplier#3", "Supplier#4">>
CName == <<"Customer#1", "Customer#2", "Customer#3">>

Nation(key, name, region) == [n_nationkey |-> key, n_name |-> name, n_regionkey |-> region]
Region(key, name) == [r_regionkey |-> key, r_name |-> name]
Supplier(key, nation) == [s_suppkey |-> key, s_name |-> SName[key], s_nationkey |-> nation]
Customer(key, nation) == [c_custkey |-> key, c_name |-> CName[key], c_nationkey |-> nation]
PartSupp(part, supp) == [ps_partkey |-> part, ps_suppkey |-> supp]

(* A lineitem with its price and discount in hundredths.                   *)
Line(order, number, price, discount) ==
    [l_orderkey |-> order, l_linenumber |-> number,
     l_extendedprice |-> price, l_discount |-> discount]

(* rows x records of sets -> all rows with these further columns.          *)
With(rows, columns) == {r @@ c : r \in rows, c \in columns}

U1 == [lineitem |->
         [l_orderkey : {1}, l_linenumber : 1..3, l_shipdate : {19980902, 19980903},
          l_returnflag : {"A", "R"}, l_linestatus : {"F", "O"}, l_quantity : {1},
          l_extendedprice : {20}, l_discount : {0, 10}, l_tax : {5}]]

U2 == [region |-> {Region(1, "EUROPE"), Region(2, "ASIA")},
       nation |-> {Nation(1, "GERMANY", 1), Nation(2, "INDIA", 2), Nation(3, "FRANCE", 1)},
       supplier |-> With({Supplier(1, 1)}, [s_acctbal : {5}]) \cup With({Supplier(2, 1)}, [s_acctbal : {5, 6}])
                    \cup With({Supplier(2, 3)}, [s_acctbal : {5}]) \cup With({Supplier(3, 2)}, [s_acctbal : {9}]),
       part |-> {[p_partkey |-> 1, p_size |-> 15, p_type |-> <<"SMALL", "POLISHED", "BRASS">>],
                 [p_partkey |-> 2, p_size |-> 15, p_type |-> <<"SMALL", "POLISHED", "BRASS">>],
                 [p_partkey |-> 2, p_size |-> 14, p_type |-> <<"SMALL", "POLISHED", "BRASS">>],
                 [p_partkey |-> 2, p_size |-> 15, p_type |-> <<"SMALL", "POLISHED", "STEEL">>]},
       partsupp |-> With({PartSupp(1, 1), PartSupp(1, 2)}, [ps_supplycost : {2, 3}])
                    \cup With({PartSupp(1, 3)}, [ps_supplycost : {1}])
                    \cup With({PartSupp(2, 1), PartSupp(2, 2)}, [ps_supplycost : {2}])]

U3 == [customer |-> {Customer(1, 1) @@ [c_mktsegment |-> "BUILDING"],
                     Customer(2, 1) @@ [c_mktsegment |-> "MACHINERY"]},
       orders |-> [o_orderkey : 1..2, o_custkey : {1}, o_shippriority : {0},
                   o_orderdate : {19950314, 19950315}]
                  \cup [o_orderkey : {3}, o_custkey : {2}, o_shippriority : {0},
                        o_orderdate : {19950314}],
       lineitem |-> With({Line(1, 1, 20, 10), Line(1, 2, 30, 0), Line(2, 1, 18, 0), Line(3, 1, 99, 0)},
                         [l_shipdate : {19950315, 19950316}])]

U4 == [orders |-> [o_orderkey : 1..2, o_orderpriority : {"2-HIGH", "5-LOW"},
                   o_orderdate : {19930630, 19930701, 19930930, 19931001}],
       lineitem |-> [l_orderkey : {1}, l_linenumber : 1..2, l_commitdate : {19930801},
                     l_receiptdate : {19930801, 19930802}]
                    \cup [l_orderkey : {2}, l_linenumber : {1}, l_commitdate : {19930801},
                          l_receiptdate : {19930802}]]

U5 == [region |-> {Region(1, "ASIA"), Region(2, "EUROPE")},
       nation |-> {Nation(1, "INDIA", 1), Nation(2, "JAPAN", 1), Nation(3, "FRANCE", 2)},
       customer |-> {Customer(1, 1), Customer(2, 2), Customer(3, 3)},
       supplier |-> {Supplier(1, 1), Supplier(2, 2), Supplier(3, 3)},
       orders |-> [o_orderkey : {1}, o_custkey : 1..3, o_orderdate : {19940101, 19950101}]
                  \cup [o_orderkey : {2}, o_custkey : {2}, o_orderdate : {19931231, 19941231}],
       lineitem |-> With({Line(1, 1, 20, 10), Line(2, 1, 30, 0)}, [l_suppkey : 1..3])]

U6 == [lineitem |->
         [l_orderkey : {1}, l_linenumber : 1..2,
          l_shipdate : {19931231, 19940101, 19941231, 19950101},
          l_discount : {4, 5, 7, 8}, l_quantity : {23, 24}, l_extendedprice : {10}]]

U7 == [nation |-> {Nation(1, "FRANCE", 1), Nation(2, "GERMANY", 1), Nation(3, "INDIA", 2)},
       customer |-> {Customer(1, 1), Customer(2, 2), Customer(3, 3)},
       supplier |-> {Supplier(1, 1), Supplier(2, 2)},
       orders |-> [o_orderkey : {1}, o_custkey : 1..3] \cup [o_orderkey : {2}, o_custkey : {1}],
       lineitem |-> With({Line(1, 1, 20, 10), Line(2, 1, 30, 0)},
                         [l_suppkey : 1..2, l_shipdate : {19950101, 19961231}])
                    \cup With({Line(1, 2, 40, 0)},
                              [l_suppkey : {1}, l_shipdate : {19941231, 19961231, 19970101}])]

U8 == [region |-> {Region(1, "AMERICA"), Region(2, "ASIA")},
       nation |-> {Nation(1, "BRAZIL", 1), Nation(2, "CANADA", 1), Nation(3, "INDIA", 2)},
       customer |-> {Customer(1, 2), Customer(2, 3)},
       supplier |-> {Supplier(1, 1), Supplier(2, 3)},
       part |-> [p_partkey : {1}, p_type : {<<"ECONOMY", "ANODIZED", "STEEL">>,
                                            <<"ECONOMY", "ANODIZED", "BRASS">>}],
       orders |-> [o_orderkey : {1}, o_custkey : {1, 2}, o_orderdate : {19950101, 19970101}]
                  \cup [o_orderkey : {2}, o_custkey : {1}, o_orderdate : {19941231, 19961231}],
       lineitem |-> With({Line(1, 1, 20, 10), Line(1, 2, 30, 0), Line(2, 1, 50, 0)},
                         [l_partkey : {1}, l_suppkey : 1..2])]

U9 == [nation |-> {Nation(1, "FRANCE", 1), Nation(2, "INDIA", 2)},
       supplier |-> {Supplier(1, 1), Supplier(2, 2)},
       part |-> {[p_partkey |-> 1, p_name |-> <<"lemon", "green">>],
                 [p_partkey |-> 2, p_name |-> <<"forest", "lemon">>]},
       partsupp |-> With({PartSupp(1, 1), PartSupp(1, 2), PartSupp(2, 1)}, [ps_supplycost : {1, 2}]),
       orders |-> {[o_orderkey |-> 1, o_orderdate |-> 19951231], [o_orderkey |-> 2, o_orderdate |-> 19960101]},
       lineitem |-> With({Line(1, 1, 20, 10), Line(2, 1, 30, 0)},
                         [l_partkey : {1}, l_suppkey : 1..2, l_quantity : {2}])
                    \cup With({Line(2, 2, 40, 0)}, [l_partkey : 1..2, l_suppkey : {1}, l_quantity : {1}])]

U10 == [nation |-> {Nation(1, "FRANCE", 1)},
        customer |-> {Customer(k, 1) @@ [c_acctbal |-> 7] : k \in 1..3},
        orders |-> [o_orderkey : {1}, o_custkey : {1}, o_orderdate : {19930930, 19931001}]
                   \cup [o_orderkey : {2}, o_custkey : 1..2, o_orderdate : {19931231, 19940101}]
                   \cup [o_orderkey : {3}, o_custkey : {3}, o_orderdate : {19931231}],
        lineitem |-> With({Line(1, 1, 20, 10), Line(2, 1, 18, 0)}, [l_returnflag : {"R", "A"}])
                     \cup With({Line(3, 1, 9, 0), Line(3, 2, 9, 0)}, [l_returnflag : {"R"}])]

U11 == [nation |-> {Nation(1, "GERMANY", 1), Nation(2, "FRANCE", 1)},
        supplier |-> {Supplier(1, 1), Supplier(2, 1), Supplier(3, 2)},
        partsupp |-> With({PartSupp(1, 1), PartSupp(2, 1), PartSupp(1, 2), PartSupp(3, 2), PartSupp(1, 3)},
                          [ps_supplycost : {1, 3}, ps_availqty : {2}])]

U12 == [orders |-> [o_orderkey : {1}, o_orderpriority : {"1-URGENT", "5-LOW"}]
                   \cup [o_orderkey : {2}, o_orderpriority : {"2-HIGH"}],
        lineitem |-> [l_orderkey : {1}, l_linenumber : {1}, l_shipmode : {"MAIL", "SHIP", "AIR"},
                      l_shipdate : {19940101}, l_commitdate : {19940101, 19940102},
                      l_receiptdate : {19940102, 19940103}]
                     \cup [l_orderkey : {1}, l_linenumber : {2}, l_shipmode : {"MAIL"},
                           l_shipdate : {19931201}, l_commitdate : {19931215},
                           l_receiptdate : {19931231, 19940101}]
                     \cup [l_orderkey : {2}, l_linenumber : {1}, l_shipmode : {"SHIP"},
                           l_shipdate : {19941201}, l_commitdate : {19941215},
                           l_receiptdate : {19941231, 19950101}]]

U13 == [customer |-> {Customer(k, 1) : k \in 1..3},
        orders |-> [o_orderkey : 1..3, o_custkey : 1..2,
                    o_comment : {<<"special", "requests">>, <<"requests", "special">>}]]

U14 == [part |-> {[p_partkey |-> 1, p_type |-> <<"PROMO", "BRUSHED", "TIN">>],
                  [p_partkey |-> 2, p_type |-> <<"SMALL", "BRUSHED", "TIN">>]},
        lineitem |-> With({Line(1, 1, 20, 10), Line(1, 2, 30, 0), Line(1, 3, 40, 0)},
                          [l_partkey : 1..2, l_shipdate : {19950831, 19950901, 19950930, 19951001}])]

U15 == [supplier |-> {Supplier(k, 1) : k \in 1..3},
        lineitem |-> With({Line(1, 1, 20, 10), Line(1, 2, 18, 0), Line(1, 3, 36, 0)},
                          [l_suppkey : 1..3, l_shipdate : {19951231, 19960101, 19960401}])]

U16 == [supplier |-> {Supplier(1, 1) @@ [s_comment |-> <<"Customer", "slow", "Complaints">>],
                      Supplier(2, 1) @@ [s_comment |-> <<"Complaints", "Customer">>],
                      Supplier(3, 1) @@ [s_comment |-> <<"Customer", "Recommends">>]},
        part |-> [p_partkey : {1}, p_brand : {"Brand#12", "Brand#45"}, p_size : {49},
                  p_type : {<<"SMALL", "POLISHED", "STEEL">>, <<"MEDIUM", "POLISHED", "STEEL">>}]
                 \cup [p_partkey : {2}, p_brand : {"Brand#12", "Brand#23"},
                       p_size : {3, 4, 9, 14, 19, 23, 36, 45, 49},
                       p_type : {<<"SMALL", "POLISHED", "STEEL">>}],
        partsupp |-> {PartSupp(p, s) : p \in 1..2, s \in 1..3}]

U17 == [part |-> [p_partkey : {1}, p_brand : {"Brand#23"}, p_container : {"MED BOX"}]
                 \cup [p_partkey : {2}, p_brand : {"Brand#12", "Brand#23"},
                       p_container : {"MED BOX", "MED BAG"}],
        lineitem |-> With({Line(1, 1, 20, 0), Line(1, 2, 30, 0)}, [l_partkey : 1..2, l_quantity : {1, 2}])
                     \cup With({Line(2, 1, 40, 0), Line(2, 2, 40, 0)}, [l_partkey : 1..2, l_quantity : {9}])]

(* Six lineitems of 43 and one of 42 make 300.                             *)
U18 == [customer |-> {Customer(1, 1), Customer(2, 1)},
        orders |-> [o_orderkey : {1}, o_custkey : {1, 2}, o_orderdate : {19950101}, o_totalprice : {5}]
                   \cup [o_orderkey : {2}, o_custkey : {1}, o_orderdate : {19950102}, o_totalprice : {5, 9}]
                   \cup [o_orderkey : 3..4, o_custkey : {1}, o_orderdate : {19950102}, o_totalprice : {5}],
        lineitem |-> [l_orderkey : 1..4, l_linenumber : 1..6, l_quantity : {43}]
                     \cup [l_orderkey : {1}, l_linenumber : {7}, l_quantity : {42, 43}]
                     \cup [l_orderkey : 2..4, l_linenumber : {7}, l_quantity : {43}]]

U19 == [part |-> [p_partkey : {1}, p_brand : {"Brand#12", "Brand#23", "Brand#34"},
                  p_container : {"SM BOX", "MED BOX", "LG BOX"}, p_size : {1, 5, 6, 10, 11, 15, 16}],
        lineitem |-> With({Line(1, 1, 20, 10)},
                          [l_partkey : {1}, l_quantity : {1, 10, 11, 12, 20, 21, 30, 31},
                           l_shipmode : {"AIR", "MAIL"}, l_shipinstruct : {"DELIVER IN PERSON"}])
                     \cup With({Line(1, 2, 30, 0)},
                               [l_partkey : {1}, l_quantity : {10}, l_shipmode : {"AIR REG"},
                                l_shipinstruct : {"DELIVER IN PERSON", "NONE"}])]

U20 == [nation |-> {Nation(1, "CANADA", 1), Nation(2, "FRANCE", 1)},
        supplier |-> {Supplier(1, 1), Supplier(2, 1), Supplier(3, 2)},
        part |-> {[p_partkey |-> 1, p_name |-> <<"forest", "green">>],
                  [p_partkey |-> 2, p_name |-> <<"forest", "lemon">>],
                  [p_partkey |-> 2, p_name |-> <<"lemon", "forest">>]},
        partsupp |-> With({PartSupp(1, 1), PartSupp(2, 1), PartSupp(1, 2), PartSupp(1, 3)},
                          [ps_availqty : {3}]),
        lineitem |-> With({Line(1, 1, 1, 0), Line(1, 2, 1, 0)},
                          [l_partkey : {1}, l_suppkey : {1}, l_quantity : {3},
                           l_shipdate : {19931231, 19940101, 19941231, 19950101}])
                     \cup With({Line(1, 3, 1, 0)},
                               [l_partkey : {1}, l_suppkey : 2..3, l_quantity : {5}, l_shipdate : {19940101}])
                     \cup With({Line(1, 4, 1, 0)},
                               [l_partkey : {2}, l_suppkey : {1}, l_quantity : {5}, l_shipdate : {19940101}])]

(* Orders with a single lineitem, and with more by the same or by other    *)
(* suppliers, received by the date of the commitment or later.             *)
U21 == [nation |-> {Nation(1, "SAUDI ARABIA", 1), Nation(2, "FRANCE", 1)},
        supplier |-> {Supplier(1, 1), Supplier(2, 1), Supplier(3, 2), Supplier(4, 1)},
        orders |-> [o_orderkey : {1}, o_orderstatus : {"F", "O"}]
                   \cup [o_orderkey : 2..4, o_orderstatus : {"F"}],
        lineitem |-> [l_orderkey : {1}, l_linenumber : {1, 2}, l_suppkey : 1..2,
                      l_commitdate : {19950101}, l_receiptdate : {19950101, 19950102}]
                     \cup [l_orderkey : {1}, l_linenumber : {3}, l_suppkey : {3},
                           l_commitdate : {19950101}, l_receiptdate : {19950101, 19950102}]
                     \cup [l_orderkey : {2}, l_linenumber : {1}, l_suppkey : {2},
                           l_commitdate : {19950101}, l_receiptdate : {19950102}]
                     \cup [l_orderkey : {3}, l_linenumber : {1}, l_suppkey : {2, 4},
                           l_commitdate : {19950101}, l_receiptdate : {19950102}]
                     \cup [l_orderkey : 2..3, l_linenumber : {2}, l_suppkey : {1},
                           l_commitdate : {19950101}, l_receiptdate : {19950101}]]

Holder(key, country, balance) ==
    [c_custkey |-> key, c_phone |-> <<country, key>>, c_acctbal |-> balance]
U22 == [customer |-> {Holder(1, 13, 1), Holder(2, 31, 3), Holder(3, 23, 3), Holder(4, 29, 2),
                      Holder(5, 30, 4), Holder(6, 18, -9), Holder(6, 18, 0), Holder(7, 17, 5),
                      Holder(8, 32, 9), Holder(9, 13, 3)},
        orders |-> [o_orderkey : {1, 2}, o_custkey : {2, 3}]]

MCUniverse == <<U1, U2, U3, U4, U5, U6, U7, U8, U9, U10, U11, U12, U13, U14,
                U15, U16, U17, U18, U19, U20, U21, U22>>
=============================================================================
