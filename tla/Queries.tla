------------------------------ MODULE Queries ------------------------------
(***************************************************************************)
(* The benchmark compares engines by the time they take for the same 22    *)
(* questions, which makes sense only if they give the same answers.  The   *)
(* repository compares answers with those of scale factor 1 (check_result, *)
(* src/queries/common_utils.py); here they are compared with the SQL of    *)
(* src/queries/duckdb for every small database of the schema.              *)
(*                                                                         *)
(* A behaviour picks a query and fills the tables that it reads, row by    *)
(* row: every state is a database, and the invariants speak of the answers *)
(* of the engines to it.                                                   *)
(***************************************************************************)
EXTENDS RowSets

CONSTANTS
    ScaleFactor, Divisor,
    Universe       \* query -> table -> the rows the table may have

ASSUME UniverseAssumption == /\ DOMAIN Universe \subseteq 1..22
                             /\ ScaleFactor \in Nat \ {0}
                             /\ Divisor \in Nat \ {0}

VARIABLES
    query,         \* Q_NUM
    db             \* table -> its rows, for the tables that the query reads

vars == <<query, db>>

Sql == INSTANCE DuckdbQueries
Polars == INSTANCE PolarsQueries
Pandas == INSTANCE PandasQueries

-----------------------------------------------------------------------------
(* The schema of src/tpch-dbgen/dss.ddl and dss.ri.                        *)

Columns ==
    [nation |-> {"n_nationkey", "n_name", "n_regionkey", "n_comment"},
     region |-> {"r_regionkey", "r_name", "r_comment"},
     part |-> {"p_partkey", "p_name", "p_mfgr", "p_brand", "p_type", "p_size",
               "p_container", "p_retailprice", "p_comment"},
     supplier |-> {"s_suppkey", "s_name", "s_address", "s_nationkey", "s_phone",
                   "s_acctbal", "s_comment"},
     partsupp |-> {"ps_partkey", "ps_suppkey", "ps_availqty", "ps_supplycost", "ps_comment"},
     customer |-> {"c_custkey", "c_name", "c_address", "c_nationkey", "c_phone",
                   "c_acctbal", "c_mktsegment", "c_comment"},
     orders |-> {"o_orderkey", "o_custkey", "o_orderstatus", "o_totalprice", "o_orderdate",
                 "o_orderpriority", "o_clerk", "o_shippriority", "o_comment"},
     lineitem |-> {"l_orderkey", "l_partkey", "l_suppkey", "l_linenumber", "l_quantity",
                   "l_extendedprice", "l_discount", "l_tax", "l_returnflag", "l_linestatus",
                   "l_shipdate", "l_commitdate", "l_receiptdate", "l_shipinstruct",
                   "l_shipmode", "l_comment"}]

(* The columns that are summed.                                            *)
Quantities == {"l_quantity", "l_extendedprice", "l_discount", "l_tax",
               "ps_supplycost", "ps_availqty", "c_acctbal"}

(* The tables and columns that a query names.                              *)
Reads == <<
    [lineitem |-> {"l_shipdate", "l_returnflag", "l_linestatus", "l_quantity",
                   "l_extendedprice", "l_discount", "l_tax"}],
    [part |-> {"p_partkey", "p_size", "p_type"}, partsupp |-> {"ps_partkey", "ps_suppkey", "ps_supplycost"},
     supplier |-> {"s_suppkey", "s_nationkey", "s_acctbal", "s_name"},
     nation |-> {"n_nationkey", "n_regionkey", "n_name"}, region |-> {"r_regionkey", "r_name"}],
    [customer |-> {"c_custkey", "c_mktsegment"},
     orders |-> {"o_orderkey", "o_custkey", "o_orderdate", "o_shippriority"},
     lineitem |-> {"l_orderkey", "l_shipdate", "l_extendedprice", "l_discount"}],
    [orders |-> {"o_orderkey", "o_orderdate", "o_orderpriority"},
     lineitem |-> {"l_orderkey", "l_commitdate", "l_receiptdate"}],
    [region |-> {"r_regionkey", "r_name"}, nation |-> {"n_nationkey", "n_regionkey", "n_name"},
     customer |-> {"c_custkey", "c_nationkey"}, orders |-> {"o_orderkey", "o_custkey", "o_orderdate"},
     supplier |-> {"s_suppkey", "s_nationkey"},
     lineitem |-> {"l_orderkey", "l_suppkey", "l_extendedprice", "l_discount"}],
    [lineitem |-> {"l_shipdate", "l_discount", "l_quantity", "l_extendedprice"}],
    [nation |-> {"n_nationkey", "n_name"}, customer |-> {"c_custkey", "c_nationkey"},
     orders |-> {"o_orderkey", "o_custkey"}, supplier |-> {"s_suppkey", "s_nationkey"},
     lineitem |-> {"l_orderkey", "l_suppkey", "l_shipdate", "l_extendedprice", "l_discount"}],
    [region |-> {"r_regionkey", "r_name"}, nation |-> {"n_nationkey", "n_regionkey", "n_name"},
     part |-> {"p_partkey", "p_type"}, customer |-> {"c_custkey", "c_nationkey"},
     orders |-> {"o_orderkey", "o_custkey", "o_orderdate"}, supplier |-> {"s_suppkey", "s_nationkey"},
     lineitem |-> {"l_orderkey", "l_partkey", "l_suppkey", "l_extendedprice", "l_discount"}],
    [nation |-> {"n_nationkey", "n_name"}, part |-> {"p_partkey", "p_name"},
     partsupp |-> {"ps_partkey", "ps_suppkey", "ps_supplycost"},
     orders |-> {"o_orderkey", "o_orderdate"}, supplier |-> {"s_suppkey", "s_nationkey"},
     lineitem |-> {"l_orderkey", "l_partkey", "l_suppkey", "l_quantity", "l_extendedprice", "l_discount"}],
    [nation |-> {"n_nationkey", "n_name"}, customer |-> {"c_custkey", "c_nationkey", "c_name", "c_acctbal"},
     orders |-> {"o_orderkey", "o_custkey", "o_orderdate"},
     lineitem |-> {"l_orderkey", "l_returnflag", "l_extendedprice", "l_discount"}],
    [nation |-> {"n_nationkey", "n_name"}, supplier |-> {"s_suppkey", "s_nationkey"},
     partsupp |-> {"ps_partkey", "ps_suppkey", "ps_supplycost", "ps_availqty"}],
    [orders |-> {"o_orderkey", "o_orderpriority"},
     lineitem |-> {"l_orderkey", "l_shipmode", "l_shipdate", "l_commitdate", "l_receiptdate"}],
    [customer |-> {"c_custkey"}, orders |-> {"o_orderkey", "o_custkey", "o_comment"}],
    [part |-> {"p_partkey", "p_type"},
     lineitem |-> {"l_partkey", "l_shipdate", "l_extendedprice", "l_discount"}],
    [supplier |-> {"s_suppkey", "s_name"},
     lineitem |-> {"l_suppkey", "l_shipdate", "l_extendedprice", "l_discount"}],
    [supplier |-> {"s_suppkey", "s_comment"}, part |-> {"p_partkey", "p_brand", "p_type", "p_size"},
     partsupp |-> {"ps_partkey", "ps_suppkey"}],
    [part |-> {"p_partkey", "p_brand", "p_container"},
     lineitem |-> {"l_partkey", "l_quantity", "l_extendedprice"}],
    [customer |-> {"c_custkey", "c_name"},
     orders |-> {"o_orderkey", "o_custkey", "o_orderdate", "o_totalprice"},
     lineitem |-> {"l_orderkey", "l_quantity"}],
    [part |-> {"p_partkey", "p_brand", "p_container", "p_size"},
     lineitem |-> {"l_partkey", "l_quantity", "l_shipmode", "l_shipinstruct",
                   "l_extendedprice", "l_discount"}],
    [nation |-> {"n_nationkey", "n_name"}, supplier |-> {"s_suppkey", "s_nationkey", "s_name"},
     part |-> {"p_partkey", "p_name"}, partsupp |-> {"ps_partkey", "ps_suppkey", "ps_availqty"},
     lineitem |-> {"l_partkey", "l_suppkey", "l_quantity", "l_shipdate"}],
    [nation |-> {"n_nationkey", "n_name"}, supplier |-> {"s_suppkey", "s_nationkey", "s_name"},
     orders |-> {"o_orderkey", "o_orderstatus"},
     lineitem |-> {"l_orderkey", "l_suppkey", "l_commitdate", "l_receiptdate"}],
    [customer |-> {"c_custkey", "c_phone", "c_acctbal"}, orders |-> {"o_custkey"}]>>

PrimaryKey == [region |-> {"r_regionkey"}, nation |-> {"n_nationkey"},
               part |-> {"p_partkey"}, supplier |-> {"s_suppkey"},
               partsupp |-> {"ps_partkey", "ps_suppkey"}, customer |-> {"c_custkey"},
               orders |-> {"o_orderkey"}, lineitem |-> {"l_orderkey", "l_linenumber"}]

ForeignKeys ==
    {<<"nation", <<"n_regionkey">>, "region", <<"r_regionkey">>>>,
     <<"supplier", <<"s_nationkey">>, "nation", <<"n_nationkey">>>>,
     <<"customer", <<"c_nationkey">>, "nation", <<"n_nationkey">>>>,
     <<"partsupp", <<"ps_suppkey">>, "supplier", <<"s_suppkey">>>>,
     <<"partsupp", <<"ps_partkey">>, "part", <<"p_partkey">>>>,
     <<"orders", <<"o_custkey">>, "customer", <<"c_custkey">>>>,
     <<"lineitem", <<"l_orderkey">>, "orders", <<"o_orderkey">>>>,
     <<"lineitem", <<"l_partkey", "l_suppkey">>, "partsupp", <<"ps_partkey", "ps_suppkey">>>>}

(* A key to PARTSUPP is one to PART and one to SUPPLIER where the query    *)
(* reads these and not PARTSUPP.                                           *)
ImpliedKeys ==
    {<<"lineitem", <<"l_partkey">>, "part", <<"p_partkey">>>>,
     <<"lineitem", <<"l_suppkey">>, "supplier", <<"s_suppkey">>>>}

HasParents(t, row) ==
    \A k \in ForeignKeys \cup ImpliedKeys :
        (k[1] = t /\ k[3] \in DOMAIN db) =>
            \E parent \in db[k[3]] : Match(row, parent, k[2], k[4])

(* Every row of a table has its columns, as far as the query reads them:   *)
(* none is null, and those that are summed are numbers.  A type has three  *)
(* words, and MEDIUM can only be the first: p_types of dists.dss.          *)
IsRowOf(t, row) ==
    /\ row = [c \in DOMAIN row |-> row[c]]
    /\ DOMAIN row \subseteq Columns[t]
    /\ PrimaryKey[t] \subseteq DOMAIN row
    /\ \A c \in DOMAIN row : row[c] # Null
    /\ \A c \in DOMAIN row \cap Quantities : row[c] \in Int
    /\ "p_type" \in DOMAIN row =>
           /\ row.p_type = <<row.p_type[1], row.p_type[2], row.p_type[3]>>
           /\ row.p_type[2] # "MEDIUM"

ASSUME SchemaAssumption ==
    \A q \in DOMAIN Universe :
        /\ DOMAIN Universe[q] = DOMAIN Reads[q]
        /\ \A t \in DOMAIN Reads[q] : \A row \in Universe[q][t] :
              IsRowOf(t, row) /\ Reads[q][t] \subseteq DOMAIN row

ASSUME NullAssumption == Null \notin Int /\ Null \notin Int \X Int

(* The lineitems of an order are numbered from 1.                          *)
IsNext(t, row) ==
    t = "lineitem" => \/ row.l_linenumber = 1
                      \/ \E l \in db.lineitem : /\ l.l_orderkey = row.l_orderkey
                                                 /\ l.l_linenumber = row.l_linenumber - 1

Insert(t) ==
    \E row \in Universe[query][t] :
        /\ \A other \in db[t] : On(other, PrimaryKey[t]) # On(row, PrimaryKey[t])
        /\ HasParents(t, row)
        /\ IsNext(t, row)
        /\ db' = [db EXCEPT ![t] = @ \cup {row}]
        /\ UNCHANGED query

Init == /\ query \in DOMAIN Universe
        /\ db = [t \in DOMAIN Universe[query] |-> {}]
Next == \E t \in DOMAIN db : Insert(t)
Spec == Init /\ [][Next]_vars

-----------------------------------------------------------------------------
(* The answers.                                                            *)

SqlAnswer ==
    CASE query = 1 -> Sql!Q1(db) [] query = 2 -> Sql!Q2(db) [] query = 3 -> Sql!Q3(db)
      [] query = 4 -> Sql!Q4(db) [] query = 5 -> Sql!Q5(db) [] query = 6 -> Sql!Q6(db)
      [] query = 7 -> Sql!Q7(db) [] query = 8 -> Sql!Q8(db) [] query = 9 -> Sql!Q9(db)
      [] query = 10 -> Sql!Q10(db) [] query = 11 -> Sql!Q11(db) [] query = 12 -> Sql!Q12(db)
      [] query = 13 -> Sql!Q13(db) [] query = 14 -> Sql!Q14(db) [] query = 15 -> Sql!Q15(db)
      [] query = 16 -> Sql!Q16(db) [] query = 17 -> Sql!Q17(db) [] query = 18 -> Sql!Q18(db)
      [] query = 19 -> Sql!Q19(db) [] query = 20 -> Sql!Q20(db) [] query = 21 -> Sql!Q21(db)
      [] query = 22 -> Sql!Q22(db)

PolarsAnswer ==
    CASE query = 1 -> Polars!Q1(db) [] query = 2 -> Polars!Q2(db) [] query = 3 -> Polars!Q3(db)
      [] query = 4 -> Polars!Q4(db) [] query = 5 -> Polars!Q5(db) [] query = 6 -> Polars!Q6(db)
      [] query = 7 -> Polars!Q7(db) [] query = 8 -> Polars!Q8(db) [] query = 9 -> Polars!Q9(db)
      [] query = 10 -> Polars!Q10(db) [] query = 11 -> Polars!Q11(db) [] query = 12 -> Polars!Q12(db)
      [] query = 13 -> Polars!Q13(db) [] query = 14 -> Polars!Q14(db) [] query = 15 -> Polars!Q15(db)
      [] query = 16 -> Polars!Q16(db) [] query = 17 -> Polars!Q17(db) [] query = 18 -> Polars!Q18(db)
      [] query = 19 -> Polars!Q19(db) [] query = 20 -> Polars!Q20(db) [] query = 21 -> Polars!Q21(db)
      [] query = 22 -> Polars!Q22(db)

PandasAnswer ==
    CASE query = 1 -> Pandas!Q1(db) [] query = 2 -> Pandas!Q2(db) [] query = 3 -> Pandas!Q3(db)
      [] query = 4 -> Pandas!Q4(db) [] query = 5 -> Pandas!Q5(db) [] query = 6 -> Pandas!Q6(db)
      [] query = 7 -> Pandas!Q7(db) [] query = 8 -> Pandas!Q8(db) [] query = 9 -> Pandas!Q9(db)
      [] query = 10 -> Pandas!Q10(db) [] query = 11 -> Pandas!Q11(db) [] query = 12 -> Pandas!Q12(db)
      [] query = 13 -> Pandas!Q13(db) [] query = 14 -> Pandas!Q14(db) [] query = 15 -> Pandas!Q15(db)
      [] query = 16 -> Pandas!Q16(db) [] query = 17 -> Pandas!Q17(db) [] query = 18 -> Pandas!Q18(db)
      [] query = 19 -> Pandas!Q19(db) [] query = 20 -> Pandas!Q20(db) [] query = 21 -> Pandas!Q21(db)
      [] query = 22 -> Pandas!Q22(db)

(* Four queries are a single sum, which is null in SQL when no row is      *)
(* selected; the data frames say 0.  q14 is a quotient of two sums, which  *)
(* is then nan in polars and an exception in pandas.                       *)
NaN == <<0, 0>>
SumOfNothing(quotient) ==
    [c \in {"revenue", "promo_revenue", "avg_yearly"} |->
        IF c = "promo_revenue" THEN quotient ELSE 0]
InDataFrame(answer, quotient) ==
    IF query \in {6, 14, 17, 19}
    THEN [c \in DOMAIN answer |-> IF answer[c] = Null THEN SumOfNothing(quotient)[c] ELSE answer[c]]
    ELSE answer

(* Two lineitems of one order may have the same supplier; the data frame   *)
(* versions of q21 take them for two suppliers.                            *)
SupplierTwice ==
    query = 21 /\ \E k, l \in db.lineitem : /\ k # l
                                            /\ k.l_orderkey = l.l_orderkey
                                            /\ k.l_suppkey = l.l_suppkey

-----------------------------------------------------------------------------
(* Properties.                                                             *)

(* The polars version of every query gives the answer of its SQL: the same *)
(* rows with the same sums, in an order that the SQL allows.  The joins    *)
(* are in another order, filters come before or after them, subqueries are *)
(* semi-joins, left joins with a test for null, or groups joined back, and *)
(* some versions rely on the keys of the schema (q15 takes the maximum     *)
(* after joining the suppliers).  A sum of nothing may differ as said      *)
(* above, and q21 does where an order has one supplier twice.              *)
PolarsAgrees == SupplierTwice \/ PolarsAnswer = InDataFrame(SqlAnswer, NaN)

(* The same for the pandas version, which joins whole tables before it     *)
(* filters, drops duplicates where SQL says exists (q4), and adds up two   *)
(* halves of q7.                                                           *)
PandasAgrees ==
    SupplierTwice \/ PandasAnswer = InDataFrame(SqlAnswer, Pandas!ZeroDivisionError)
=============================================================================
