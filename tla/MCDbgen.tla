------------------------------ MODULE MCDbgen ------------------------------
(* Small tables for TLC.  Five orders in three chunks leave a remainder of  *)
(* two; two suppliers in three chunks leave two chunks empty.               *)
EXTENDS Dbgen

MCRows == [t \in Tables |->
             CASE t \in {"ORDER", "LINE", "ORDER_LINE"}   -> 5
               [] t \in {"PART", "PSUPP", "PART_PSUPP"} -> 4
               [] t = "CUST" -> 3
               [] OTHER      -> 2]

\* Every option in up to two chunks; in three, each kind of skip: streams of
\* the table alone, of its child, and shared with its parent.
MCCommands == {c \in (1..MaxChildren) \X TableOptions :
                 c[1] = 3 => c[2] \in {{"SUPP"}, {"ORDER_LINE"}, {"LINE"}}}
=============================================================================
