------------------------------ MODULE DataSet ------------------------------
(***************************************************************************)
(* What a set of dbgen processes promises, whatever the number of          *)
(* processes and the order they run in: each row of each wanted table is   *)
(* written once, with the content the one-process run gives it, and every  *)
(* row is eventually written.                                              *)
(***************************************************************************)
EXTENDS Naturals

CONSTANTS Tables,    \* the tables that can be asked for
          Rows       \* Rows[t]: the number of rows of table t

VARIABLES wanted,    \* the tables asked for
          written    \* written[t][i]: how often row i of t has been written

vars == <<wanted, written>>

Init == /\ wanted \in SUBSET Tables
        /\ written = [t \in Tables |-> [i \in 1..Rows[t] |-> 0]]

Write(t, i) == /\ written[t][i] = 0
               /\ written' = [written EXCEPT ![t][i] = 1]
               /\ UNCHANGED wanted

Next == \E t \in wanted : \E i \in 1..Rows[t] : Write(t, i)

Safety == Init /\ [][Next]_vars

Spec == Safety /\ WF_vars(Next)
=============================================================================
