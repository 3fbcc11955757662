------------------------------ MODULE MCEmrRun ------------------------------
(***************************************************************************)
(* Three tables, with the marker in the middle of the order in which they  *)
(* are registered, and two queries, of which one reads two tables.         *)
(***************************************************************************)
EXTENDS EmrRun

MCTABLES == <<"customer", "lineitem", "orders">>
MCReads == <<{"lineitem"}, {"customer", "orders"}>>
(* All tables, or a synchronisation that left one out.                     *)
MCUploads == {Tables, Tables \ {"orders"}}
=============================================================================
