--------------------------- MODULE MCDbgenRefresh ---------------------------
(* Instances of DbgenRefresh for TLC, with the constants in the .cfg files. *)
(* The proportions are those of the program: one set is Orders / Period     *)
(* rows, so that Period sets go once through the base table.                *)
EXTENDS DbgenRefresh
=============================================================================
