---------------------------- MODULE DbgenTables ----------------------------
(***************************************************************************)
(* The tables of dbgen, its random-number streams, and the four places     *)
(* that must agree on how many draws of a stream one row stands for:       *)
(*                                                                         *)
(*   Boundary   the Seed[] array (rnd.h): the draws a row is rounded up to *)
(*   Draws      what mk_part, mk_supp, ... really draw for a row           *)
(*   RowStop    row_stop(), which pads a row up to its boundary            *)
(*   GenSeed    the sd_*() functions, which skip whole rows                *)
(*                                                                         *)
(* A stream's value is its position: the number of times NextRand() has    *)
(* been applied to the stream's initial seed.  Every generator advances by *)
(* NextRand() below scale factor 30000, so equal positions are equal       *)
(* values, and what a row contains is a function of the positions its      *)
(* streams have when the row starts.                                       *)
(*                                                                         *)
(* Streams with the same table, boundary, draws and skips are represented  *)
(* by one of them: P_MFG for streams 0-4, PS_QTY for 7-8, O_CLRK for 11,   *)
(* 38 and 40, L_QTY for 14-23, C_NTRG for 27, 29 and 30, S_NTRG for 33, 35 *)
(* and 44-47.  O_SUPP (10) and HVAR (39) are never drawn and left out.     *)
(***************************************************************************)
EXTENDS Integers

Tables == {"PART", "PSUPP", "SUPP", "CUST", "ORDER", "LINE",
           "ORDER_LINE", "PART_PSUPP", "NATION", "REGION"}

\* The tables with one fixed size, which main() never splits (i >= NATION).
CodeTables == {"NATION", "REGION"}

Streams == {"P_MFG", "P_CMNT", "P_NAME", "PS_QTY", "PS_CMNT",
            "O_CLRK", "O_CMNT", "O_ODATE", "O_LCNT",
            "L_QTY", "L_RFLG", "L_CMNT",
            "C_ADDR", "C_NTRG", "C_PHNE", "C_CMNT",
            "S_ADDR", "S_NTRG", "S_PHNE", "S_CMNT",
            "N_CMNT", "R_CMNT", "TEXT"}

SUPP_PER_PART == 4
O_LCNT_MAX    == 7
ColorsCount   == 92     \* DIST_SIZE(colors)
AddrLen       == 25     \* C_ADDR_LEN = S_ADDR_LEN

Child(t) == CASE t \in {"PART", "PART_PSUPP"}  -> "PSUPP"
              [] t \in {"ORDER", "ORDER_LINE"} -> "LINE"
              [] OTHER                         -> "NONE"

\* Seed[s].table; "TEXT" is stream 5, which belongs to no table.
SeedTable(s) ==
  CASE s \in {"P_MFG", "P_CMNT", "P_NAME"}              -> "PART"
    [] s \in {"PS_QTY", "PS_CMNT"}                      -> "PSUPP"
    [] s \in {"O_CLRK", "O_CMNT", "O_ODATE", "O_LCNT"}  -> "ORDER"
    [] s \in {"L_QTY", "L_RFLG", "L_CMNT"}              -> "LINE"
    [] s \in {"C_ADDR", "C_NTRG", "C_PHNE", "C_CMNT"}   -> "CUST"
    [] s \in {"S_ADDR", "S_NTRG", "S_PHNE", "S_CMNT"}   -> "SUPP"
    [] s = "N_CMNT"                                     -> "NATION"
    [] s = "R_CMNT"                                     -> "REGION"
    [] OTHER                                            -> "NONE"

\* Seed[s].boundary
Boundary(s) ==
  CASE s \in {"P_CMNT", "O_CMNT", "C_CMNT", "S_CMNT", "N_CMNT", "R_CMNT"} -> 2
    [] s \in {"C_PHNE", "S_PHNE"} -> 3
    [] s \in {"C_ADDR", "S_ADDR"} -> 9
    [] s = "P_NAME"               -> 92
    [] s = "PS_QTY"               -> SUPP_PER_PART
    [] s = "PS_CMNT"              -> 2 * SUPP_PER_PART
    [] s \in {"L_QTY", "L_RFLG"}  -> O_LCNT_MAX
    [] s = "L_CMNT"               -> 2 * O_LCNT_MAX
    [] OTHER                      -> 1

-----------------------------------------------------------------------------
(* The draws of one row.  Every mk_* function also calls TEXT, see GenRow. *)

\* a_rnd(): one draw for the length and one for every five characters.
ARndDraws(len) == 1 + (len + 4) \div 5

\* V_STR(avg): a_rnd() with a length between avg * V_STR_LOW and avg * V_STR_HGH.
VStrDraws(avg) == {ARndDraws(len) : len \in ((avg * 4) \div 10)..((avg * 16) \div 10)}

MkPart == {[s \in Streams |->
              CASE s = "P_MFG"   -> 1
                [] s = "P_NAME"  -> ColorsCount
                [] s = "P_CMNT"  -> 2
                [] s = "PS_QTY"  -> SUPP_PER_PART
                [] s = "PS_CMNT" -> 2 * SUPP_PER_PART
                [] OTHER         -> 0]}

MkSupp == {[s \in Streams |->
              CASE s = "S_ADDR" -> a
                [] s = "S_NTRG" -> 1
                [] s = "S_PHNE" -> 3
                [] s = "S_CMNT" -> 2
                [] OTHER        -> 0] : a \in VStrDraws(AddrLen)}

MkCust == {[s \in Streams |->
              CASE s = "C_ADDR" -> a
                [] s = "C_NTRG" -> 1
                [] s = "C_PHNE" -> 3
                [] s = "C_CMNT" -> 2
                [] OTHER        -> 0] : a \in VStrDraws(AddrLen)}

\* An order with `lines' lineitems, `ret' of which were received by
\* CURRENTDATE and so draw a return flag.
OrderDraws(lines, ret) ==
  [s \in Streams |->
     CASE s \in {"O_CLRK", "O_ODATE", "O_LCNT"} -> 1
       [] s = "O_CMNT" -> 2
       [] s = "L_QTY"  -> lines
       [] s = "L_CMNT" -> 2 * lines
       [] s = "L_RFLG" -> ret
       [] OTHER        -> 0]

MkOrder == UNION {{OrderDraws(lines, ret) : ret \in 0..lines} : lines \in 1..O_LCNT_MAX}

MkCode(stream) == {[s \in Streams |-> IF s = stream THEN 2 ELSE 0]}

\* The switch of gen_tbl().
Draws(t) == CASE t \in {"PART", "PSUPP", "PART_PSUPP"} -> MkPart
              [] t = "SUPP"   -> MkSupp
              [] t = "CUST"   -> MkCust
              [] t \in {"ORDER", "LINE", "ORDER_LINE"} -> MkOrder
              [] t = "NATION" -> MkCode("N_CMNT")
              [] OTHER        -> MkCode("R_CMNT")

\* The streams that the columns written by the loader of t depend on:
\* pr_order() prints a status and a total computed from the lineitems, and
\* pr_line() dates computed from the order's date.
Reads(t) ==
  CASE t = "PART"       -> {"P_MFG", "P_CMNT", "P_NAME"}
    [] t = "PSUPP"      -> {"PS_QTY", "PS_CMNT"}
    [] t = "PART_PSUPP" -> {"P_MFG", "P_CMNT", "P_NAME", "PS_QTY", "PS_CMNT"}
    [] t = "SUPP"       -> {"S_ADDR", "S_NTRG", "S_PHNE", "S_CMNT"}
    [] t = "CUST"       -> {"C_ADDR", "C_NTRG", "C_PHNE", "C_CMNT"}
    [] t = "ORDER"      -> {"O_CLRK", "O_CMNT", "O_ODATE", "O_LCNT", "L_QTY"}
    [] t = "LINE"       -> {"O_ODATE", "O_LCNT", "L_QTY", "L_RFLG", "L_CMNT"}
    [] t = "ORDER_LINE" -> {"O_CLRK", "O_CMNT", "O_ODATE", "O_LCNT",
                            "L_QTY", "L_RFLG", "L_CMNT"}
    [] t = "NATION"     -> {"N_CMNT"}
    [] OTHER            -> {"R_CMNT"}

-----------------------------------------------------------------------------
(* Padding and skipping.                                                   *)

\* NthElement() does nothing for N <= 0.
NthElement(n, value) == IF n > 0 THEN value + n ELSE value

RowStopTable(t) == CASE t = "ORDER_LINE" -> "ORDER"
                     [] t = "PART_PSUPP" -> "PART"
                     [] OTHER            -> t

\* row_stop() compares Seed[i].table with tdefs[t].child too: stream 5, whose
\* table is NONE, is padded on the rows of every table without a child.
Padded(t, s) == \/ SeedTable(s) = RowStopTable(t)
                \/ SeedTable(s) = Child(RowStopTable(t))

RowStop(t, seed, usage) ==
  [s \in Streams |-> IF Padded(t, s) THEN NthElement(Boundary(s) - usage[s], seed[s])
                                     ELSE seed[s]]

\* The seeds after a row that takes usage[s] from every stream s.
AfterRow(t, seed, usage) ==
  RowStop(t, [s \in Streams |-> seed[s] + usage[s]], usage)

\* The draws that tdefs[t].gen_seed(child, 1) skips.
\* SdPartFar is a mutant whose loop over streams 0-4 runs into stream 5.
SdPartFar == [s \in Streams |-> CASE s \in {"P_MFG", "TEXT"} -> 1
                                  [] s = "P_CMNT" -> 2
                                  [] s = "P_NAME" -> 92
                                  [] OTHER        -> 0]
SdPart  == [s \in Streams |-> CASE s = "P_MFG"  -> 1
                                [] s = "P_CMNT" -> 2
                                [] s = "P_NAME" -> 92
                                [] OTHER        -> 0]
SdPsupp == [s \in Streams |-> CASE s = "PS_QTY"  -> SUPP_PER_PART
                                [] s = "PS_CMNT" -> SUPP_PER_PART * 2
                                [] OTHER         -> 0]
SdSupp  == [s \in Streams |-> CASE s = "S_ADDR" -> 9
                                [] s = "S_NTRG" -> 1
                                [] s = "S_PHNE" -> 3
                                [] s = "S_CMNT" -> 2
                                [] OTHER        -> 0]
SdCust  == [s \in Streams |-> CASE s = "C_ADDR" -> 9
                                [] s = "C_NTRG" -> 1
                                [] s = "C_PHNE" -> 3
                                [] s = "C_CMNT" -> 2
                                [] OTHER        -> 0]
SdOrder == [s \in Streams |-> CASE s \in {"O_CLRK", "O_ODATE", "O_LCNT"} -> 1
                                [] s = "O_CMNT" -> 2
                                [] OTHER        -> 0]

\* Mutant: the lineitems' own streams only.
SdLineAlone(child) ==
  [s \in Streams |-> CASE s \in {"L_QTY", "L_RFLG"}   -> O_LCNT_MAX
                       [] s = "L_CMNT"                -> O_LCNT_MAX * 2
                       [] OTHER                       -> 0]

\* child = 1: lineitems are generated on their own and need the order's streams.
SdLine(child) ==
  [s \in Streams |-> CASE s \in {"L_QTY", "L_RFLG"}   -> O_LCNT_MAX
                       [] s = "L_CMNT"                -> O_LCNT_MAX * 2
                       [] s \in {"O_ODATE", "O_LCNT"} -> child
                       [] OTHER                       -> 0]

GenSeed(t, child) ==
  CASE t \in {"PART", "PART_PSUPP"}  -> SdPart
    [] t = "PSUPP"                   -> SdPsupp
    [] t = "SUPP"                    -> SdSupp
    [] t = "CUST"                    -> SdCust
    [] t \in {"ORDER", "ORDER_LINE"} -> SdOrder
    [] t = "LINE"                    -> SdLine(child)
    [] OTHER                         -> [s \in Streams |-> 0]

\* What set_state() skips per row of an earlier chunk: the table's own streams
\* and those of its child.
ChunkSkip(t) ==
  [s \in Streams |-> GenSeed(t, IF t = "LINE" THEN 1 ELSE 0)[s]
                     + (IF Child(t) # "NONE" THEN GenSeed(Child(t), 0)[s] ELSE 0)]

\* set_state() for step `step' of `procs', from a table of n rows: the seeds it
\* leaves, beginning from seed.  Only updates use a step beyond procs.
SetState(t, n, procs, step, seed) ==
  LET rowcount == n \div procs
      extra    == n % procs
  IN  [s \in Streams |->
         seed[s] + (step - 1) * rowcount * ChunkSkip(t)[s]
                 + (IF step > procs THEN extra * GenSeed(t, 0)[s] ELSE 0)]
=============================================================================
