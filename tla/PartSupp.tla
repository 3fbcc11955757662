------------------------------ MODULE PartSupp -------------------------------
(***************************************************************************)
(* The rows of PARTSUPP: mk_part() gives every part SUPP_PER_PART          *)
(* suppliers, chosen by PART_SUPP_BRIDGE; mk_order() uses the same macro   *)
(* for the supplier of a lineitem, so that lineitems refer to the rows     *)
(* written here.  At scale factor Scale / 1000 there are 10 * Scale        *)
(* suppliers and twenty times as many parts (tdefs[] and -s).              *)
(***************************************************************************)
EXTENDS DbgenTables

CONSTANT Scales     \* the scale factors considered, in thousandths

ASSUME ScalesAssumption == Scales \subseteq Nat \ {0}

VARIABLES scale, part

partVars == <<scale, part>>

Suppliers == 10 * scale
Parts     == 200 * scale

\* PART_SUPP_BRIDGE(tgt, p, s), with t suppliers.  One mutant counts suppliers
\* from 2, the other gives all parts of a round the same supplier four times.
BridgeFromTwo(p, s, t) ==
  ((p + s * (t \div SUPP_PER_PART + ((p - 1) \div t))) % t) + 2
BridgeNoStride(p, s, t) == ((p + s * ((p - 1) \div t)) % t) + 1
PART_SUPP_BRIDGE(p, s, t) ==
  ((p + s * (t \div SUPP_PER_PART + ((p - 1) \div t))) % t) + 1

PartsInit == scale \in Scales /\ part = 1

\* The loop of gen_tbl().
MoreParts == part < Parts

\* The next row of PART, with its rows of PARTSUPP.
NextPart == /\ MoreParts
            /\ part' = part + 1
            /\ UNCHANGED scale

PartsEnd == part = Parts /\ UNCHANGED partVars

PartsNext == NextPart \/ PartsEnd

PartsSpec == PartsInit /\ [][PartsNext]_partVars

-----------------------------------------------------------------------------
PartsTypeOK == scale \in Scales /\ part \in 1..Parts

SuppKey(s) == PART_SUPP_BRIDGE(part, s, Suppliers)

\* The foreign key: each PARTSUPP row names a supplier that exists.
SuppKeysExist == \A s \in 0..(SUPP_PER_PART - 1) : SuppKey(s) \in 1..Suppliers

\* The primary key of PARTSUPP: no part has a supplier twice.
SuppKeysDistinct ==
  \A r, s \in 0..(SUPP_PER_PART - 1) : SuppKey(r) = SuppKey(s) => r = s
=============================================================================
