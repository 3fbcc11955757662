----------------------------- MODULE MCPartSupp ------------------------------
(* Scale factors 0.023 and 0.024, the first at which the key is sound, and  *)
(* one that leaves a remainder modulo 4.                                    *)
EXTENDS PartSupp

MCScales == {23, 24, 27}
=============================================================================
