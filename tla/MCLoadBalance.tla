--------------------------- MODULE MCLoadBalance ----------------------------
(* Three workers.                                                           *)
EXTENDS LoadBalance

CONSTANTS w1, w2, w3

MCThreeWorkers == {w1, w2, w3}

=============================================================================
