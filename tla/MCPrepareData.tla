---------------------------- MODULE MCPrepareData ----------------------------
(* Two batches of two chunks, two interrupted runs: see MCPrepareData.cfg.   *)
EXTENDS PrepareData
=============================================================================
