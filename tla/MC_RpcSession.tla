--------------------------- MODULE MC_RpcSession ---------------------------
(* Model-checking instance of RpcSession: two parent threads, two        *)
(* ordinary calls, and the fault switches set per cfg.                   *)
EXTENDS RpcSession

CONSTANTS t1, t2, c1

MCThreads == {t1, t2}
MCOps == {"C_GenerateRandom", "C_GetInfo"}
MCOneOp == {"C_GenerateRandom"}
=============================================================================
