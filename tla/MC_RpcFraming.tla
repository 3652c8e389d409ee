--------------------------- MODULE MC_RpcFraming ---------------------------
(* Model-checking instance of RpcFraming: a 2-unit length prefix, 1-unit *)
(* bodies, and lengths 0 and 2 standing for the numbers misread bytes    *)
(* decode to.                                                            *)
EXTENDS RpcFraming

MCGarbageLens == {0, 2}
=============================================================================
