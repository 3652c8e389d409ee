------------------------- MODULE MC_AttentionQueue -------------------------
(* Model values for AttentionQueue: three requests, one of them made with *)
(* the sync call, over two windows.                                       *)
EXTENDS AttentionQueue

CONSTANTS r1, r2, r3, w1, w2

MCReqs == {r1, r2, r3}
MCWindows == {w1, w2}
MCSync == {r1}
=============================================================================
