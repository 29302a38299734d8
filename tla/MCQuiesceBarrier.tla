-------------------------- MODULE MCQuiesceBarrier --------------------------
(* Small instances of QuiesceBarrier for TLC. *)
EXTENDS QuiesceBarrier

CONSTANTS t1, t2, g1, g2
=============================================================================
