---------------------------- MODULE MC_PosChain ----------------------------
(* Model values for PosChain that a .cfg file cannot write directly.       *)
EXTENDS PosChain

\* a new block may be one unit older than its parent (median-time rule)
MCDeltasBackdate == {-1, 1, 3}
====
