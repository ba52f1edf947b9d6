------------------------- MODULE MC_DevCoinRetarget -------------------------
(* Inputs for DevCoinRetarget that a .cfg file cannot write directly.      *)
EXTENDS DevCoinRetarget

\* With BlockSpan 10 (minutes): a block may be stamped down to just above
\* the median of the previous eleven (-49) and up to two hours ahead (+120).
MCOffsets == {-49, -20, -10, 0, 10, 60, 120}
====
