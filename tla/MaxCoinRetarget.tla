-------------------------- MODULE MaxCoinRetarget --------------------------
(***************************************************************************)
(* MaxCoinEng::GetNextTargetRequired (currency/maxcoin.cpp): below height  *)
(* 199 the engine's default retarget, from there on the Kimoto gravity     *)
(* well over a window of blocks bounded by a minimum and a maximum count,  *)
(* derived from a minimum and a maximum past time span.                    *)
(*                                                                         *)
(* CoinEng::GetNextTargetRequired and CoinEng::KimotoGravityWell are not   *)
(* in the repository; what is modelled is the dispatch and the window      *)
(* bounds it hands to the gravity well.  Each state is one (BlockSpan,     *)
(* height) the engine may be asked about.                                  *)
(***************************************************************************)
EXTENDS Integers

CONSTANTS
    BlockSpans,   \* ChainParams.BlockSpan, in seconds
    Heights       \* blockLast.Height

VARIABLES blockSpan, height

vars == <<blockSpan, height>>

\* seconds(hours(24)) / 100 and seconds(hours(1)) / 100 * 14, integer
\* std::chrono::seconds arithmetic
MinPast == (24 * 3600) \div 100
MaxPast == ((1 * 3600) \div 100) * 14

\* the arguments of KimotoGravityWell: int(minPast / BlockSpan) and
\* int(maxPast / BlockSpan); below height 199 the default retarget is used
GetNextTargetRequired(span, h) ==
    IF h < 199 THEN [algo |-> "Default"]
    ELSE [algo |-> "KimotoGravityWell", minBlocks |-> MinPast \div span,
          maxBlocks |-> MaxPast \div span]

Init ==
    /\ blockSpan \in BlockSpans
    /\ height \in Heights

\* the parameters do not change: each state is one retarget call
Next == UNCHANGED vars

Spec == Init /\ [][Next]_vars

(***************************************************************************)
(* The gravity well's window is bounded by its minimum and maximum block   *)
(* counts: whenever MaxCoin hands the retarget to KimotoGravityWell, the   *)
(* minimum is at most the maximum and the maximum admits at least one      *)
(* block.                                                                  *)
(***************************************************************************)
WindowBounded ==
    LET r == GetNextTargetRequired(blockSpan, height)
    IN r.algo = "KimotoGravityWell" => 0 < r.maxBlocks /\ r.minBlocks <= r.maxBlocks

====
