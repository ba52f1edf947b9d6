-------------------------- MODULE DevCoinRetarget --------------------------
(***************************************************************************)
(* DevCoinEng::GetNextTargetRequired (currency/devcoin.cpp): the averaging *)
(* retarget, as an operator over the window of blocks it reads.            *)
(*                                                                         *)
(* The inputs enumerated are the legal windows that matter for it: blocks  *)
(* on schedule (one every BlockSpan) with equal targets, except that the   *)
(* block at one position carries a timestamp moved by an offset the        *)
(* median-time and future-time rules allow.  Each state is one such input; *)
(* the checks compare the retarget of the input with that of the           *)
(* unmanipulated window.                                                   *)
(***************************************************************************)
EXTENDS Integers, Sequences, TLC

CONSTANTS
    BlockSpan,   \* ChainParams.BlockSpan, in time units
    Day,         \* one day in the same units
    Height,      \* blockLast.Height
    Target0,     \* the target every block of the window carries
    Offsets      \* the timestamp shifts a miner may give one block

TargetSpan == IF Height < 10700 THEN 14 * Day ELSE Day

NInterval == TargetSpan \div BlockSpan

ASSUME NInterval > 13

(***************************************************************************)
(* A window is the sequence of the NInterval blocks the loop visits,       *)
(* oldest first: blocks[1] is `prev' after the loop, blocks[NInterval] is  *)
(* blockLast.  Its records carry ts and target.                            *)
(***************************************************************************)
BlocksOf(pos, off) ==
    [i \in 1..NInterval |->
        [ts |-> i * BlockSpan + (IF i = pos THEN off ELSE 0), target |-> Target0]]

\* the blocks the loop sums and whose timestamps it collects (vTimes)
LoopBlocks(bs) == SubSeq(bs, 2, NInterval)

\* avg += BigInteger(prev.get_DifficultyTarget()) over the loop, summed by
\* halves to keep the recursion shallow
RECURSIVE SumRange(_, _, _)
SumRange(s, lo, hi) ==
    IF lo > hi THEN 0
    ELSE IF lo = hi THEN s[lo].target
    ELSE SumRange(s, lo, (lo + hi) \div 2) + SumRange(s, (lo + hi) \div 2 + 1, hi)

SumTargets(s) == SumRange(s, 1, Len(s))

\* seeded fault: the timestamps are used without trimming the extremes
TrimmedSpan_mut(vt) == vt[Len(vt)] - vt[1]

\* (vTimes[size-6] - vTimes[6]) * double((nInterval-1)/(size-12)), with the
\* scale an unsigned integer division; vt is sorted, 1-based
TrimmedSpan(vt) ==
    (vt[Len(vt) - 6 + 1] - vt[6 + 1]) * ((NInterval - 1) \div (Len(vt) - 12))

Clamp(span) ==
    IF span < TargetSpan \div 4 THEN TargetSpan \div 4
    ELSE IF span > TargetSpan * 4 THEN TargetSpan * 4 ELSE span

GetNextTargetRequired(bs) ==
    LET last == bs[NInterval]
        loop == LoopBlocks(bs)
        vTimes == SortSeq([i \in 1..Len(loop) |-> loop[i].ts], <)
        avg == IF Height <= 10800 THEN last.target ELSE SumTargets(loop) \div (NInterval - 1)
        span == IF Height <= 10800 THEN last.ts - bs[1].ts ELSE TrimmedSpan(vTimes)
    IN IF Height < 10 \/ (Height < 10700 /\ (Height + 1) % NInterval # 0)
       THEN last.target
       ELSE (avg * Clamp(span)) \div TargetSpan

VARIABLES pos, off

vars == <<pos, off>>

Init ==
    /\ pos \in 1..NInterval
    /\ off \in Offsets

\* the input stays fixed: each state is one window
Next == UNCHANGED vars

Spec == Init /\ [][Next]_vars

Retarget == GetNextTargetRequired(BlocksOf(pos, off))
Baseline == GetNextTargetRequired(BlocksOf(1, 0))

(***************************************************************************)
(* Properties                                                              *)
(***************************************************************************)
(* Trimming resists timestamp manipulation: one block of the window with a *)
(* timestamp moved by any allowed offset changes the new target by at most *)
(* what one block spacing is worth (plus rounding), whichever block it is, *)
(* the last one included.                                                  *)
OutlierBounded ==
    LET d == Retarget - Baseline
    IN (IF d < 0 THEN -d ELSE d) * TargetSpan <= Target0 * BlockSpan + TargetSpan

(* A window whose blocks all arrived exactly on schedule with one target   *)
(* keeps that target, up to the one-block difference between the span the *)
(* window measures and TargetSpan: the new target scales the average       *)
(* target by actual over expected span.                                    *)
OnScheduleKeepsTarget ==
    off = 0 =>
        LET d == Retarget - Target0
        IN (IF d < 0 THEN -d ELSE d) * NInterval <= Target0

====
