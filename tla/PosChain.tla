------------------------------ MODULE PosChain ------------------------------
(***************************************************************************)
(* The proof-of-stake chain of src/coin/eng/proof-of-stake.cpp: blocks are *)
(* appended one at a time to the main chain.  Appending a block runs, in   *)
(* the order of PosBlockObj::Check and the connect path:                   *)
(*   - the required target (PosEng::GetNextTargetRequired),                *)
(*   - for a stake block, the kernel check (PosBlockObj::HashProofOfStake  *)
(*     with WriteKernelStakeModifier),                                     *)
(*   - the stake modifier of the new block                                 *)
(*     (PosBlockObj::ComputeStakeModifier).                                *)
(* Hashes are abstracted to small integers produced by fixed scrambling    *)
(* operators; time is in abstract units, and the protocol's durations     *)
(* (6 hours, 30 days, 90 days, ...) are CONSTANTS that keep their order.   *)
(***************************************************************************)
EXTENDS Integers, Sequences, FiniteSets, SequencesExt

CONSTANTS
    MODIFIER_INTERVAL,        \* 6 hours
    MODIFIER_INTERVAL_RATIO,  \* 3
    NSections,                \* 64 selection rounds / sections
    StakeMinAge,              \* 30 days: coins younger than this cannot stake
    StakeMaxAge,              \* 90 days: cap on holding time in the kernel weight
    DayLen,                   \* 24*60*60: divisor turning value*seconds into coin-days
    STAKE_TARGET_SPACING,     \* 10 minutes
    TargetSpacingWorkMax,     \* GetTargetSpacingWorkMax(), not under src/
    RetargetSpan,             \* TimeSpan::FromDays(7)
    InitTarget,               \* ChainParams.InitTarget
    TargetLimit,              \* GetTargetLimit(block) per proof type
    Hashes,                   \* abstract block hashes
    HashRange,                \* abstract hash values are 0..HashRange-1
    PosHashShift,             \* 2^32: the selection hash of a stake block is shifted right 4 bytes
    GenesisHash,
    Deltas,                   \* timestamp steps of a new block over the tip
    MaxBackdate,              \* how far below the latest timestamp a block may be (median-time rule, not under src/)
    OutputValue,              \* value of every coin that can be staked
    CoinValue,                \* ChainParams.CoinValue
    MaxHeight,                \* bound on the chain length
    DtV03Switch,              \* PPCoin: coinstakes stamped before it use the v0.2 kernel (0: never)
    DtV04Switch,              \* PPCoin: blocks stamped before it take their entropy bit from the signature (0: never)
    SigBits                   \* entropy bits a block signature can yield ({0} outside PPCoin)

Work == "Work"
Stake == "Stake"
ProofTypes == {Work, Stake}

NoMod == -1          \* StakeModifier is an empty optional
NoBlock == -1

Errors == {"TimestampViolation", "CoinsAreTooRecent", "CoinstakeCheckTargetFailed", "E_FAIL"}

VARIABLES
    chain,     \* sequence of block records; chain[h+1] is the block at height h
    spent,     \* heights whose coin (coinbase / coinstake output) has been spent by a coinstake
    result     \* outcome of the last block submitted: "Ok" or the exception thrown

vars == <<chain, spent, result>>

(***************************************************************************)
(* Chain access: GetBlockByHeight, BestBlock.                              *)
(***************************************************************************)
Blk(h) == chain[h + 1]
Tip == Len(chain) - 1
Heights == 0..Tip
HasMod(h) == Blk(h).mod # NoMod
MaxTsSoFar == Blk(CHOOSE h \in Heights : \A g \in Heights : Blk(g).ts <= Blk(h).ts).ts

MinOf(a, b) == IF a < b THEN a ELSE b
\* BigInteger division truncates toward zero
TruncDiv(a, b) == IF a >= 0 THEN a \div b ELSE -((-a) \div b)

(***************************************************************************)
(* Abstract hash functions.  Coin::Hash over a serialized buffer is a      *)
(* fixed scrambling of the serialized fields into 0..HashRange-1.          *)
(***************************************************************************)
SelectionHashOf(proof, modifier) == (proof * 5 + modifier * 3 + 1) % HashRange
KernelHashOf(modifier, tsFrom, offset, tsPrev, tsTx) ==
    (modifier * 7 + tsFrom * 3 + offset * 5 + tsPrev + tsTx * 2 + 3) % HashRange
EntropyBit(h) == h % 2

(***************************************************************************)
(* PPCoin overrides (currency/ppcoin.cpp, PPCoinBlockObj).  With both      *)
(* switches at 0 they reduce to the PosBlockObj behaviour.                 *)
(***************************************************************************)
IsV02Protocol(dt) == dt < DtV03Switch
IsV04Protocol(b) == Blk(b).ts >= DtV04Switch

\* the hash-based bit from v0.4 on, before it bit 7 of the last byte of
\* Hash160(Signature), which the signer picks by re-signing
StakeEntropyBit(b) == IF IsV04Protocol(b) THEN EntropyBit(Blk(b).h) ELSE Blk(b).sig

(***************************************************************************)
(* Stake modifier selection intervals (proof-of-stake.cpp:11-22).         *)
(***************************************************************************)
GetStakeModifierSelectionIntervalSection(n) ==
    (MODIFIER_INTERVAL * (NSections - 1))
        \div ((NSections - 1) + (NSections - 1 - n) * (MODIFIER_INTERVAL_RATIO - 1))

RECURSIVE SectionSum(_)
SectionSum(n) == IF n = 0 THEN 0
                 ELSE GetStakeModifierSelectionIntervalSection(n - 1) + SectionSum(n - 1)

STAKE_MODIFIER_SELECTION_INTERVAL == SectionSum(NSections)

(***************************************************************************)
(* ComputeStakeModifier (proof-of-stake.cpp:289-353) for a block whose     *)
(* parent is the tip.  Returns [mod |-> m] or [fail |-> TRUE] for E_FAIL.  *)
(***************************************************************************)
RECURSIVE LastModifierHeight(_)
LastModifierHeight(h) == IF HasMod(h) THEN h
                         ELSE IF h = 0 THEN NoBlock ELSE LastModifierHeight(h - 1)

\* seeded fault: the parent's timestamp is not rounded down to its interval
StartOfPrevInterval_mut == Blk(Tip).ts

StartOfPrevInterval == (Blk(Tip).ts \div MODIFIER_INTERVAL) * MODIFIER_INTERVAL

\* the blocks walked back from the tip while their timestamp is >= dtStart
RECURSIVE CandidateHeights(_, _)
CandidateHeights(h, dtStart) ==
    IF Blk(h).ts < dtStart THEN {}
    ELSE {h} \cup (IF h = 0 THEN {} ELSE CandidateHeights(h - 1, dtStart))

\* multimap<DateTime, Block> order: ascending timestamp, equal timestamps in
\* insertion order, which is descending height
CandidateOrder(a, b) == Blk(a).ts < Blk(b).ts \/ (Blk(a).ts = Blk(b).ts /\ a > b)

SelectionHash(h, modifier) ==
    LET hv == SelectionHashOf(Blk(h).proof, modifier)
    IN IF Blk(h).type = Stake THEN hv \div PosHashShift ELSE hv

\* one round: scan the ordered candidates, keep the smallest hash among the
\* not yet selected ones, stop at the first one past dtStop once one is kept
RECURSIVE ScanRound(_, _, _, _, _, _)
ScanRound(cands, k, selected, dtStop, modifier, best) ==
    IF k > Len(cands) THEN best
    ELSE LET c == cands[k] IN
         IF best # NoBlock /\ Blk(c).ts > dtStop THEN best
         ELSE IF c \in selected THEN ScanRound(cands, k + 1, selected, dtStop, modifier, best)
         ELSE IF best = NoBlock \/ SelectionHash(c, modifier) < SelectionHash(best, modifier)
              THEN ScanRound(cands, k + 1, selected, dtStop, modifier, c)
              ELSE ScanRound(cands, k + 1, selected, dtStop, modifier, best)

\* seeded fault: the rounds are not capped at the number of candidates
SelectionRounds_mut(cands) == NSections

SelectionRounds(cands) == MinOf(NSections, Len(cands))

\* seeded fault: the entropy bit of round i lands one position too high
ModifierBit_mut(b, i) == StakeEntropyBit(b) * 2^(i + 1)

\* r |= StakeEntropyBit() << nRound
ModifierBit(b, i) == StakeEntropyBit(b) * 2^i

\* rounds i..n-1; r is the modifier built so far
RECURSIVE RunRounds(_, _, _, _, _, _)
RunRounds(cands, i, selected, dtStop, modifier, r) ==
    IF i >= SelectionRounds(cands) THEN [mod |-> r, fail |-> FALSE]
    ELSE LET stop == dtStop + GetStakeModifierSelectionIntervalSection(i)
             b == ScanRound(cands, 1, selected, stop, modifier, NoBlock)
         IN IF b = NoBlock THEN [mod |-> r, fail |-> TRUE]
            ELSE RunRounds(cands, i + 1, selected \cup {b}, stop, modifier,
                           r + ModifierBit(b, i))

ComputeStakeModifier ==
    LET lm == LastModifierHeight(Tip) IN
    IF lm = NoBlock THEN [mod |-> NoMod, fail |-> TRUE]
    ELSE IF Blk(lm).ts >= StartOfPrevInterval THEN [mod |-> NoMod, fail |-> FALSE]
    ELSE LET dtStart == StartOfPrevInterval - STAKE_MODIFIER_SELECTION_INTERVAL
             cands == SetToSortSeq(CandidateHeights(Tip, dtStart), CandidateOrder)
         IN RunRounds(cands, 0, {}, dtStart, Blk(lm).mod, 0)

(***************************************************************************)
(* PosEng::GetNextTargetRequired (proof-of-stake.cpp:175-195): retarget    *)
(* from the last two blocks of the new block's proof type.  Target(r)      *)
(* compaction is exact at the model's target sizes.                        *)
(***************************************************************************)
RECURSIVE LastOfType(_, _)
LastOfType(h, t) == IF Blk(h).type = t THEN h
                    ELSE IF h = 0 THEN NoBlock ELSE LastOfType(h - 1, t)

GetNextTargetRequired(t) ==
    LET prev == LastOfType(Tip, t)
        prevPrev == IF prev = NoBlock \/ prev = 0 THEN NoBlock ELSE LastOfType(prev - 1, t)
        spacing == IF t = Stake THEN STAKE_TARGET_SPACING
                   ELSE MinOf(TargetSpacingWorkMax, STAKE_TARGET_SPACING * (Tip - prev + 1))
        interval == RetargetSpan \div spacing
        r == TruncDiv(Blk(prev).target * (spacing * (interval - 1) + (Blk(prev).ts - Blk(prevPrev).ts) * 2),
                      spacing * (interval + 1))
    IN IF prev = NoBlock \/ prevPrev = NoBlock \/ prevPrev = 0 THEN InitTarget
       ELSE MinOf(TargetLimit, r)

(***************************************************************************)
(* PosBlockObj::WriteKernelStakeModifier (proof-of-stake.cpp:103-116):     *)
(* walk forward by height from the coin's block until a block carrying a   *)
(* modifier lies a selection interval past it; NoBlock when the best block *)
(* is reached first (E_COIN_CoinstakeCheckTargetFailed).                   *)
(***************************************************************************)
\* seeded fault: the kernel takes the modifier nearest the best block, as
\* ComputeStakeModifier does, instead of walking forward from the coin
KernelModifierHeight_mut(b, dt, dtTarget) == LastModifierHeight(Tip)

RECURSIVE KernelModifierHeight(_, _, _)
KernelModifierHeight(b, dt, dtTarget) ==
    IF dt >= dtTarget THEN b
    ELSE IF b = Tip THEN NoBlock
    ELSE LET nb == b + 1
         IN KernelModifierHeight(nb, IF HasMod(nb) THEN Blk(nb).ts ELSE dt, dtTarget)

\* seeded fault (PPCoin): the v0.2 kernel hashes the target the chain
\* requires now instead of the block's own target bits
KernelStakeModifier_mut(from, tsTx, target) ==
    IF IsV02Protocol(tsTx) THEN GetNextTargetRequired(Stake)
    ELSE LET mh == KernelModifierHeight(from, Blk(from).ts, Blk(from).ts + STAKE_MODIFIER_SELECTION_INTERVAL)
         IN IF mh = NoBlock THEN NoMod ELSE Blk(mh).mod

\* the value WriteKernelStakeModifier writes, NoMod when it throws; PPCoin's
\* override writes the block's own DifficultyTargetBits for a v0.2 coinstake
KernelStakeModifier(from, tsTx, target) ==
    IF IsV02Protocol(tsTx) THEN target
    ELSE LET mh == KernelModifierHeight(from, Blk(from).ts, Blk(from).ts + STAKE_MODIFIER_SELECTION_INTERVAL)
         IN IF mh = NoBlock THEN NoMod ELSE Blk(mh).mod

(***************************************************************************)
(* PosBlockObj::HashProofOfStake (proof-of-stake.cpp:118-173) for a        *)
(* coinstake spending the coin of block `from` at time tsTx, against the   *)
(* block's target.  The coin's transaction timestamp is its block's.       *)
(***************************************************************************)
HashProofOfStake(from, tsTx, target) ==
    LET dtPrev == Blk(from).ts
        cdays == (OutputValue * MinOf(tsTx - dtPrev, StakeMaxAge)) \div (DayLen * CoinValue)
        km == KernelStakeModifier(from, tsTx, target)
        hash == KernelHashOf(km, Blk(from).ts, from, dtPrev, tsTx)
    IN IF tsTx < dtPrev THEN [err |-> "TimestampViolation", hash |-> 0]
       ELSE IF Blk(from).ts + StakeMinAge > tsTx THEN [err |-> "CoinsAreTooRecent", hash |-> 0]
       ELSE IF km = NoMod THEN [err |-> "CoinstakeCheckTargetFailed", hash |-> 0]
       ELSE IF hash > target * cdays THEN [err |-> "CoinstakeCheckTargetFailed", hash |-> 0]
       ELSE [err |-> "Ok", hash |-> hash]

(***************************************************************************)
(* Actions                                                                 *)
(***************************************************************************)
NewBlock(t, h, ts, proof, target, mod, coin, sig) ==
    [type |-> t, h |-> h, ts |-> ts, proof |-> proof, target |-> target, mod |-> mod, coin |-> coin, sig |-> sig]

Init ==
    /\ chain = << NewBlock(Work, GenesisHash, 0, GenesisHash, InitTarget, 0, NoBlock, 0) >>
    /\ spent = {}
    /\ result = "Ok"

\* timestamps a new block may carry
NextTimestamps == { Blk(Tip).ts + d : d \in Deltas } \cap { t \in Nat : t >= MaxTsSoFar - MaxBackdate }

\* Connect a proof-of-work block: retarget, then the stake modifier.
AddWorkBlock(h, ts, sig) ==
    LET cm == ComputeStakeModifier IN
    /\ Len(chain) <= MaxHeight
    /\ IF cm.fail
       THEN /\ result' = "E_FAIL"
            /\ UNCHANGED <<chain, spent>>
       ELSE /\ chain' = Append(chain, NewBlock(Work, h, ts, h, GetNextTargetRequired(Work), cm.mod, NoBlock, sig))
            /\ result' = "Ok"
            /\ UNCHANGED spent

\* Check and connect a proof-of-stake block whose coinstake spends the coin
\* of block `from`; its timestamp is the coinstake's.
AddStakeBlock(h, ts, from, sig) ==
    LET target == GetNextTargetRequired(Stake)
        pos == HashProofOfStake(from, ts, target)
        cm == ComputeStakeModifier
    IN
    /\ Len(chain) <= MaxHeight
    /\ IF pos.err # "Ok"
       THEN /\ result' = pos.err
            /\ UNCHANGED <<chain, spent>>
       ELSE IF cm.fail
       THEN /\ result' = "E_FAIL"
            /\ UNCHANGED <<chain, spent>>
       ELSE /\ chain' = Append(chain, NewBlock(Stake, h, ts, pos.hash, target, cm.mod, from, sig))
            /\ spent' = spent \cup {from}
            /\ result' = "Ok"

Next ==
    \E h \in Hashes, ts \in NextTimestamps, sig \in SigBits :
        \/ AddWorkBlock(h, ts, sig)
        \/ \E from \in Heights \ spent : AddStakeBlock(h, ts, from, sig)

Spec == Init /\ [][Next]_vars

(***************************************************************************)
(* Properties                                                              *)
(***************************************************************************)
TypeOK ==
    /\ chain \in Seq([type : ProofTypes, h : Hashes, ts : Nat, proof : 0..HashRange,
                      target : Int, mod : {NoMod} \cup 0..(2^NSections - 1), coin : {NoBlock} \cup Nat,
                      sig : SigBits])
    /\ spent \subseteq Heights
    /\ result \in {"Ok"} \cup Errors

(* ComputeStakeModifier never throws E_FAIL on a chain the code itself     *)
(* built: the backward search always finds a modifier (genesis carries     *)
(* one) and every one of the min(64, candidates) selection rounds finds an *)
(* unselected candidate.  E_FAIL is the "corrupt chain" error, so a legal  *)
(* sequence of blocks reaching it would halt the node.                     *)
NoModifierFailure == result # "E_FAIL"

(* The stake modifier is recomputed once per modifier interval: no two     *)
(* blocks past genesis that generated a modifier made the decision         *)
(* (ComputeStakeModifier, dtModifier < dtStartOfPrevInterval) on parents   *)
(* whose timestamps lie in the same 6-hour interval.                       *)
ModifierOncePerInterval ==
    \A j, k \in 1..Tip :
        (j < k /\ HasMod(j) /\ HasMod(k))
            => Blk(j - 1).ts \div MODIFIER_INTERVAL # Blk(k - 1).ts \div MODIFIER_INTERVAL

(* A stake block accepted on the main chain stays valid: re-running        *)
(* HashProofOfStake for it against the chain as it is now, with a later    *)
(* best block, selects the same kernel modifier and yields the same        *)
(* accepted proof hash.  Blocks read back from the database trust their    *)
(* stored proof hash (PosBlockObj::Read), which is sound only if this      *)
(* holds.                                                                  *)
KernelCheckStable ==
    \A k \in 1..Tip :
        Blk(k).type = Stake =>
            HashProofOfStake(Blk(k).coin, Blk(k).ts, Blk(k).target) = [err |-> "Ok", hash |-> Blk(k).proof]

====
