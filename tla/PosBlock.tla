------------------------------ MODULE PosBlock ------------------------------
(***************************************************************************)
(* The checks a proof-of-stake block object makes on itself               *)
(* (src/coin/eng/proof-of-stake.cpp, currency/ppcoin.cpp) and the coin age *)
(* of its coinstake:                                                       *)
(*   PosBlockObj::Check          structural and timestamp checks, then the *)
(*                               coinstake timestamp and proof of stake;   *)
(*   PPCoinBlockObj::CheckCoinStakeTimestamp   the v0.2 window;            *)
(*   PosBlockObj::HashProofOfStake             the kernel's timestamp and  *)
(*                               maturity checks and its coin-day weight;  *)
(*   PosTxObj::GetCoinAge        the coin age the reward is paid on;       *)
(*   GetProofOfStakeReward, PosTxObj::CheckCoinStakeReward   the reward;   *)
(*   PosBlockObj::CheckSignature, CheckPointMessage   signatures;          *)
(*   PosBlockObj::Write / Read   the stored PoS tail (module BlockFlags).  *)
(* The kernel hash against the target and the modifier it hashes are       *)
(* modelled in PosChain; here the question is whether the two halves of    *)
(* the protocol, the kernel (which decides that a coin may stake) and the  *)
(* coin age (which decides what it earns), agree on the same coin.         *)
(*                                                                         *)
(* Each state is one stored block and, for a stake block, one candidate    *)
(* coinstake: its timestamps and the outputs it spends, each with its      *)
(* value, its transaction's timestamp and that of the block at its height. *)
(***************************************************************************)
EXTENDS Integers, Sequences, FiniteSets

CONSTANTS
    Hashes, Modifiers, NoMod, NoHash,   \* as in BlockFlags
    Times,         \* timestamps, in one time unit
    Day,           \* 24*60*60 in that unit
    MinAge,        \* TimeSpan::FromDays(30)
    MaxAge,        \* TimeSpan::FromDays(90)
    MaxFuture,     \* MAX_FUTURE_SECONDS
    Values,        \* output values
    CoinValue,     \* ChainParams.CoinValue
    MaxInputs,     \* inputs of one coinstake
    DtV03Switch,   \* PPCoin's DtV03Switch
    Keys,          \* public keys; a signature is known by the key that made it
    MasterKey,     \* ChainParams.CheckpointMasterPubKey
    CpHashes,      \* block hashes a checkpoint may name
    Announced,     \* the block hashes the checkpoint master has signed
    AnnualPercentageRate,  \* ChainParams.AnnualPercentageRate
    MinTxFee,      \* ChainParams.MinTxFee
    MinFees,       \* values of tx.GetMinFee(1, eng.AllowFreeTxes) (engine, not in src)
    Rewards        \* rewards a coinstake may claim (its outputs less its inputs)

VARIABLES
    blk,   \* the block as stored (type, modifier, cached proof hash)
    cs,    \* its coinstake, or None when no coinstake is checked
    sg,    \* its signature and the outputs CheckSignature may use, or None
    wire   \* a checkpoint message as received, or NoWire

vars == <<blk, cs, sg, wire>>

None == [none |-> TRUE]
NoWire == <<>>

BF == INSTANCE BlockFlags

\* an output spent by the coinstake: its value, the timestamp of the
\* transaction that created it (dtPrev) and that of the block at its height
Inputs == {i \in [value : Values, dtPrev : Times, blkTs : Times] : i.dtPrev <= i.blkTs}

\* Timestamp (the block's), GetTxObj(0).Timestamp (coinbase), GetTxObj(1)
\* .Timestamp (coinstake, dtTx), whether a later transaction is a coinstake
Coinstakes ==
    [ts : Times, cbTs : Times, dtTx : Times, stray : BOOLEAN,
     ins : UNION {[1..n -> Inputs] : n \in 1..MaxInputs}]

(***************************************************************************)
(* PosTxObj::GetCoinAge, for the coinstake (never a coinbase).             *)
(***************************************************************************)
\* seeded fault: the 30 days counted from the spent transaction's own
\* timestamp instead of that of the block at its height
Counted_txtime(in, dtTx) == in.dtPrev + MinAge <= dtTx

\* seeded fault: the 30-day test made strict
Counted_mut(in, dtTx) == in.blkTs + MinAge < dtTx

\* eng.GetBlockByHeight(txPrev.Height).get_Timestamp()+30 days <= Timestamp
Counted(in, dtTx) == in.blkTs + MinAge <= dtTx

\* value * int((Timestamp-dtPrev).TotalSeconds) / (CoinValue/100)
CentSeconds(in, dtTx) == (in.value * (dtTx - in.dtPrev)) \div (CoinValue \div 100)

RECURSIVE SumCentSeconds(_, _, _)
SumCentSeconds(ins, dtTx, k) ==
    IF k > Len(ins) THEN 0
    ELSE (IF Counted(ins[k], dtTx) THEN CentSeconds(ins[k], dtTx) ELSE 0)
         + SumCentSeconds(ins, dtTx, k + 1)

\* Throw(E_COIN_TimestampViolation) if an input is younger than the
\* coinstake; otherwise centSecond / (100 * 24*60*60)
GetCoinAge(c) ==
    IF \E k \in DOMAIN c.ins : c.dtTx < c.ins[k].dtPrev
    THEN [err |-> "TimestampViolation", age |-> 0]
    ELSE [err |-> "ok", age |-> SumCentSeconds(c.ins, c.dtTx, 1) \div (100 * Day)]

(***************************************************************************)
(* The stake reward: PosEng::GetProofOfStakeReward, which ignores the      *)
(* target and the time it is given, and PosTxObj::CheckCoinStakeReward.    *)
(***************************************************************************)
GetProofOfStakeReward(coinAge) ==
    (CoinValue * AnnualPercentageRate * coinAge * 33) \div (100 * (365 * 33 + 8))

\* GetCoinAge throws before the comparison when it throws
CheckCoinStakeReward(c, reward, minFee) ==
    LET ca == GetCoinAge(c) IN
    IF ca.err # "ok" THEN ca.err
    ELSE IF reward > GetProofOfStakeReward(ca.age) - minFee + MinTxFee
         THEN "StakeRewardExceeded"
    ELSE "ok"

(***************************************************************************)
(* PosBlockObj::HashProofOfStake on TxIns()[0], up to the target test.     *)
(***************************************************************************)
\* seeded fault: the 90-day cap taken with max instead of min
KernelCoinDays_mut(in, dtTx) ==
    (in.value * (IF dtTx - in.dtPrev > MaxAge THEN dtTx - in.dtPrev ELSE MaxAge))
        \div (Day * CoinValue)

\* BigInteger(val) * min(dtTx-dtPrev, 90 days) / (24*60*60 * CoinValue)
KernelCoinDays(in, dtTx) ==
    (in.value * (IF dtTx - in.dtPrev < MaxAge THEN dtTx - in.dtPrev ELSE MaxAge))
        \div (Day * CoinValue)

\* dtTx < dtPrev: TimestampViolation; blockPrev timestamp + 30 days > dtTx:
\* CoinsAreTooRecent
KernelCheck(c) ==
    LET in == c.ins[1]
    IN IF c.dtTx < in.dtPrev THEN "TimestampViolation"
       ELSE IF in.blkTs + MinAge > c.dtTx THEN "CoinsAreTooRecent"
       ELSE "ok"

(***************************************************************************)
(* PosBlockObj::Check with PPCoin's coinstake timestamp rule.              *)
(***************************************************************************)
IsV02Protocol(dt) == dt < DtV03Switch

\* v0.2: dtTx <= Timestamp <= dtTx + MAX_FUTURE_SECONDS
CheckCoinStakeTimestamp(c) ==
    IF c.dtTx > c.ts \/ c.ts > c.dtTx + MaxFuture THEN "TimestampViolation" ELSE "ok"

\* a stray coinstake, a block too far ahead of its coinbase, then for a
\* stake block the coinstake timestamp and the proof of stake, in that order
Check(b, c) ==
    IF c.stray THEN "CoinstakeInWrongPos"
    ELSE IF c.ts > c.cbTs + MaxFuture THEN "CoinbaseTimestampIsTooEarly"
    ELSE IF b.type = "Stake" /\ CheckCoinStakeTimestamp(c) # "ok"
         THEN CheckCoinStakeTimestamp(c)
    ELSE IF b.type = "Stake" THEN KernelCheck(c)
    ELSE "ok"

(***************************************************************************)
(* PosBlockObj::CheckSignature and VerifySignatureByTxOut.                 *)
(***************************************************************************)
NoSig == "NoSig"

\* an output's destination: pay-to-pubkey (TryParseDestination yields the
\* 33- or 65-byte key) or pay-to-pubkey-hash (no key)
Outputs == [kind : {"PubKey", "PubKeyHash"}, key : Keys]

\* the signature (empty, or made with a key), the coinbase's first output,
\* the coinstake's second output, and whether Hash() is the genesis hash
SigCases == [sig : {NoSig} \cup Keys, cbOut : Outputs, csOut : Outputs, genesis : BOOLEAN]

\* (33 == cbPk || 65 == cbPk) && ECDsa(pk).VerifyHash(Hash(), Signature)
VerifySignatureByTxOut(sig, out) == out.kind = "PubKey" /\ sig = out.key

\* seeded fault: every block is checked against the coinbase's output
CheckSignature_mut(b, g) ==
    IF g.sig = NoSig THEN IF g.genesis THEN "ok" ELSE "BadBlockSignature"
    ELSE IF VerifySignatureByTxOut(g.sig, g.cbOut) THEN "ok" ELSE "BadBlockSignature"

\* an empty signature passes only for the genesis block; otherwise it must
\* verify with the key of txes[1].TxOuts()[1] (stake) or txes[0].TxOuts()[0]
CheckSignature(b, g) ==
    IF g.sig = NoSig THEN IF g.genesis THEN "ok" ELSE "BadBlockSignature"
    ELSE IF VerifySignatureByTxOut(g.sig, IF b.type = "Stake" THEN g.csOut ELSE g.cbOut)
         THEN "ok" ELSE "BadBlockSignature"

(***************************************************************************)
(* CheckPointMessage: Write, Read and Process.  A blob is a sequence of    *)
(* fields; Msg holds <<Ver, Hash>> when well formed, and a signature is    *)
(* the key that made it with the blob it signs.                            *)
(***************************************************************************)
CpBlobs == {<<>>} \cup ({1, 2} \X CpHashes)

\* what the master signed: version-1 checkpoints of the announced blocks
MasterSigned == {<<1, h>> : h \in Announced}

\* signatures a peer can present: the master's over what it signed, any
\* other key's over anything, or an empty blob
Sigs == {[by |-> MasterKey, over |-> m] : m \in MasterSigned}
        \cup [by : Keys \ {MasterKey}, over : CpBlobs] \cup {[by |-> NoSig, over |-> <<>>]}

\* WriteBlob(wr, Msg); WriteBlob(wr, Sig)
CheckPointWrite(m) == <<m.Msg, m.Sig>>

\* Msg = ReadBlob(rd); Sig = ReadBlob(rd); then Ver and Hash from Msg; a
\* stream that ends early throws
CheckPointRead(w) ==
    IF Len(w) < 2 \/ Len(w[1]) < 2 THEN [err |-> "EndOfStream"]
    ELSE [err |-> "ok", Msg |-> w[1], Sig |-> w[2], Ver |-> w[1][1], Hash |-> w[1][2]]

\* ECDsa(CheckpointMasterPubKey).VerifyHash(Coin::Hash(Msg), Sig)
VerifyHash(key, blob, sig) == sig.by = key /\ sig.over = blob

\* seeded fault: the signature check is skipped
CheckPointProcess_noverify(m) == "ok"

CheckPointProcess(m) ==
    IF VerifyHash(MasterKey, m.Msg, m.Sig) THEN "ok" ELSE "CheckpointVerifySignatureFailed"

\* what peers send: what Write makes of any message, or a truncated stream
Wires == {CheckPointWrite(m) : m \in [Msg : CpBlobs, Sig : Sigs]} \cup {<<b>> : b \in CpBlobs}

ASSUME \A t \in Times : IsV02Protocol(t)

\* each state is one call: Check on a block and its coinstake, CheckSignature
\* on a block, or Read and Process on a received checkpoint message
Init ==
    \/ /\ blk \in BF!Blocks
       /\ cs \in IF blk.type = "Stake" THEN Coinstakes ELSE {None}
       /\ sg = None /\ wire = NoWire
    \/ /\ blk \in BF!Blocks /\ cs = None
       /\ sg \in SigCases /\ wire = NoWire
    \/ /\ blk = [type |-> "Work", mod |-> NoMod, posHash |-> NoHash] /\ cs = None
       /\ sg = None /\ wire \in Wires

\* the block does not change: each state is one block to store and check
Next == UNCHANGED vars

Spec == Init /\ [][Next]_vars

(***************************************************************************)
(* Properties                                                              *)
(***************************************************************************)
Accepted == blk.type = "Stake" /\ cs # None /\ Check(blk, cs) = "ok"

(* A coin the kernel lets stake earns coin age: when Check accepts a stake *)
(* block, the output its kernel spends passed the maturity test, and       *)
(* GetCoinAge counts that same output, although the two functions test the *)
(* 30 days separately (a coin exactly 30 days old must pass both).         *)
MatureStakeEarns == Accepted => Counted(cs.ins[1], cs.dtTx)

(* The stake weight the kernel grants (coin-days capped at 90 days) never  *)
(* exceeds the coin age the reward is paid on: when Check accepts a stake  *)
(* block and GetCoinAge gives its coinstake a coin age (a younger second   *)
(* input makes it throw later, in CheckCoinStakeReward), that coin age is  *)
(* at least the kernel's weight.                                           *)
StakeWeightWithinCoinAge ==
    (Accepted /\ GetCoinAge(cs).err = "ok")
        => KernelCoinDays(cs.ins[1], cs.dtTx) <= GetCoinAge(cs).age

(* Only the key a block names can sign it: when CheckSignature accepts a   *)
(* block, either it is the genesis block and unsigned, or the signature    *)
(* was made with the public key paid by the coinstake's stake output       *)
(* (stake block) or by the coinbase's first output (work block).           *)
BlockSignedByOwner ==
    (sg # None /\ CheckSignature(blk, sg) = "ok") =>
        \/ sg.sig = NoSig /\ sg.genesis
        \/ blk.type = "Stake" /\ sg.csOut.kind = "PubKey" /\ sg.sig = sg.csOut.key
        \/ blk.type = "Work" /\ sg.cbOut.kind = "PubKey" /\ sg.sig = sg.cbOut.key

(* A checkpoint is taken only from the master: when Process accepts a      *)
(* received message, the version and block hash Read took out of it are   *)
(* ones the holder of CheckpointMasterPubKey signed.                       *)
CheckpointAuthentic ==
    LET m == CheckPointRead(wire)
    IN (wire # NoWire /\ m.err = "ok" /\ CheckPointProcess(m) = "ok")
           => <<m.Ver, m.Hash>> \in MasterSigned

(* Coins younger than 30 days earn nothing: when no output a coinstake     *)
(* spends sits in a block 30 days older than the coinstake, the reward     *)
(* CheckCoinStakeReward lets it claim, whatever its minimum fee, is no     *)
(* more than the fee allowance MinTxFee - minFee, although their value and *)
(* the time since their own transaction enter the coin age.               *)
ImmatureCoinsEarnNothing ==
    (cs # None /\ \A k \in DOMAIN cs.ins : cs.ins[k].blkTs + MinAge > cs.dtTx) =>
        \A r \in Rewards, f \in MinFees :
            CheckCoinStakeReward(cs, r, f) = "ok" => r <= MinTxFee - f

\* PosBlockObj::Write then Read restores the stored tail (BlockFlags)
RoundTrip == BF!RoundTrip

====
