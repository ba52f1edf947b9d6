----------------------------- MODULE BlockFlags -----------------------------
(***************************************************************************)
(* PosBlockObj::Write and PosBlockObj::Read (proof-of-stake.cpp): the PoS  *)
(* tail of a stored block.  A block is written to the database when it is  *)
(* accepted and read back when the node restarts or evicts it from its     *)
(* cache; the cached proof-of-stake hash and the stake modifier are never  *)
(* recomputed, so whatever Read restores is what the chain uses from then  *)
(* on.                                                                     *)
(*                                                                         *)
(* A stream is a sequence of tokens: the flags byte, then a 32-byte hash   *)
(* and a 64-bit modifier, each one token.  The header and signature before *)
(* the flags are written and read by the base class and are left out.     *)
(* The variable blk is the block being stored; PosBlock enumerates it.     *)
(***************************************************************************)
EXTENDS Integers, Sequences, Bitwise

CONSTANTS
    Hashes,      \* values of HashProofOfStake()
    Modifiers,   \* values of StakeModifier, 0 included
    NoMod,       \* the empty optional<UInt64>
    NoHash       \* the empty optional m_hashProofOfStake

ProofTypes == {"Work", "Stake"}

\* the blocks that reach Write: a stake block has a proof hash, any block
\* may carry a modifier
Blocks ==
    [type : {"Work"}, mod : Modifiers \cup {NoMod}, posHash : {NoHash}]
    \cup [type : {"Stake"}, mod : Modifiers \cup {NoMod}, posHash : Hashes]

VARIABLE blk

\* seeded fault: the modifier flag takes the bit the entropy flag once used
ModifierFlag_mut == 2

\* !!StakeModifier ? 4 : 0
ModifierFlag == 4

StakeFlag == 1

\* byte flags = (ProofType()==Stake ? 1 : 0) | (!!StakeModifier ? 4 : 0)
Flags(b) ==
    (IF b.type = "Stake" THEN StakeFlag ELSE 0)
    | (IF b.mod # NoMod THEN ModifierFlag ELSE 0)

\* wr << flags; the hash if stake; the modifier if present
Write(b) ==
    <<Flags(b)>>
    \o (IF b.type = "Stake" THEN <<b.posHash>> ELSE <<>>)
    \o (IF b.mod # NoMod THEN <<b.mod>> ELSE <<>>)

\* flags = rd.ReadByte(); if (flags & 1) read the hash; if (flags & 4) read
\* the modifier; the entropy bit (flags & 2) is not read back
Read(s) ==
    LET flags == s[1]
        hasHash == (flags & 1) # 0
        hasMod == (flags & 4) # 0
        modAt == IF hasHash THEN 3 ELSE 2
    IN [posHash |-> IF hasHash THEN s[2] ELSE NoHash,
        mod |-> IF hasMod /\ modAt <= Len(s) THEN s[modAt] ELSE NoMod,
        rest |-> Len(s) - (1 + (IF hasHash THEN 1 ELSE 0) + (IF hasMod THEN 1 ELSE 0))]

(***************************************************************************)
(* Reading back what Write stored restores the cached proof hash and the   *)
(* stake modifier exactly (a modifier of 0 included), and consumes the     *)
(* whole PoS tail, so that the fields stored after it are read from where  *)
(* they were written.                                                      *)
(***************************************************************************)
RoundTrip ==
    Read(Write(blk)) = [posHash |-> blk.posHash, mod |-> blk.mod, rest |-> 0]

====
