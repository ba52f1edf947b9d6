# TLA+ models of the coin engine

This directory holds TLA+ models of the consensus code and the GPU miner in
`src/`, the TLC configurations that check them, and `PROJECT.json`. That file
lists the components, runs, mutants, the map from definitions to source lines,
the findings and the hazards.

## The system

- **Proof-of-stake consensus** (`src/coin/eng/proof-of-stake.cpp`):
  - The stake modifier. `ComputeStakeModifier` runs once per accepted block. It
    regenerates the modifier when the last one is older than the parent's
    6-hour interval. It then selects up to 64 blocks of a trailing window in
    geometric sections and ORs their entropy bits into a new 64-bit value.
  - The kernel check. `HashProofOfStake` checks the stake input in this order:
    timestamp, then 30-day maturity. It then walks *forward* from the coin's
    block (`WriteKernelStakeModifier`) to the first modifier generated a full
    selection interval later. Finally it hashes that modifier with the coin's
    coordinates and compares the hash with `target * coin-days`, where holding
    time is capped at 90 days.
  - The continuous retarget. `PosEng::GetNextTargetRequired` uses the last two
    blocks of the same proof type.
  - Coin age, reward and flags serialization.
- **Currency profiles** (`currency/*.cpp`):
  - DevCoin's averaging retarget.
  - MaxCoin's dispatch to a gravity-well retarget that is not in this
    repository.
  - PPCoin's v0.2 overrides.
- **OpenCL scrypt miner** (`src/coin/miner/miner-opencl.cpp`). Each worker
  thread owns a `ScryptOpenclTask`. All tasks of a device share the miner's
  scratch buffers through `ScratchQueue`, which is guarded by `MtxEvent`. A round
  enqueues three commands on the task's in-order queue: a write, the
  `ScryptCore` kernel and a read. The kernel waits on the event of the last
  kernel that used its scratch buffer, possibly another task's. When the read
  completes, its callback (`OnComplete`) parses results. It then chains the next
  round, or sets `m_bComplete` when stopped or out of work.
- **OpenCL SHA-256 miner** (same file, `OpenclTask`). All tasks share the
  miner's in-order queue. A round enqueues the `search` kernel and a
  non-blocking read of the result buffer into `m_bufTest`. The worker polls
  `IsComplete`, then calls `ParseResults`. After a hit, `ParseResults`
  submits every non-zero slot, zeroes `m_bufTest` and enqueues a write of it
  back to the device.

Most of `eng.h` and `param.h` is declarations and storage or network
interfaces. `PROJECT.json` lists every part and whether it is modelled.

## Modules

### `PosChain.tla`: the proof-of-stake chain

State:

- `chain`: a sequence of block records with these fields: type, hash, ts, proof
  hash, target, modifier (`NoMod` = empty optional), and the spent coin for
  stake blocks.
- `spent`: the coins already staked.
- `result`: the last rejection.

There is one action per kind of block appended to the main chain:

- **`AddWorkBlock`** is validation of a work block. It runs the retarget, then
  `ComputeStakeModifier`.
- **`AddStakeBlock`** is validation of a coinstake block. It runs the retarget,
  then the kernel check, then `ComputeStakeModifier`. A failed check records its
  error instead of appending.

Every definition follows the source lines named in `PROJECT.json`. Data is
abstracted as follows:

- Hashes are small integers produced by fixed scrambling operators.
- The PoS shift of the selection hash is a division.
- Times are abstract units, and the protocol durations (interval, maturity, max
  age, day) are constants that keep their order.
- A coin's tx time is its block's timestamp.
- The serialized offset of a coin is its height.

#### The PPCoin profile

`PPCoinBlockObj` (`currency/ppcoin.cpp`) changes two things, and `PosChain`
models both. Its switch dates are the constants `DtV03Switch` and
`DtV04Switch`; both 0 gives the generic `PosBlockObj`.

- **`KernelStakeModifier`**: a coinstake stamped before the v0.3 switch hashes
  the block's own target bits instead of walking forward to a modifier.
- **`StakeEntropyBit`**: a block stamped before the v0.4 switch takes its
  entropy bit from `Hash160(Signature)`. ECDSA signatures are randomised, so
  the model lets the signer choose that bit (`sig` ranges over `SigBits`).

The v0.2 `CheckCoinStakeTimestamp` bounds the block time by the coinstake
time. It always holds here, because a coinstake carries its block's timestamp.

### `OpenclScrypt.tla`: the scratch-buffer protocol of the scrypt miner

Per-task state:

- `pc`: Idle, Running, Callback, Complete, or Failed (the callback threw).
- `err`: whether the task's current round ended with an error status.
- `stage`: the next command of its in-order queue (`W`, `K`, `Krun`, `R`,
  `Done`).
- `scratch`: the buffer its kernel uses.
- `dep`: the kernel event it waits for.
- `poison`: whether an event its kernel waits for ended with an error status.
- `wd`, `host` and `iobuf`: `WorkData`, `m_iodata` and `m_iobuf`. Data are
  abstracted to the round's `WorkData` they stem from (as a parity, so that
  rounds stay unbounded) and whether they are the kernel's input or its
  result.
- `parsed`: what the last `ParseResults` read, and the `WorkData` whose
  nonces it submitted.

Shared state:

- `squeue`: `ScratchQueue`, whose entries are (buffer, pending event,
  whether that event failed). An event is named by its task, since a task
  has at most one unfinished kernel.
- `stop`: `m_bStop`.
- `fault`: set when `front()` was taken of an empty queue.

Actions:

- `Start` and the continue branch of `OnComplete` call `RunRound`, which models
  `Prepare` (new `WorkData` and kernel input in `m_iodata`) plus `Run`. `Run` is one step, because only its `MtxEvent` section
  touches shared state.
- `WriteDone`, `KernelStart`, `KernelEnd` and `ReadDone` are the device.
  `KernelStart` waits for `dep`. `KernelEnd` turns the input in `m_iobuf`
  into a result and completes the event in the queue and for every waiter.
  `WriteDone` copies `m_iodata` to `m_iobuf`, and `ReadDone` copies it back.
- `OnComplete` runs `ParseResults` on the state the read left, then either
  `RunRound` or completion.
- `SignalStop` is the stop request.
- `KernelFail` is a kernel that ends with an error status. It is enabled
  only when the constant `DeviceErrors` is TRUE. `FailEvent` marks its event
  failed: in the buffer's `ScratchQueue` entry, and for every kernel waiting
  on it.
- `KernelAbort` is a kernel whose wait list holds a failed event and which
  is not executed. Its own event then fails in turn. What such a kernel does
  is implementation-defined in OpenCL, so the model lets it either run
  (`KernelStart`) or fail. A single device error can therefore pass from
  task to task along a scratch buffer.
- `CallbackError` is `Callback` with a negative status. `cl::ClCheck` throws
  and `OnComplete` is skipped.
- `Finished` is the stuttering end once no task has a command or callback
  left.

`ScratchCount` is the allocation loop of `SetDevicePortion`.

### `ScratchLock.tla`: what the scratch queue promises

This is the abstract specification of the scratch queue. Every buffer is a
first-come first-served lock:

- `claims[b]` lists the tasks whose kernels claimed buffer `b` and have not
  finished, oldest first.
- `running[b]` says whether the oldest claim's kernel is running.
- `Claim` appends a claim. A task may have only one claim open.
- `Begin` starts the oldest claim, if no kernel runs on the buffer.
- `Finish` ends the running kernel and drops its claim.
- `Withdraw` drops the oldest claim without running it. This is a kernel
  that was not executed because an event it waited for failed.
- Weak fairness on `Begin` and `Finish` says every claim is eventually
  served or withdrawn in its turn.

`OpenclScrypt` implements it. The refinement mapping is as follows:

- The claims of a buffer are the tasks whose kernel uses it and has not ended.
  They are ordered along the chain of kernel events: the head waits for
  nothing, and each next task waits for the one before it (`ClaimsOf`).
- A buffer is running when one of those kernels is in stage `Krun`.

`ImplementsScratchLock` checks `SL!Spec` as a temporal property. Three things
must hold for it to pass:

- No two kernels ever run on one buffer at once.
- A reused buffer is always handed on in queue order.
- No claim ever starves.

### `DevCoinRetarget.tla`: DevCoin's averaging retarget

`GetNextTargetRequired` of `currency/devcoin.cpp` is an operator over the
window of blocks it reads. It covers:

- the hold rule for heights off the retarget boundary;
- the two regimes (last target and first-to-last span up to height 10800,
  then the average target and the trimmed span);
- the sort of the timestamps;
- the asymmetric trim, with its integer scale factor `(nInterval-1)/(size-12)`;
- the clamp to [¼, 4×].

Each state of the model is one input window. The blocks of a window are on
schedule and carry equal targets, except that the block at position `pos` has
its timestamp moved by `off`.

### `BlockFlags.tla`: the stored PoS tail of a block

`PosBlockObj::Write` and `Read` act on a stream of tokens. The first token is
the flags byte, built with `Bitwise`'s `|` and tested with `&` as in the code.
A proof hash and a modifier are one token each. The module holds the
operators and `RoundTrip`, over a variable `blk` that `PosBlock` enumerates.

### `PosBlock.tla`: a block's own checks, its signature, its coin age, and checkpoints

Each state is one call. `Init` is the union of three cases, so the inputs of
one call are not multiplied by those of another:

1. a stored block (from `BlockFlags`) and one candidate coinstake;
2. a block and the inputs of `CheckSignature`;
3. a checkpoint message as it arrives on the wire (`wire`).

A coinstake is given by:

- the block's, the coinbase's and the coinstake's timestamps;
- whether a later transaction is a stray coinstake;
- up to two spent outputs, each with its value, its transaction's timestamp
  and the timestamp of the block at its height.

Operators:

- `Check` is `PosBlockObj::Check` in the code's order. It runs
  `CheckCoinStakeTimestamp` (PPCoin's v0.2 window) and then the kernel's
  timestamp and maturity checks (`KernelCheck`).
- `KernelCoinDays` is the kernel's weight, with holding time capped at 90
  days.
- `GetCoinAge` is the coin age the reward is paid on. Each input older than
  30 days contributes its cent-seconds, younger ones contribute nothing, and an input stamped after the coinstake throws.
- `GetProofOfStakeReward` is `PosEng::GetProofOfStakeReward`, and
  `CheckCoinStakeReward` compares a claimed reward with it, less the
  coinstake's minimum fee plus `MinTxFee`. The minimum fee comes from engine
  code outside `src/`, so it is an input from a small set.
- `CheckSignature` and `VerifySignatureByTxOut`. ECDSA is abstracted to the
  key that signed: a signature verifies against an output when the output is
  pay-to-pubkey and names that key (a pay-to-pubkey-hash output yields no
  33- or 65-byte key, so it never verifies). A stake block is checked against
  the coinstake's second output and a work block against the coinbase's first;
  an empty signature passes only on the genesis block.
- `CheckPointWrite`, `CheckPointRead` and `CheckPointProcess` are
  `CheckPointMessage::Write`, `Read` and `Process`. A message is the signed
  blob `Msg` (holding `Ver` and `Hash`) and its signature `Sig`; a signature
  is the key that made it and the blob it covers. The wire holds every pair
  that `Write` can produce from any blob and any signature by any key, and
  truncated streams. The master key signs only the announced checkpoints.

The kernel hash against the target is modelled in `PosChain`. The base-class
`CheckCoinStakeTimestamp` is in `proof-of-stake.h`, which is not in the
repository, so every timestamp is in the v0.2 era (an `ASSUME`).

### `OpenclSha256.tla`: the SHA-256 tasks and their shared queue

For every algorithm except scrypt, the `OpenclMiner` constructor creates one
in-order command queue (`MinerInit`), and every task enqueues on it. The model
has `NTasks` tasks, and each round of each task gets its own nonce range
(`WorkRange`). Every variable except `queue` is a function of the task.

State:

- `dev` and `host`: the device `Buffer` and `m_bufTest`, as result slots plus
  the found flag.
- `queue`: the shared queue, as `[task, cmd]` records.
- `ev`: `m_ev`.
- `phase`: the worker's position (Ready, Run, Parse, Failed).
- `round`.
- Ghost variables: the slots the kernel wrote this round (`wslots`), what
  the read copied from them (`got`), and what the last `ParseResults`
  submitted (`subs`).

Actions:

- `Run` is `Prepare` plus `Run`.
- `KernelDone`, `KernelFail`, `ReadDone` and `WriteDone` are the device. It
  runs the head of the shared queue. A failing kernel fails its own task's
  read (which waits on it) and nothing else.
- `IsComplete` returns, or throws on a negative status.
- `ParseResults` is the whole function, including the reset write.

The kernel is not in the repository. It may write any nonce of the round's
range into any slot.

### `MinerRounds.tla`: what a SHA-256 task promises its worker

An abstract spec with the queue, the buffers and the reset writes left out.
Each task runs its rounds in turn:

- `Begin` starts a round.
- `Report` returns any set of nonces of the round's own range.
- `Fail` ends the round in a device error before anything is reported.
- `Submit` submits exactly the reported set.

Weak fairness makes every round end. `OpenclSha256` refines it
(`ImplementsMinerRounds`) under this mapping:

- `phase`: Run and Parse become Mining.
- `reported`: the task's read event is `Complete`.
- `found`: the ghost `got`.

### `MaxCoinRetarget.tla`: MaxCoin's gravity-well dispatch

`GetNextTargetRequired` is MaxCoin's override. Below height 199 it uses the
default retarget. From 199 on it calls the gravity well with the block counts
`int(minPast/BlockSpan)` and `int(maxPast/BlockSpan)`. Each state is one
block spacing and height. The gravity well itself is not in the repository.

## Runs

| run | module / cfg | checks | result |
|---|---|---|---|
| `pos_chain` | `PosChain` / `MC_PosChain.cfg` | `TypeOK`, `NoModifierFailure`, `ModifierOncePerInterval`, `KernelCheckStable` | pass, about 200k states, non-decreasing timestamps, equal ones included |
| `pos_chain_ppcoin` | `PosChain` / `MC_PosChain_PPCoin.cfg` | `NoModifierFailure`, `ModifierOncePerInterval`, `KernelCheckStable` | pass, about 524k states |
| `pos_chain_backdate` | `MC_PosChain` / `MC_PosChain_Backdate.cfg` | `ModifierOncePerInterval` | violation (finding 1) |
| `pos_block` | `PosBlock` / `MC_PosBlock.cfg` | `MatureStakeEarns`, `StakeWeightWithinCoinAge`, `RoundTrip`, `BlockSignedByOwner`, `CheckpointAuthentic` | pass, about 400k calls |
| `opencl_scrypt` | `OpenclScrypt` / `MC_OpenclScrypt.cfg` | `TypeOK`, `ParsesOwnRound`, `ImplementsScratchLock`, `StopEndsTasks` | pass, about 581k states, kernels may fail and their failure may pass on |
| `opencl_scrypt_device_error` | `OpenclScrypt` / `MC_OpenclScrypt_DeviceError.cfg` | `StopCompletesTasks` | violation (finding 4) |
| `opencl_scrypt_full_alloc` | `OpenclScrypt` / `MC_OpenclScrypt_FullAlloc.cfg` | `ScratchAvailable` | violation (finding 2) |
| `opencl_sha256` | `OpenclSha256` / `MC_OpenclSha256.cfg` | `ImplementsMinerRounds` | pass, about 82k states, two tasks, kernels may fail |
| `opencl_sha256_zero_nonce` | `OpenclSha256` / `MC_OpenclSha256_ZeroNonce.cfg` | `ReportedShareSubmitted` | violation (finding 5) |
| `devcoin_outlier` | `MC_DevCoinRetarget` / `MC_DevCoinRetarget.cfg` | `OutlierBounded` | pass, 1008 windows |
| `devcoin_on_schedule` | `MC_DevCoinRetarget` / `MC_DevCoinRetarget_OnSchedule.cfg` | `OnScheduleKeepsTarget` | violation (finding 3) |
| `maxcoin_window` | `MaxCoinRetarget` / `MC_MaxCoinRetarget.cfg` | `WindowBounded` | violation (finding 6) |

- **`ModifierOncePerInterval`**: no two blocks generate a modifier while their
  parents sit in the same interval.
- **`KernelCheckStable`**: every accepted stake block still passes its kernel
  check, with the same hash, on the longer chain. This matters because
  `m_hashProofOfStake` is cached and never re-verified.
- **`NoModifierFailure`**: no legal chain reaches `E_FAIL`.
- **`ParsesOwnRound`**: every `ParseResults` reads the kernel's result for the
  very `WorkData` whose nonces it submits. It reads neither the input
  `Prepare` made, nor the result of an earlier round. Parsing after the next
  round's `Prepare` breaks it.
- **`ImplementsScratchLock`**: the miner's scratch-buffer protocol refines
  `ScratchLock`, as described above.
- **`OutlierBounded`**: a window where one block's timestamp is moved by any
  allowed offset retargets to within one block spacing's worth of the
  unmanipulated window. This holds whichever block it is, the last block
  included.
- **`OnScheduleKeepsTarget`**: a window that is exactly on schedule keeps its
  target, within the one-block difference between measured and expected
  span.
- **`RoundTrip`**: reading back what `Write` stored restores the proof hash and
  the modifier, including a modifier of 0. It also consumes exactly the PoS
  tail.
- **`StopEndsTasks`**: after stop, every task reaches `m_bComplete` unless
  a kernel of its own failed. That kernel may have failed only because it
  waited on another task's failed event. A failed event still completes for
  its waiters, so a failure never holds up another task for ever. (With that
  release removed, TLC finds a deadlock.)
- **`StopCompletesTasks`**: after stop, every started task reaches
  `m_bComplete`. This fails once a kernel may fail (finding 4).
- **`MatureStakeEarns`**: when `Check` accepts a stake block, `GetCoinAge`
  counts the output its kernel spent. The kernel (line 133) and the coin age
  (line 36) test the 30 days separately. A coin exactly 30 days old must pass
  both.
- **`StakeWeightWithinCoinAge`**: when a block is accepted and its coin age
  is defined, the kernel's capped coin-day weight is at most that coin age.
- **`ReportedShareSubmitted`**: every nonce the kernel left in a result slot
  is submitted. Nonce 0 breaks this (finding 5).
- **`ImmatureCoinsEarnNothing`**: when no output a coinstake spends sits in a
  block at least 30 days older than the coinstake, `CheckCoinStakeReward`
  accepts no reward beyond the fee allowance. Measuring the 30 days from the
  spent transaction's own timestamp breaks it.
- **`BlockSignedByOwner`**: a block that `CheckSignature` accepts is the
  unsigned genesis block, or is signed by the key that its own output names.
  For a stake block that is the coinstake's second output, and for a work
  block the coinbase's first. Checking a stake block against the coinbase,
  which anyone can write, breaks it.
- **`CheckpointAuthentic`**: a checkpoint message that `Read` decodes and
  `Process` accepts carries a version and hash that the master key signed,
  whatever else arrives on the wire.
- **`ImplementsMinerRounds`**: the tasks on the shared queue implement
  `MinerRounds`. Each round submits exactly the nonces its own read brought
  back from its own range, and none from an earlier round or another task.
  Every round ends in `ParseResults` or in the device error thrown to the
  worker; a worker that took a negative status for "not complete yet" would
  poll forever. The property thus covers both the stale-share question
  (`subs` within `found`, mapped to `got`) and round termination (the
  abstract spec's fairness), so neither is checked on its own.
- **`WindowBounded`**: the gravity well gets a minimum window no larger than
  its maximum, and a maximum of at least one block (finding 6).

Each property of a passing run has a mutant in `PROJECT.json`, a plausible bug
in the mapped code that TLC catches with that property:

- a bit shifted one place too high;
- rounds not capped at the candidate count;
- the interval start not rounded down;
- the kernel walk replaced by the last modifier;
- the v0.2 kernel hashing the currently required target instead of the
  block's own;
- a popped queue entry not removed;
- a reused buffer not waiting for its previous kernel;
- the next round started without looking at `m_bStop`;
- the DevCoin timestamps used untrimmed;
- the modifier flag written at bit 1, the old entropy bit;
- the coin-age maturity test made strict;
- the kernel's 90-day cap taken with `max` instead of `min`;
- `ParseResults` not clearing the result buffer after a hit;
- scrypt's `ParseResults` run after the next round's `Prepare`;
- `CheckSignature` always verifying against the coinbase output;
- the coin age's 30 days measured from the spent transaction's timestamp;
- `CheckPointMessage::Process` accepting without `VerifyHash`.

### Findings

1. **The modifier can be generated twice in one interval** (spec/code
   divergence). The median-time rule lets a block be stamped before its parent.
   When such a block generates the modifier, its timestamp falls below the
   parent's interval start. The next block in the same interval then generates
   another modifier. TLC shows this at depth 6.
2. **A device gets no scratch buffer** (code bug). When a device reports
   `MaxMemAllocSize >= 2/3 GlobalMemSize`, `SetDevicePortion` allocates no
   scratch buffer. AMD drivers do this with `GPU_MAX_ALLOC_PERCENT=100`, a
   common scrypt-mining setting. `Run` then reads `front()` of an empty
   `std::queue`.
3. **DevCoin's retarget makes an on-schedule chain about 9% harder** (spec/code
   divergence). Past height 10800 the span is
   `(vTimes[size-6]-vTimes[6]) * ((nInterval-1)/(size-12))`. The scale
   factor is an integer division, 143/131 = 1, so it scales nothing. The trim
   is also asymmetric: it drops 6 low and 5 high timestamps, where the spec
   describes a symmetric trim. An on-schedule window therefore measures 131
   spacings against the expected 144. The new target is `1310/1440` of the
   old one every retarget.
4. **A device error leaves the worker waiting forever** (code bug).
   `ScryptOpenclTask::Callback` answers a negative event status with
   `cl::ClCheck(st)`. That throws on the OpenCL runtime's thread instead of
   completing the round, so `m_bComplete` is never set and `CvComplete` is
   never notified. The exception leaving the C callback is either lost or
   terminates the process. TLC shows this at depth 8: after a stop request,
   one failed kernel keeps its task from ever completing.
5. **The SHA-256 task never submits nonce 0** (code bug). `ParseResults`
   submits a result slot only when it is non-zero (miner-opencl.cpp:198). A
   zeroed slot and a found nonce 0 look the same, so a share at nonce 0 is
   dropped even when the found flag is set. TLC shows it in the first round.
   The loss is one nonce in 2^32, but it is silent.
6. **MaxCoin's gravity-well window is inverted** (spec/code divergence).
   `maxPast` is `hours(1)/100*14` = 504 s and `minPast` is `hours(24)/100` =
   864 s (maxcoin.cpp:39-40). At every block spacing the minimum block count
   therefore exceeds the maximum, and at 30 s the maximum is 16 blocks against
   a minimum of 28. Kimoto's gravity well takes `maxPast` to be the larger
   window (`hours(24)*7` in other coins), so `hours(24)` was probably meant
   where the code says `hours(1)`.

## Bounds and why they are enough

### `MC_PosChain.cfg`

- Interval 4 and ratio 3, with 3 sections. The sections are 1, 2 and 4, so the
  selection window is 7.
- Maturity 8 and max age 12.
- Block deltas {0, 1, 4}. A delta of 0 gives two blocks the same timestamp,
  which the median-time rule allows, so the selection scans candidates whose
  order only the multimap's insertion order decides.
- Two hash values.
- At most 6 blocks. With three deltas, 7 blocks take more than ten minutes.

These bounds reach all of the following, confirmed with reachability probes
while building the model:

- several modifier regenerations;
- windows with fewer candidates than rounds;
- `CoinsAreTooRecent` and `CoinstakeCheckTargetFailed`;
- accepted stake blocks, back to back;
- both retargets leaving `InitTarget`;
- a modifier generated right after two blocks with the same timestamp.

The PPCoin run puts the v0.3 switch at 13 and the v0.4 switch at 17. Coins
mature at 8, so coinstakes are accepted on both sides of the first switch,
and modifiers are computed from both kinds of entropy bit. It uses a single
block hash, because the signature bit already varies the entropy, and this
keeps the run under a minute.

The backdate run allows a delta of -1 (`MC_PosChain.tla` defines the set,
because a .cfg cannot write a negative literal).

### `MC_OpenclScrypt.cfg`

- Three tasks and two buffers. This is the smallest setting in which the queue
  is full while a third task hands a buffer on to a fourth round, possibly
  another task's.
- Work is unbounded: `GetWorkForThread` nondeterministically returns work or
  none. A round's `WorkData` is kept as a parity, which tells a round from the
  one before it, the only one whose data could still be around.
- Three tasks on two buffers also let a failed event reach a kernel of
  another task through the `ScratchQueue` entry: TLC reaches `KernelAbort`
  after a failure of the first task's kernel and two more starts.
- About 581k states, in about two minutes.

### `MC_DevCoinRetarget.cfg`

- Height 10801 is the first height of the averaging regime. There every block
  retargets, over a one-day window of 144 blocks at `BlockSpan` 10 and `Day`
  1440.
- The offsets reach both clamps of the trim. Among them are -49 (just above
  the previous timestamp) and 120 (past the next twelve blocks, so the
  manipulated block sorts beyond the trim).
- Every position of the window is tried.

### `MC_PosBlock.cfg`

- One time unit is a day (`Day` 1). Coins mature at 3 and the kernel's cap is
  4. These scale the code's 30 and 90 days, and timestamps 0..5 reach both
  sides of both, including the exact-maturity edge.
- Up to two inputs per coinstake. The second input reaches the coin age's
  sum and its throw on a younger input.
- An output value of 300 against a coin value of 200. The kernel's division
  then yields one or more coin-days, and the coin age's cent-second truncation
  is visible.
- `MaxFuture` 1 exercises both timestamp windows.
- One proof hash and modifier 0. The stored-tail round trip treats all
  values alike, so these stand for all of them.
- Two keys, one of them the master key. Outputs are pay-to-pubkey or
  pay-to-pubkey-hash of either key, and signatures are by either key or empty,
  so every mismatch between signer, output kind and block type occurs.
- Two checkpoint hashes, one of them announced, two versions, and truncated
  streams. The master key has signed only the announced checkpoint, and the
  other key has signed every blob.
- An annual rate of 1000 in the model's unit, so one coin-day earns 5. The
  minimum fee is 0, 1 or 2 against a `MinTxFee` of 1, so the fee allowance
  is positive, zero and negative. Claimed rewards are 0, 1, 2, 5 and 6.
- About 400k states.

### `MC_OpenclSha256.cfg`

- Two tasks sharing the queue, two result slots, ranges of three nonces,
  and three rounds per task starting at nonce 1. A nonce can thus be written
  by the kernel in one round and left in a slot the next round does not write,
  and one task's reset write can sit in the queue behind the other task's
  kernel.
- Kernels may fail.
- Ranges start at 1, because a nonce 0 is dropped by `ParseResults` (finding
  5, checked by the zero-nonce run) and would break the refinement for that
  known reason.
- About 82k states. Three tasks take more than two minutes and reach no
  interleaving that two do not.

The zero-nonce run keeps one round of two nonces (0 and 1), with no device
errors.

### `MC_MaxCoinRetarget.cfg`

- Block spacings of 30, 60, 120 and 600 s.
- Heights 198, 199 and 200, on both sides of the switch to the gravity well.

## Fairness and deadlock

`OpenclScrypt` assumes weak fairness of each device command and of the
completion callback. OpenCL guarantees that an enqueued, flushed command whose
wait list is complete eventually runs, and that a registered callback is
eventually invoked. The stop request and the start of a task get no fairness.

A kernel error is never forced: `KernelFail` and `KernelAbort` have no
fairness.

`Finished` lets a fully stopped miner stutter, so deadlock checking still
catches a stuck kernel.

`OpenclSha256` assumes weak fairness of the device commands (the same
guarantee as for scrypt) and of the worker's `IsComplete` and `ParseResults`.
The worker polls in a loop while a round is running. `KernelFail` has no
fairness. `Finished` lets the workers stutter after their last rounds or
after an exception. The fairness of the workers is per task, since each task
has its own worker thread.

`DevCoinRetarget`, `PosBlock` and `MaxCoinRetarget` are pure operators over
their inputs. Each state is one input, and the only step is stuttering.
`BlockFlags` is an operator library that `PosBlock` instantiates.

`PosChain` checks no liveness. Its runs set `CHECK_DEADLOCK FALSE` because the
only terminal states are chains at the `MaxHeight` bound, which is a model
artefact.

## Not modelled, and the plan

Not modelled:

- ECDSA itself (abstracted to the signing key), and what a checkpoint does
  once accepted: `CheckPointMessage::Process` stops at a TODO after the check.
- Block hashing and the SHA-3 hasher.
- The floating-point PoS subsidy.
- The `Int64` overflow of the stake reward's product. It depends on chain
  parameters outside `src/`.
- `CoinEng::GetSubsidy` (eng.h:626): a shift of the block value by
  `height/HalfLife`, whose parameters are outside `src/`.
- The smaller `eng.h` helpers: the self-connection nonce set, `OnInitLink`,
  the message-loop thread's stop, and money-range and relay-fee checks.
  They are local and simple, and are left until the questions above them
  are answered.
- `StakeModifierChecksum` (proof-of-stake.cpp 238-283). It is compiled only
  under `X_DEBUG`, so a release build never runs it.
- The free `GetProofOfStakeReward` (proof-of-stake.cpp 46-49). Nothing calls
  it: `CheckCoinStakeReward` calls the engine's
  `PosEng::GetProofOfStakeReward` (409-411), and that one is modelled.
- Storage and networking.
- The gravity well itself, the engine's default retarget, and the base-class
  `CheckCoinStakeTimestamp` (proof-of-stake.h). None of these is in this
  repository.

Planned next, in this order:

1. Forks and reorganisations in `PosChain`. A block on a side branch is
   checked with `GetBlockByHeight`, which reads the *main* chain
   (proof-of-stake.cpp:110 and 132). The question is whether its kernel
   modifier and coin block can differ from those of its own ancestry.
2. An abstract one-modifier-per-interval chain, refined by `PosChain` without
   backdating.
