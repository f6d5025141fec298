# Formal models of the ethash/NUC consensus engine

This directory holds TLA+ models of the consensus engine in
`src/consensus/ethash`. The engine is an ethash fork that pays block rewards
to PoC, PoW and pool participants read from a registry contract. The
directory also holds the TLC configurations that check the models on small
instances, and TLAPS proofs of the main invariants for every instance.

## The system and its parts

| Part | Source | Model | Status |
|---|---|---|---|
| Batch header verifier `VerifyHeaders` | `consensus.go` 121-200 | `VerifyHeaders`, `HeaderResults`, `VerifyHeadersProofs` | modelled, proved |
| Block reward engine `accumulateRewards` / `NUCReward4` | `consensus.go` 587-708, `consensus_reward3.go`, `consensus_reward.go` 55-130 | `RewardEngine`, `RewardEngineProofs` | modelled, type and PoC cap proved |
| Coinbase record codec | `consensus_reward.go` 481-567 | `RewardCodec` | modelled |
| Registry caller `NUCCaller` | `nuc_token/v1/nuc_token.go` | `RewardEngine` (`Gather`) | call outcomes only |
| Mining-rewards side database | `ethdb/reward/record_db.go`, `consensus_reward.go` 497-502 | `RecordDB`, `RecordDBProofs`; `RewardEngine` (`recordDB`) | modelled: lazy open by several goroutines, Put (failing or not), Get |
| `verifyHeader`, `VerifyHeader`, `VerifyUncles` | `consensus.go` 97-321 | `HeaderChain`, `HeaderChainProofs`, `HeaderUnclesProofs` | modelled, type, header rules and UnclesOnce proved (DAO/fork-hash checks of package misc are outside the repository) |
| Difficulty `CalcDifficulty`, `calcDifficultyFrontier` | `consensus.go` 323-341, 470-500 | `HeaderChain` | modelled |
| `verifySeal`, `Prepare` | `consensus.go` 503-583 | `HeaderChain` | modelled with the digest and result as header fields; hashimoto, `SealHash` and caches out of reach |
| NUC miner difficulty | `consensus/nuc_consensus.go` | — | no caller in the repository |
| Legacy rewards (`accumulateRewardsold`, `NUCReward2`, `NUCReward3`) | `consensus.go` 713-1013, `consensus_reward.go`, `consensus_reward2.go`, `nuc_token.go` | — | not reached from `Finalize` |

The parts interact as follows. Block import first verifies headers, in a
batch through `VerifyHeaders`. The state processor then runs `Finalize` on
the block's state. `Finalize` calls `accumulateRewards`, which works in
four steps:

1. It asks the registry contract, through `NUCCaller`, for the PoC, PoW and
   pool participants and the reward ratio.
2. It credits balances and `AllPocBalance`.
3. It writes the coinbase record (`CoinbaseTxs.Encode`) into the header.
4. It writes the same record into the side database, keyed by block number
   (`Save`).

The miner runs the same function through `FinalizeAndAssemble` for every
template. That state is discarded, but the side-database write is kept.

## Modules

### `VerifyHeaders`

This module models the dispatcher goroutine, the W workers, the shared
`errors` slice, the `done` channel with capacity W = min(GOMAXPROCS, N), and
the reorder loop. Abort is included.

- **Variables.**
  - `in`, `checked` and `errorsOut` are the dispatcher's locals and the
    results channel.
  - `done` is the buffered channel.
  - `wstate` and `windex` hold each worker's position in its loop.
- **Actions.**
  - `Receive`: case `inputs <- in`.
  - `Verify`: line 150.
  - `SendDone`: line 151, blocked when the buffer is full.
  - `Exit`: `range inputs` ends after `close(inputs)`.
  - `RecvDone`: case `<-done`, together with the whole reorder loop.
  - `Abort`: the caller closes `abort`.
  - `DispatchAbort`: case `<-abort`.
- **Verdicts.** The verdict of `verifyHeaderWorker` is a pure function of the
  header, so header i's verdict is modelled as the value i. This makes a
  misplaced or unwritten result visible.

`HeaderResults` is the abstract promise to the caller. Results are a growing
in-order prefix of the verdicts, and all of them arrive unless the caller
aborts. `VerifyHeaders` maps onto it with `results <- errorsOut`.

### `HeaderChain`

This module models header admission.

- **Variables.**
  - `blocks` is the chain database: a sequence of admitted headers, genesis
    first. A header names its parent by position, so two headers are the
    same block exactly when every field is equal, as with hashes.
  - `now` is the wall clock.
- **Checks.**
  - `HeaderChecks` lists the checks of `verifyHeader` in the code's order,
    and `FirstError` returns the first that fails.
  - `VerifyHeader` adds the known-header short circuit and the parent
    lookup by hash and number.
  - `Ancestors` is the walk of `VerifyUncles` over UncleWindow generations.
  - `UncleError` is the per-uncle check, in order: duplicate, ancestor,
    dangling, then `verifyHeader` as an uncle.
  - `SealError` is `verifySeal`. The hashimoto digest and result are
    header fields: whether the digest equals MixDigest, and the result's
    integer value.
- **Actions.**
  - `Mine`: a header from `Prepare`, with Difficulty = NUCDifficulty =
    CalcDifficulty.
  - `Receive`: a peer's header with every field chosen by the sender.
  - `Tick`: the clock advances.

  `Mine` and `Receive` both go through `Admit`, which requires
  `VerifyHeader` and `VerifyUncles` to accept the header.
- **Assumptions.**
  - `HeaderAssumption` gives the types of the constants.
  - `GenesisAssumption` says genesis has no uncles and parent 0, the
    position of no block. `ParentHash` of the genesis block is the zero
    hash, which names no stored block.

### `RecordDB`

This module models the side database of `src/ethdb/reward/record_db.go` as
it is used by several goroutines: the importer's `Finalize`, the miner's
`FinalizeAndAssemble` and the readers of `GetRewardsByNumber`.

- **Variables.** `recodDB` is the package variable (Nil or a handle);
  `opens` counts the calls of `leveldb.New`, and handle i is the i-th one;
  `store` is the data on disk; each goroutine has its `pc`, its current call
  `op`, its local `db` and its call count; `exit` records why `log.Fatal`
  ended the process.
- **Actions**, one per step of a goroutine between which another may run:
  - `Call`: `Save` or `GetRewardsByNumber` starts;
  - `Check`: the unsynchronised test `recodDB != nil` (lines 12-15);
  - `UserFails`: `user.Current()` fails, `log.Fatal`;
  - `Open`: `leveldb.New` and the assignment to `recodDB` (lines 22-27);
  - `OpenFails`: `leveldb.New` fails on its own, `log.Fatal`;
  - `Use`: the `Put` (whose error `Finalize` drops) or the `Get`.
- **Environment.** LevelDB is a dependency outside the repository. It
  holds a lock file in the database directory while a handle is open, so a
  second `leveldb.New` of the same directory fails, and the code turns that
  into `log.Fatal`. This is modelled in `Open`.

### `RewardCodec`

This module models `Encode`, `DecodeFromBytes` and `FormatUint64Bytes` byte
by byte, including `big.Int.Bytes` (`IntBytes`) and `SetBytes`. Go's map
iteration order is a choice among all orders (`EncodeOrders`).

### `RewardEngine`

The state kept across blocks:

- `balance` and `allPoc` of the canonical state;
- `parentPoc`, the head's parent `AllPocBalance`;
- `recordDB`, the side database;
- `canon`, each imported block with the registry answer it saw, its uncles,
  its fees, its `ctxs` and its header record.

The registry answer of a block is an input. It holds the three lists, the
outcome of every count and page call (ok, failing, not unpacking) and the
ratio. `NUCReward4` and `Credit` translate the code's arithmetic with the
same integer divisions and the same order of rounding.

There are three actions, one per way `Finalize` runs:

- `Import`: the block becomes canonical.
- `Template`: a template or block whose state is dropped.
- `Late`: a side block of the head's number, finalised after the head.

Each action runs the whole of `accumulateRewards`, the `Save` included.
The `Put` of `Save` may fail. `Finalize` drops its error (`consensus.go`
line 707), so a failed write leaves the side database unchanged while the
block is imported. Whether a `Put` may fail at all is the constant
`SaveMayFail`: the issuance run lets it fail, the stale-record run does
not, so that its counterexample is an overwrite and not a lost write.
A write is `Put(m, k, v)`, the map with `k` bound to
`v`. The same operator adds an imported block to `canon`.

`InputAssumption` states what the inputs are as the code receives them:
- registry lists of ABI-decoded addresses and uint amounts;
- a ratio that is a uint or the failed call;
- uncles 1 to 6 blocks deep, which is what `VerifyUncles` admits;
- natural fees.

Two abstractions of the pager and the member map are stated as inputs:

- `Gather` takes the page count from the length of the list. The code
  takes it from `PocerCount()` (`PowerCount`, `PoolerCount`), the
  contract's count of the same array, so the two agree for a consistent
  contract; a count that disagrees with the array is not modelled.
- `UniqueEntries` says each list names an address at most once, as the
  contract's address-keyed arrays do. The member maps pick the entry of
  an address with CHOOSE; for a duplicated address the code would add
  the second entry's weight (`AddWeightCount`), which is not modelled.

`ConsistentStakes` says that the PoC registry lists each address with one
stake. It is not a module assumption. The PoC cap theorem takes it as a
hypothesis, and `MCRewardEngine` assumes it for the runs
(`MCStakesConsistent`), so that TLC checks the runs satisfy it.

## Runs

| Run | Checks | Result |
|---|---|---|
| `VerifyHeaders_nominal` | TypeOK, OrderedDelivery, WorkersExit | pass |
| `VerifyHeaders_abort` | OrderedDelivery, Refines | pass |
| `VerifyHeaders_leak` | WorkersExit | violated: goroutine leak after abort |
| `RewardEngine_issuance` | TypeOK, PocCapRespected, IssuanceBounds, CoinbaseRoundTrip | pass |
| `RewardEngine_feeissuance` | ExactIssuance | violated: powFee shares are issued on top of blockReward |
| `RewardEngine_stalerecord` | RecordOfCanonical | violated: a later template or sibling overwrites the record |
| `RewardEngine_capovershoot` | PocCreditWithinCap | violated: the cap is checked before the credit |
| `HeaderChain_uncles` | TypeOK, UnclesOnce | pass |
| `HeaderChain_rules` | HeaderRules | pass |
| `RecordDB_sequential` | OpenedOnce | pass |
| `RecordDB_race` | OpenedOnce | violated: two goroutines both see nil and both open |

### Properties

- **OrderedDelivery.** The j-th result is the verdict of header j-1. This
  rules out a slot being read before its worker wrote it.
- **Refines.** The pipeline implements `HeaderResults`.
- **WorkersExit.** Every goroutine ends.
- **PocCapRespected.** A member at 120% of its stake gets no PoC part and no
  `AddAllPocBalance`.
- **IssuanceBounds.** Each imported block credits at least blockReward,
  plus the team fee, plus its uncle rewards, and at most powFee more. The
  lower bound holds whatever pages fail, whatever ratio call fails, whoever
  has weight 0 and whichever pool is unregistered: the sink's top-up
  absorbs every loss. The upper bound rests on blockReward being the sum of
  the two class rewards, as in the code.
- **CoinbaseRoundTrip.** Decoding an imported header's record gives back
  every PoC, PoW and pool part credited (spec section 8), whatever order
  the map iteration of `Encode` took.
- **ExactIssuance** (violated). The spec's reward conservation: each block
  credits exactly blockReward plus the team fee (plus its uncle rewards,
  which the spec leaves out). `accumulateRewards` adds a powFee share to
  every participant (line 690) and tops the sink up only when the sum
  falls short, so a block whose parts and shares exceed blockReward issues
  more: 124 units instead of 120 in TLC's two-step counterexample.
- **RecordOfCanonical** (violated). The side database holds each imported
  block's record. With every `Put` succeeding, TLC imports block 1 and then
  finalises another block of number 1 on the same parent with another
  registry answer (a template or sibling with other transactions); its
  `Save` replaces the record. The spec keys the store by number only, so
  this is recorded as a gap of the spec.
- **PocCreditWithinCap** (violated). No PoC credit takes a member past 120%
  of its stake: the cap is checked before the credit, and one block's part
  (90 units) takes a member with cap 60 from 0 to 90.
- **UnclesOnce.** On every chain, no header is rewarded as an uncle twice
  or while on that chain. `VerifyUncles` looks only UncleWindow generations
  back; the parent-in-window check is what keeps an older uncle out.
- **HeaderRules.** Every admitted header meets, against its parent, the
  header invariants of spec section 2 and the retarget written from spec
  section 4.3.

- **OpenedOnce.** `leveldb.New` is called at most once in the life of the
  process (the side database is a process-wide resource opened once, spec
  section 5). With one goroutine it holds whatever the calls and failures.
  With two, both can pass the nil test before either assigns `recodDB`.
  The second `New` then fails on LevelDB's lock and `log.Fatal` ends the
  node (`RecordDB_race`, 7 steps).

Every property of a passing run has a mutant in `PROJECT.json`: a plausible
bug in the modelled code that TLC must catch.

### Bounds

**VerifyHeaders.**

- 4 headers on 3 workers (nominal).
- 4 headers on 3 workers with abort, at any point of the batch. Here
  W < N, so the `done` buffer fills.
- 2 headers on GOMAXPROCS 1 for the leak, the smallest case.

**RewardEngine.**

- Two participants and the zero address.
- Two blocks, so a cap reached in the first block is tested in the second.
- One entry per page, so a failing second page matters.
- Amounts are in units of 10^17 wei. blockReward is 120, the PoC class
  reward 100 and the PoW class reward 20: the code's 12, 10 and 2 x 10^18
  (`consensus.go` 49-51), so blockReward is exactly their sum.
- A byte is one bit and a field is eight bytes, so a field holds values
  below 256. The code's field holds values below 2^64, about 184 units.
  Every part fits in a field in both, so the record is never truncated.
- Stakes of 50 and 500 units (caps 60 and 600), so one block's PoC part
  crosses the smaller cap and not the larger.
- A transaction fee of 20 units, whose powFee of 13 gives shares of 6 that
  push a block's credits past blockReward.
- Three registry answers: a bound member that hits the cap with a
  registered pool; a failing page with halving; an unregistered pool with
  a failing ratio call.

**HeaderChain.**

- The uncle run uses five headers with UncleWindow scaled from 7 to 3 and
  maxUncles from 2 to 1. An uncle's parent must be in the window and must
  not be the block's parent. With a window of 3, one header can therefore
  be an uncle at two heights of one chain; this is the case the rewarded-set
  check exists for. A list of two uncles is too long.
- The rules run uses three headers and every field choice on either side of
  each bound.
- Difficulties are scaled (bound divisor 2, minimum 2, bomb period 1), so
  the floor is reached and a third header's retarget adds the bomb (its
  parent's period is 2). The uncle run keeps period 2 and no bomb.
- Both runs stop when the database is full. That is the bound, so they
  declare CHECK_DEADLOCK FALSE.

**RecordDB.**

- The sequential run has one goroutine, two keys, two values and three
  calls. That is enough to open, reuse the handle, overwrite a key and
  meet every failure. It stops when the calls run out
  (CHECK_DEADLOCK FALSE).
- The race run has two goroutines and one call each, the smallest case of
  the race.

### Fairness

`VerifyHeaders` assumes weak fairness for each goroutine's steps. Go's
scheduler eventually runs every runnable goroutine, and a goroutine blocked on
a channel is runnable once the channel is ready. The caller's `Abort` gets no
fairness. The reward engine and the side database check only safety.

## Proofs

`VerifyHeadersProofs` proves two theorems with TLAPS, for every N and
GOMAXPROCS:

- **`TypeCorrect`**: `Spec => []TypeOK`. In particular the `done` buffer
  never exceeds W.
- **`OrderedCorrect`**: `Spec => []OrderedDelivery`.

OrderedDelivery alone is not inductive. The proof uses the strengthening
`IInv`, which adds four facts:

- on the fast path everything was sent at once (`FastPathReturned`);
- a checked index has its verdict written (`CheckedSound`);
- an index in `done` has its verdict written and is not yet checked
  (`DoneSound`);
- a worker that is sending holds an index whose slot is written
  (`SendingSound`).

Together these say that the reorder loop only reads written slots. The step
proof has one case per action. The `RecvDone` case rests on the lemma
`FlushAppend`, about the appended results.

A third theorem, **`RefinesSafety`**, proves the safety half of the
refinement `Refines`: `Spec => HR!Init /\ [][HR!Next]_HR!vars`, where `HR`
is `HeaderResults` with `results <- errorsOut`. It rests on the same `IInv`
and three lemmas:

- `PromisedPrefix`: a sequence of verdicts in which position j holds
  `Expected(j-1)` is `HR!Promised(Len)`. OrderedDelivery gives this in the
  current and in the next state.
- `CallerView`: no step shortens `errorsOut`, and no step both aborts and
  delivers. Only `Abort` sets `aborted`, and only once.
- `RefineStep`: a step that leaves the length alone is a stutter or
  `HR!Abort`; a step that grows it is `HR!Deliver`.

`HeaderChainProofs` proves two theorems for every value of the constants:

- **`HeaderTypeCorrect`**: `Spec => []TypeOK`. The chain database is a
  sequence of headers with no header twice, every parent is earlier than
  its child, and a header's number is at most twice its position minus one.
- **`HeaderRulesCorrect`**: under `~FakePow`, `Spec => []HeaderRules`.

The step proof for HeaderRules uses TypeOK /\ HeaderRules as the inductive
invariant. HeaderRules alone does not say that an old header's parent is
still at its position after an `Append`; TypeOK's "parent earlier than
child" does. For the new header, the lemma `VerifyHeaderOk` shows that
`VerifyHeader` = "ok" means no check of `verifyHeader` failed.
`FirstErrorOk` gives the least failing check through well-founded
induction (`WFMin`). `CalcDifficultyRule` shows that
`calcDifficultyFrontier` equals the spec's retarget and is at least
MinimumDifficulty.

The retarget adds the bomb 2^(period-2). The provers cannot show that a
power of two is a natural, so `HeaderAssumption` states it for the
exponents a chain of MaxBlocks headers reaches:
`\A k \in 0 .. 2 * MaxBlocks : 2 ^ k \in Nat`. This is a fact of
arithmetic that TLC evaluates on every HeaderChain run. TypeOK's bound on
numbers is what keeps the exponent in range.

`HeaderUnclesProofs` proves **`UnclesOnceCorrect`**: `Spec => []UnclesOnce`
for every uncle window, MaxBlocks and set of proposed headers. A header is
never rewarded twice as an uncle on a chain, and no block of a chain is an
uncle on it. This holds although `VerifyUncles` gathers the uncles of only
`UncleWindow` ancestors.

UnclesOnce speaks of whole chains, so it is not inductive. The inductive
invariant `UncleInv` adds two facts to TypeOK:

- `Chained(blocks)`: genesis is first, and every later header follows its
  parent, which is earlier and has the number one less;
- for every admitted header, what `VerifyUncles` checked when it was
  admitted (`UnclesAdmitted`), stated over its window: the ancestors with
  a number at least the header's minus UncleWindow.

The lemmas are taken over an arbitrary database `bl`, so that they apply
to `blocks` and to `blocks'` alike:

- `ChainFacts`: a chain holds earlier positions only, and numbers fall
  along it. Any two of its members lie on each other's chain, and
  `OnePerNumber` follows: a chain holds one header of each number.
- `WalkWindow`: after k steps, the walk of lines 219-229 holds the
  ancestors down to the header's number minus k. The loop stops at
  genesis, whose parent 0 is no block. So `Ancestors` is exactly the
  window (`AncestorsWindow`).
- `ChainAppend` and `WindowAppend`: appending a header leaves the chains
  and windows of the earlier headers unchanged.
- `NumberOk`, `UnclesOk` and `UncleErrorOk`: VerifyHeader's InvalidNumber
  check gives the number relation, and VerifyUncles accepting a header
  gives the checks of each uncle.

`UncleInv` implies UnclesOnce, case by case:

- *An uncle in two blocks a1 below a2 on one chain.* The uncle's parent
  lies in a2's window and below a1, so a1 is in a2's window. Then
  `VerifyUncles` would have found the uncle among a1's.
- *A block of the chain that is an uncle on it.* Its parent lies in the
  window, so the uncle itself lies in the window, as an ancestor.

Each argument picks a least counterexample with `MinExists` (`WFMin`), and
the recursive walk and chain are obtained from `WFInductiveDef`.

`RecordDBProofs` proves **`SequentialOpenedOnce`**: when a single
goroutine is the only caller (`Callers = {c}`), `Spec => []OpenedOnce` holds
for every MaxCalls, Keys and Values. The inductive invariant `IInv` adds
two facts to TypeOK and `opens <= 1`:

- while the process runs, recodDB is nil exactly when `leveldb.New` has not
  been called;
- a goroutine at `pc = "open"` saw nil and still sees nil.

The second fact is what a second goroutine breaks, by opening in between.
`RecordDB_race` shows the resulting violation. The proof needs `Keys # {}`
from `RecordDBAssumption`, so that the initial `op` is a real call.

`RewardEngineProofs` proves two theorems for every number of
participants, blocks, page size and registry answer.

**`RewardTypeCorrect`** is `Spec => []TypeOK`. TypeOK is inductive as it
stands: balances and `AllPocBalance` stay natural, and the side database
and `canon` hold byte strings under imported heights. The work is in
lemmas about the operators the rewards are built from. Each of these is a
fold or a recursive function, and each lemma is proved by well-founded
induction on its definition:

- `FeeFoldNat`: the fee fold (`FoldLeft`, `fee = fee*70/100`);
- `SumFunctionNat`: sums over the members;
- `FlattenSeqType` and `GatherType`: the pager of `GetAllPocers3`;
- `IntBytesType`: `big.Int.Bytes`, the recursive `IntBytes`;
- `EncodeType`: the encoded record.

The method is the same for each:

1. obtain the function from `WFInductiveDef`, either over the strict-subset
   order on finite sets or over `<` on Nat;
2. take a least counterexample with `WFMin`.

`InputAssumption` supplies the types of the inputs.

**`PocCapCorrect`**: under `ConsistentStakes`, `Spec => PocCapRespected`.
An import gives no PoC part and no `AddAllPocBalance` to an address whose
`AllPocBalance` has reached 120% of its stake. The lemma `CappedNotPocer`
carries the argument. Every entry the pager returns is an entry of the
registry's answer (`PocersFromList`). Every entry of a capped address
carries the capped stake, so the check of lines 121-126 skips it. The
hypothesis is needed: with two entries of one address and different
stakes, the larger stake would reinstate a capped member. The proof uses
TypeOK from `RewardTypeCorrect`, the step lemma `PocCapStep`, and PTL.

The following are only model-checked:

- **Liveness**: WorkersExit, and the weak-fairness conjunct of `Refines`
  (that the abstract spec's `Deliver` is eventually taken). TLAPS does not
  handle liveness and ENABLED; its safety half is `RefinesSafety`.
- **`IssuanceBounds`.** It compares a sum over all addresses of credits
  with the block reward plus fees and uncle rewards. Proving it needs the algebra
  of `SumFunction`: linearity, and splitting a sum over a partition of the
  members by pool. Each of these facts is an induction over the fold, and
  that induction would have to be redone for every sum, because the
  library's induction theorems take an operator parameter that the provers
  cannot instantiate.
- **`CoinbaseRoundTrip`.** Proving it needs what `IntBytes` and `SetBytes`
  compute for every value, an induction over data the provers cannot
  instantiate.
- **The three violated reward properties** (`ExactIssuance`,
  `RecordOfCanonical`, `PocCreditWithinCap`). TLC's counterexamples are
  what they show.

## Not modelled

- **The EVM calls behind `NUCCaller`.** Only their outcomes are modelled.
- **Hashing in `verifySeal` and `SealHash`.**
- **The legacy reward functions**, which are not reached.
- **Constant tables.**
- **LevelDB itself.** Only its directory lock and its failures are
  modelled.

## Plan

1. `IssuanceBounds` needs lemmas of `SumFunction`'s algebra: linearity,
   and a sum split over a partition of the members. Each would be proved
   by its own well-founded induction, as `SumFunctionNat` is.
