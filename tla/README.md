# TLA+ models of the block template assembler and miner

These modules model the block production code of `src/unnamed/part_000` (miner.cpp). They also model the one call into it from the status bar in `src/unnamed/part_001`, and the zerocoin zero-knowledge-proof unit test case that `src/src/qt/overviewpage.h` carries after the page header (lines 69–633). The TLC runs and what they show are listed in `PROJECT.json`.

## The system

The miner code has three parts. They call each other in one direction: driver → assembler → selector. A fourth part, the zkp test case, stands apart.

- **Miner driver.** `GenerateBitcoins` (lines 915–938) stops the old PoW thread group with `interrupt_all` and `join_all`, then starts `nThreads` threads. Each thread runs `ThreadBitcoinMiner` → `BitcoinMiner` (734–870). Each iteration of `BitcoinMiner` does the following:
  - builds a template with `CreateNewBlock`;
  - reserves `nNonce_base++` under `cs_nonce`;
  - under `cs_main`, calls `IncrementExtraNonce` (703–723) with the current tip;
  - searches 0x10000 nonces, with an interruption point in that loop;
  - under `cs_nonce`, logs the hash rate `nHashes/1000/nTimeDuration` (only evaluated under `-debug=blockcreation`) and continues on a miss;
  - submits the block with `ProcessNewBlock`, then calls `coinbaseScript->KeepScript()`.

  Two pieces of state are shared by all threads: `nNonce_base` and the function-static `hashPrevBlock` of `IncrementExtraNonce`. The status bar calls `GenerateBitcoins(res, 1, nullptr)`.
- **Staking driver.** One thread runs `ThreadStakeMiner` (887–907), which calls `BitcoinMiner(nullptr, true, true)` inside a `try` and restarts it after any exception until `ShutdownRequested()`. The PoS branch of `BitcoinMiner` (744–810) does the following on each iteration:
  - snapshots height, tip and best-header time under `cs_main`;
  - sleeps and continues while behind the best header (unless `-genoverride`), during initial block download, or without wallet, peers, staking or PoS height;
  - refreshes the process-wide cache `fMintableCoins` every five minutes;
  - runs the wallet-lock loop, whose body refreshes the cache every minute while it is false and then always `break`s;
  - skips a tip that `mapHashedBlocks` says was hashed less than 60 + rand(20) seconds ago;
  - calls `CreateNewBlock` for a PoS block and submits the result.
- **Block assembler.** `CreateNewBlock` (108–451) runs these steps under `cs_main`:
  1. for PoS, creates the coinstake;
  2. try-locks `mempool.cs`;
  3. runs the package selector;
  4. scans the selected transactions once, for the network-reward reserve and for zerocoin serial and pubcoin duplicates;
  5. rebuilds the list, evicting duplicates and dropping transactions whose inputs are not in `pcoinsTip`;
  6. builds the coinbase from the budget schedule and installs the coinstake;
  7. finishes the header, signs PoS blocks and calls `TestBlockValidity`.
- **Package selector.** `addPackageTxs` (573–700) and its helpers:
  - `TestPackage`, `TestPackageTransactions`, `SkipMapTxEntry`, `SortForBlock`, `UpdatePackagesForAdded`, `AddToBlock`, `onlyUnconfirmed`, `resetBlock`.

  The loop merges two indexes:
  - the mempool's ancestor-score index, walked by the cursor `mi`;
  - `mapModifiedTx`, an overlay of entries whose ancestors are already in the block.

  Failed overlay entries go to `failedTx`. The loop gives up after `MAX_CONSECUTIVE_FAILURES` failures once the block is nearly full.

- **Zerocoin zkp tests.** `bulletproofs_tests` (620–633) runs four suites in order and `BOOST_CHECK`s each: `parameters_tests`, `arithmetic_circuit_tests`, `polynomial_commitment_tests` and `batch_signature_of_knowledge_tests(8, 24, 8)`. It then prints `zSuccessfulTests out of zNumTests`.
  - Every `Test_*` function increments the global `zNumTests`. It fails when its check equals `fReverseTest`, and only a pass increments `zSuccessfulTests`.
  - Call sites accumulate with `finalResult = finalResult & Test_*()`.
  - The batch suite builds lists of signature-of-knowledge proofs: one honest list and four lists with a planted bad proof. It verifies each list with `ThreadedBatchVerify` and expects the four bad lists to be rejected.

  This part does not interact with the miner.

The mempool queries (`CalculateMemPoolAncestors`, `CalculateDescendants`, the ancestor-score comparator) and the chain queries (`IsSerialInBlockchain`, `IsPubcoinInBlockchain`, `GetBlockRewards`) are not in this repository. Their definitions are modelled from the spec and are marked `spec_modelled` in the map. So are the libzerocoin verifiers the tests call (`SerialNumberSoKProof::Verify`, `ThreadedBatchVerify`, `PolynomialCommitment::Verify`). The model states the contract the tests assume of them.

## Modules

| Module | Models | State | Actions |
|---|---|---|---|
| `PackageSelection` | `addPackageTxs` and helpers | `pool` (fixed mempool snapshot), `mapTx` (its ancestor-score order), `mi`, `mapModifiedTx`, `failedTx`, `inBlock`, `vtx`, `nBlockWeight`, `nBlockSigOpsCost`, `nConsecutiveFailed`, `exit`, | one per loop outcome: `SkipEntry`, `FailTestPackage`, `FailTestPackageTransactions`, `AddPackage`, `LeaveLoop` |
| `BlockAssembly` | `CreateNewBlock` after selection | inputs (`tip`, `pos`, per-tx serials, pubcoins, reserve payment, the earlier selected tx it spends (`parent`), an anonymous first input; chain serial heights and pubcoins; prior reserve), then `phase`, `result`, `nHeight`, `coinstake`, `vtx`, `i`, `setSerials`, `setPubcoins`, `setDuplicate`, `reserve`, `vtxReplace`, `evicted`, `coinbase` | `CreateCoinStake`, `SelectPackages`, `ScreenTx` (one iteration of the first loop), `EndScreen`, `RebuildTx` (one iteration of the second loop), `EndRebuild`, `BuildCoinbase`, `Finish` |
| `ZkpTests` | `bulletproofs_tests` and its suites | `library` (how libzerocoin answers), `zNumTests`, `zSuccessfulTests`, `checks` (the `BOOST_CHECK` results), `pc`; the batch suite's `finalResult`, `k`, its lists (`msghashList`, `coinList`, `commitmentList`, `sigList`, `vProofs` and the `...2` lists) and `vLists`, the five lists of the last iteration | one per suite (`ParametersTests`, `ArithmeticCircuitTests`, `PolynomialCommitmentTests`); `BatchStart` (the range guard), `BatchIteration` (one iteration of the `k` loop), `BatchEnd` |
| `StakeDriver` | `ThreadStakeMiner` and the PoS branch of `BitcoinMiner` | environment: `prereq` (wallet, peers, staking, PoS height), `ibd`, `behind`, `locked`, `clockBehind`, `mintable`, `tip`, `shutdown`, `interruptReq`, `override`; process: `fMintableCoins`, `mintableAge`, `hashedAge` (the ages of `nMintableLastCheck` and of each `mapHashedBlocks` entry, in minutes); thread: `pc`, `hashBestBlock` | thread: `LoopHead`, `WaitLoop`, `Throttle`, `CreateBlock`, `OuterLoop`; environment: `Tick` (a minute passes), `EnvChange`, `NetworkBlock`, `RequestShutdown` |
| `SelectionSpec` | what `addPackageTxs` promises `CreateNewBlock` | `pool`, `block`, `done` | `Include` (append transactions, keeping the block admissible), `Finish` |
| `MinerDriver` | PoW `BitcoinMiner`, `IncrementExtraNonce`, `ThreadBitcoinMiner`, `GenerateBitcoins` | `tip`, `fGenerateBitcoins`, `nNonceBase`, static `hashPrevBlock`; per thread `pc`, `coinbaseScript`, `interrupted`, `tmplPrev`, `nNonceLocal`, `cbHeight`, `cbExtraNonce`; `gen` (a `GenerateBitcoins` call between start and `join_all`), `crashed`; `debugLog` (`-debug=blockcreation`), `nTimeStartSet`, `firstSecond` (`GetTime()` still equals the static `nTimeStart`) | per thread `LoopHead`, `ReserveNonce` (also sets `nTimeStart` once), `IncrementExtraNonce`, `SearchNonce` (with the hash-rate division, `HashRateThrows`), `SubmitBlock`; `ClockTick`, `NetworkBlock`; `GenerateStart`, `GenerateJoin` |

How the models are cut into steps:

- **Locked regions are atomic.** One action is one region between lock acquisitions: the `cs_nonce` block, the `cs_main` block around `IncrementExtraNonce`, and `CreateNewBlock` as a whole. A data race would make this unsound; only `fGenerateBitcoins` is raced (see Hazards).
- **One step per loop iteration.** `CreateNewBlock` and `addPackageTxs` run on one thread under `cs_main` and `mempool.cs`, so their models take one step per loop iteration.
- **Inner loops are recursive operators.** The per-hash loops of the screening step are `ScanHashes`. The descendant walk of `UpdatePackagesForAdded` is `UpdateFrom`.
- **Composition.** `BlockAssembly` takes the selector's result as given: the first K transactions of its pool, for every K. Its properties do not depend on which package order produced them. `PackageSelection` checks the selection itself. A composed module, where the assembler screens what the selector chose, is planned.

`SelectionSpec` is the abstract view of the selector: over a fixed pool the block grows only by appending, every prefix is admissible (no duplicates, parents first, all final, strictly within weight and sigops with the coinbase's room reserved), and the call returns. `PackageSelection` defines `Selection == INSTANCE SelectionSpec WITH block <- vtx, done <- (exit # "none")`, and the liveness run checks `SelectionRefinement == Selection!Spec` as a `PROPERTY`. The other constants and `pool` map to themselves.

`StakeDriver` keeps time as ages. The code compares `GetTime()` with two stored timestamps, so the model holds each as an age in whole minutes. The age is capped once it is past every threshold it is compared with (5 and 1 minutes for `nMintableLastCheck`, 60 + rand seconds for `mapHashedBlocks`). `Tick` ages them all. `CreateCoinStake` is outside this repository. Following spec §6, it is modelled as recording the tip in `mapHashedBlocks` whenever it can search (wallet unlocked, mintable coins), then finding a kernel or not.

In `ZkpTests`, each suite is one step: the suites run sequentially on one thread. A suite's `Test_*` calls are a fold of `TestCall` over its checks. What libzerocoin answers is an input:
- `correct`: the answer a correct library gives (honest data verifies, tampered or random data does not);
- `faulty`: any answer.

`eval_tpoly` is translated loop for loop over a small prime field. It is compared with `TOfX`, an independent reference that uses no modular inverse. Random values (`randBignum`, `PrivateCoin`, `Commitment`) are fresh identities from a counter. Collisions of 256-bit random values are ignored.

Every MC module (`MCPackageSelection`, `MCBlockAssembly`, `MCMinerDriver`, `MCStakeDriver`, `MCZkpTests`) gives the model values and small sets. `MCBlockAssembly` also defines a budget schedule whose heights cover every row of the coinbase table.

## Runs

Passing runs:

- `PackageSelection.cfg` checks `TypeOK`, `BlockOrderValid`, `BlockWithinLimits`, `ModifiedOverlaySound` and `NoFittingPackageLeft`.
  - It covers every mempool DAG over three transactions, with fees {0,3}, sizes {1,2} and weight 4·size.
  - Transactions may be non-final or carry sigops, so packages fail on weight, on sigop cost and on finality, and `FailTestPackageTransactions` fires.
  - The coinbase reservation is 6 and the limit is 22. This puts the give-up exit (`MAX_CONSECUTIVE_FAILURES` = 0, block nearly full) within reach.
  - `ModifiedOverlaySound` states what the overlay holds, including the stale case described under Hazards.
  - `NoFittingPackageLeft`: when the loop ends, a package that fits was left out only if the loop gave up with less than the coinbase reservation of room. Two mutants break it. One re-inserts only children into the overlay, so a failed entry is never re-tried. The other gives up after a failure without the nearly-full test.
- `PackageSelectionLiveness.cfg` checks `SelectionRefinement`: `PackageSelection` implements `SelectionSpec`.
  - Every iteration leaves `vtx` alone or appends a package that keeps the block admissible.
  - The exit is final, and the loop returns on every pool over three transactions (fees {0,1}, no sigops).
  - A mutant that keeps a failed overlay entry never returns. A mutant that adds a candidate without its ancestors breaks the step relation.
- `StakeDriver.cfg` checks `StakesWhenReady` and `StopsOnShutdown`.
  - One staking thread over two tips; every combination of the environment flags, changing at any time, and both values of `-genoverride`.
  - If the node stays ready to stake, the thread attempts stakes forever: a stale `fMintableCoins` is refreshed, and the `mapHashedBlocks` throttle expires.
  - After a shutdown request the thread exits, wherever the interruption reaches it.
- `MinerDriver.cfg` checks `TypeOK` and `GenerateReturns`.
  - Two thread slots, a chain of one new block, callers passing the wallet script, and debug logging off and on.
  - Every call returns: each interrupted thread reaches an interruption point or the loop condition, so `join_all` ends. That no thread runs after a stop call needs no property of its own; it is the guard of `GenerateJoin`. This holds also when threads have already ended through the hash-rate exception.
- `BlockAssembly.cfg` checks `NoDuplicateSerials` and `CoinbaseMatchesSchedule`.
  - Two selected transactions, two serials and one pubcoin.
  - Chain spends at every earlier height, PoW and PoS, and tips on all four budget heights.
  - A returned template holds no duplicate or already-spent serial or pubcoin.
  - Its coinbase outputs are exactly the spec's table: miner, budget, lab and founder, by PoS, budget and founder.

- `ZkpTests.cfg` checks `ReportConsistent`, `EveryTestRuns`, `CorrectLibraryPasses` and `OneBadProofPerReversedList`.
  - Both library modes; the batch suite scaled from (8, 24, 8) to (2, 6, 2), which keeps start = step and three iterations; q = 5 and one coefficient block on each side of x^0.
  - Whatever the library answers, the printed counters say "all passed" exactly when every `BOOST_CHECK` passed, and every `Test_*` call runs (11 + 5 per iteration).
  - Against a correct library the whole test case passes. This covers `eval_tpoly` for every polynomial and every non-zero x.
  - The four lists for reversed tests each hold exactly one bad proof, as the comments at lines 580 and 586 say, and the honest list holds none.

Runs that find a disagreement (details in `PROJECT.json` "findings"):

- `MinerDriverDebugExit.cfg`: `MinersKeepRunning`. Under `-debug=blockcreation`, the hash-rate log line divides by `nTimeDuration` = 0. `nTimeStart` is a process-wide static set once, at the first nonce reservation, so this happens for searches that end in the first second after it. `arith_uint256` throws, `ThreadBitcoinMiner` catches the exception, and the thread ends with `fGenerateBitcoins` still true (7 steps: start, template, reserve, extra nonce, search). On regtest, where a block is found at once, this is the normal case.
- `MinerDriverNullScript.cfg`: `NoNullScriptKept`. The status bar's `nullptr` script is dereferenced after an accepted block. `ProcessNewBlock` also accepts a valid block on a side branch (a network block arrived meanwhile), so `SubmitBlock` reaches line 868 on that path too. Only a block extending the tip moves it.
- `BlockAssemblyReserve.cfg`: `ReserveCountsOnlyIncluded`. The reserve counts transactions later dropped for missing inputs. In the trace, tx 2 spends an output of tx 1, placed before it by `addPackageTxs`. `viewCheck` only sees `pcoinsTip`, so tx 2 is dropped but its reward output stays in the reserve.
- `BlockAssemblyEviction.cfg`: `NoNeedlessEviction`. Serials emplaced before a duplicate was found cause another transaction's eviction.
- `BlockAssemblyHeight.cfg`: `CoinbaseHeightIsTemplateHeight`. `IsSerialInBlockchain` writes the spend height into `nHeight`.
- `BlockAssemblyCoinstake.cfg`: `SelectedTxsKept`. The PoS coinstake overwrites the first selected transaction.

Every property of a passing run has a mutant in `PROJECT.json`: a plausible code bug that TLC finds under that run's config.

## Bounds and why they are enough

- **Selector.** Three transactions give:
  - chains and diamonds;
  - a parent with two children, which is the smallest case where the overlay changes twice;
  - packages that fail and are re-inserted.

  Sizes and limits are chosen so that exact fits, near-full blocks and both exits all occur.
- **Driver.**
  - Two threads are the smallest case for every shared-state race.
  - `MaxHeight` = 1 lets a network block arrive while a thread mines (its template goes stale), or lets the thread's own block be accepted. The lifecycle properties do not depend on the height, and `MinerDriverNullScript.cfg` keeps 2.
  - `MaxNonceBase` saturates the counter. No property depends on its value beyond 4.
  - Time is one bit: still in the second of `nTimeStart`, or later. Only the difference `nTimeDuration` = 0 is tested by the code.
- **Assembler.**
  - Two transactions and two serials let one transaction hold both serials while another holds one.
  - Chain heights below the tip give the overwrite a value different from the template height.
  - A transaction's `parent` is an earlier selected one, because the model's selection is a prefix of `Txs` and `addPackageTxs` places ancestors first. The passing run also lets the first input be anonymous, which exempts a transaction from the inputs test.

- **Staking driver.**
  - Two tips let a block arrive between the snapshot and `CreateNewBlock`, and let the thread's own block become the tip.
  - Ages are capped at 6 and 2 minutes, one past the largest threshold each is compared with. An older age behaves the same in every test.
  - `rand` takes 0 and 19 only: with ages in whole minutes these give every outcome of the throttle test.
- **Zkp tests.** Step = 2 makes the inner loops' reuse of the first `step` coins visible. Three iterations let the list grow past its first block, so the index `k - 1` of line 593 lands in a later block. q = 5 with a three-coefficient `tpoly` enumerates all 25 polynomials and all 4 non-zero points.

## Fairness

- `addPackageTxs` and `CreateNewBlock` never wait once they hold their locks. Their specs carry weak fairness on `Next`.
- Each miner thread is an OS thread, and so is the thread blocked in `join_all`. `MinerDriver` has weak fairness per thread and on `GenerateJoin`.
- `ZkpTests` checks only invariants. The test case ends, so its run does not check deadlock.
- The staking thread is an OS thread that sleeps but never blocks forever, and time passes. `StakeDriver` has weak fairness on the thread's steps and on `Tick`. The environment's changes have none, so `StakesWhenReady` assumes that readiness eventually holds for good.
- Network blocks and new `GenerateBitcoins` calls have no fairness: they may never happen.
- A failing `CreateNewBlock` (for example, the mempool `TRY_LOCK` busy) is a stuttering step in the model. Weak fairness per thread then makes the thread take another enabled step: leave when interrupted, otherwise build a template. No checked property needs a template to be built. `GenerateReturns` holds because an interrupted thread can always leave at the loop head.
- The clock step `ClockTick` has no fairness. Properties must then hold even if the first second never ends, which is the stronger check.

## Hazards

`PROJECT.json` lists each hazard at its line, with the properties that cover it.

- `UpdatePackagesForAdded` re-inserts a failed overlay entry from the mempool's cached aggregates. Those aggregates still count ancestors already in the block, so the entry over-counts.
  - The code is still safe, because it never under-counts size or sigops.
  - `ModifiedOverlaySound` states exactly that.
- `IncrementExtraNonce` is passed `chainActive.Tip()` read under a later `cs_main` than the template's. A block arriving in between gives the coinbase the new tip's height. The template is then stale anyway, so no run checks this; it only turns an orphan into an invalid block.
- `TestPackage` rejects a package that fills the block exactly (`>=`). Spec §4.1 prescribes this strict test, but the boundary case of spec §8 expects the exact fit to be included. The code follows §4.1, and `BlockWithinLimits` checks the limit it keeps.
- `batch_signature_of_knowledge_tests` writes `vProofs_threaded5[k - 1]` unchecked, and its loop counter is an `unsigned int`. Out-of-range or wrapping arguments would break either, but the one call passes (8, 24, 8), where neither can happen. They are not hazards of this code, and the model assumes start ≤ step.
- The same test's inner loops run `i` over `0..step-1`. Every iteration therefore re-signs the first `step` coins, and the lists said to hold k signatures hold only `step` distinct proofs.
- Ancestor-feerate selection does not accept packages in non-increasing feerate, although spec §8 lists that as an invariant. Take `tx1` with children `tx2` and `tx3`, with fees 0, 1, 1 and sizes 1. Then `{tx1, tx2}` is accepted at 1/2, and `tx3` follows at 1. This is the usual behaviour of the algorithm, so no run keeps the property. The hazard note in `PROJECT.json` records it.
- The staking thread's wallet-lock loop ends in an unconditional `break` (spec §9(d)). `WaitLoopBreak` models it: a locked wallet or a clock behind the tip costs one 2.5 s sleep, and then `CreateNewBlock` is attempted anyway. Only a still-false `fMintableCoins` sends the thread back. The cost is a stake attempt every few seconds while the wallet is locked. No property checks this: `StakesWhenReady` assumes readiness, which excludes a locked wallet.
- `!genoverride && behind || IsInitialBlockDownload()` parses as `(!genoverride && behind) || IBD`. So for staking, `-genoverride` never bypasses initial block download, although spec §6 says it bypasses both gates. The PoW branch does bypass it. `LoopHead` keeps the C++ precedence. No property checks it, since `Ready` excludes initial block download.
- `IncrementExtraNonce` resets the extra nonce whenever its static `hashPrevBlock` changes, which discards the `nNonce_base` value the thread reserved. The first thread on a new tip and a thread that reserved 0 both get extra nonce 1. Spec §8 scenario 6 says threads on one tip get distinct extra nonces. The model keeps the reset. Two such threads only hash the same work, so no run checks it.
- `fGenerateBitcoins` is a plain `bool` raced between `GenerateBitcoins` and the miner threads. The model treats it as atomic.

## Not modelled, and why

- In the staking driver: the `mapStakeHashCounter` / `nStakeHashesLast` logging, the kernel search inside `CreateCoinStake`, and sleep durations other than as steps.
- The value of the hash-rate statistic (`nHashes`). Only the division's zero divisor is modelled.
- From `CreateNewBlock`:
  - header time, version, `nBits`, Merkle roots, accumulator checkpoints and the full-node hash: these are hash and time computations no property distinguishes;
  - the fee and sigop vectors of the template.
- `UpdateTime` and the `BlockAssembler` options. The clamped maximum weight is a constant.
- Qt widget code: `qtutils.cpp`, the `OverviewPage` declaration (`overviewpage.h` lines 1–68) and the rest of the status bar.
  - The `qtutils.cpp` helpers only call Qt: window flags, show, raise, a 250–300 ms slide animation and a modal `exec`.
  - The only arithmetic is an animation's start and end point, computed from widget sizes and from divisors that callers outside this repository pass.
  - There is no state of the code's own for a property to speak about.
- In the zkp tests: the cryptography itself (libzerocoin), `printTime` (timing output) and `Test_batchVerify` (never called). The `inner_product_argument_tests` case is commented out.

## Plan for later work

1. The fee vectors in `BlockAssembly`.
2. A composed `Assembler` that instances `PackageSelection` and feeds its `vtx` to the screening loop.
3. An abstract view of the miner driver: every accepted block's coinbase is unique.
