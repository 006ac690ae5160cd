-------------------------- MODULE PackageSelection --------------------------
(***************************************************************************)
(* The package selector of BlockAssembler (miner.cpp): addPackageTxs and   *)
(* the helpers it calls.  One step of the model is one iteration of the    *)
(* while loop of addPackageTxs.  The mempool snapshot is fixed for the     *)
(* whole call (mempool.cs is held), so it is chosen once in Init from all  *)
(* small pools: a DAG of parents over Txs and, per transaction, its        *)
(* modified fee, size, sigop cost and whether it passes the finality and   *)
(* witness test.                                                           *)
(***************************************************************************)
EXTENDS Integers, FiniteSets, Sequences, TLC

LOCAL SE == INSTANCE SequencesExt

CONSTANTS
    Txs,                    \* transaction handles; their order is the hash order
    Fees, Sizes, SigOps,    \* values a transaction's fee, size, sigop cost take
    Finality,               \* values IsFinalTx/witness test may return
    WitnessScale,           \* WITNESS_SCALE_FACTOR
    BlockMaxWeight,         \* nBlockMaxWeight after the constructor's clamp
    MaxBlockSigOpsCost,     \* MAX_BLOCK_SIGOPS_COST
    CoinbaseWeight,         \* weight reserved by resetBlock (4000)
    CoinbaseSigOps,         \* sigop cost reserved by resetBlock (400)
    MaxConsecutiveFailures, \* MAX_CONSECUTIVE_FAILURES
    FailureBound            \* model bound on nConsecutiveFailed

ASSUME /\ Txs \subseteq Nat /\ Txs # {}
       /\ FailureBound > MaxConsecutiveFailures

VARIABLES
    pool,            \* the mempool snapshot
    mapTx,           \* its ancestor_score index, fixed for the call
    mi,              \* cursor into the ancestor_score index of mapTx
    mapModifiedTx,   \* tx -> ancestor aggregates corrected for inBlock
    failedTx,
    inBlock,
    vtx,             \* block transactions after the coinbase, in order
    nBlockWeight,
    nBlockSigOpsCost,
    nConsecutiveFailed,
    exit             \* how addPackageTxs left its loop, "none" while in it

vars == <<pool, mapTx, mi, mapModifiedTx, failedTx, inBlock, vtx, nBlockWeight,
          nBlockSigOpsCost, nConsecutiveFailed, exit>>

-----------------------------------------------------------------------------
(* Mempool queries (txmempool.cpp, not part of this repository).          *)

RECURSIVE Reach(_, _, _)
Reach(par, S, n) ==
    IF n = 0 THEN S ELSE Reach(par, S \cup UNION {par[x] : x \in S}, n - 1)

AncestorsIn(par, t) == Reach(par, par[t], Cardinality(Txs))

Pools ==
    { p \in [fee : [Txs -> Fees], size : [Txs -> Sizes],
             sigops : [Txs -> SigOps], final : [Txs -> Finality],
             parents : [Txs -> SUBSET Txs]] :
        \A t \in Txs : t \notin AncestorsIn(p.parents, t) }

\* CalculateMemPoolAncestors with no limits
Ancestors(t) == AncestorsIn(pool.parents, t)

\* CalculateDescendants (the descendants, including t itself)
Descendants(t) == {d \in Txs : t \in Ancestors(d)} \cup {t}

SumOver(S, f) == SE!MapThenSumSet(LAMBDA x : f[x], S)

Aggregate(S) ==
    [size |-> SumOver(S, pool.size), fee |-> SumOver(S, pool.fee),
     sigops |-> SumOver(S, pool.sigops)]

\* CTxMemPoolModifiedEntry(iter): the entry's cached ancestor aggregates
RawEntry(t) == Aggregate(Ancestors(t) \cup {t})

\* CompareTxMemPoolEntryByAncestorFee: higher feerate with ancestors first,
\* ties broken by hash.
Better(a, ta, b, tb) ==
    \/ a.fee * b.size > b.fee * a.size
    \/ a.fee * b.size = b.fee * a.size /\ ta < tb

\* mempool.mapTx.get<ancestor_score>()
SortByAncestorScore ==
    SortSeq(SE!SetToSeq(Txs), LAMBDA x, y : Better(RawEntry(x), x, RawEntry(y), y))

-----------------------------------------------------------------------------
(* BlockAssembler helpers.                                                *)

\* Mutant: the weight test admits a block that reaches the limit.
TestPackageAtLimit(packageSize, packageSigOpsCost) ==
    /\ nBlockWeight + WitnessScale * packageSize <= BlockMaxWeight
    /\ nBlockSigOpsCost + packageSigOpsCost < MaxBlockSigOpsCost

TestPackage(packageSize, packageSigOpsCost) ==
    /\ nBlockWeight + WitnessScale * packageSize < BlockMaxWeight
    /\ nBlockSigOpsCost + packageSigOpsCost < MaxBlockSigOpsCost

TestPackageTransactions(package) == \A t \in package : pool.final[t]

SkipMapTxEntry(t) ==
    t \in DOMAIN mapModifiedTx \/ t \in inBlock \/ t \in failedTx

\* Mutant: the ancestor-count comparator is reversed.
SortForBlockReversed(package) ==
    { s \in [1..Cardinality(package) -> package] :
        /\ \A i, j \in DOMAIN s : i # j => s[i] # s[j]
        /\ \A i, j \in DOMAIN s :
              i < j => Cardinality(Ancestors(s[i])) >= Cardinality(Ancestors(s[j])) }

\* SortForBlock: any order std::sort may produce with CompareTxIterByAncestorCount
SortForBlock(package) ==
    { s \in [1..Cardinality(package) -> package] :
        /\ \A i, j \in DOMAIN s : i # j => s[i] # s[j]
        /\ \A i, j \in DOMAIN s :
              i < j => Cardinality(Ancestors(s[i])) <= Cardinality(Ancestors(s[j])) }

Minus(e, a) ==
    [size |-> e.size - pool.size[a], fee |-> e.fee - pool.fee[a],
     sigops |-> e.sigops - pool.sigops[a]]

RECURSIVE UpdateFrom(_, _, _)
UpdateFrom(todo, alreadyAdded, mod) ==
    IF todo = {} THEN mod
    ELSE LET a == CHOOSE x \in todo : TRUE
             D == Descendants(a) \ alreadyAdded
             next == [d \in DOMAIN mod \cup D |->
                        IF d \notin D THEN mod[d]
                        ELSE IF d \in DOMAIN mod THEN Minus(mod[d], a)
                        ELSE Minus(RawEntry(d), a)]
         IN UpdateFrom(todo \ {a}, alreadyAdded, next)

\* Mutant: descendants that were themselves just added are not skipped.
UpdatePackagesKeepAdded(alreadyAdded, mod) == UpdateFrom(alreadyAdded, {}, mod)

\* Mutant: only direct children are updated, not all descendants.
UpdatePackagesChildrenOnly(alreadyAdded, mod) ==
    LET D == {d \in Txs \ alreadyAdded : pool.parents[d] \cap alreadyAdded # {}}
    IN  [d \in DOMAIN mod \cup D |->
           LET base == IF d \in DOMAIN mod THEN mod[d] ELSE RawEntry(d)
               added == pool.parents[d] \cap alreadyAdded
           IN  IF d \notin D THEN mod[d]
               ELSE [size |-> base.size - SumOver(added, pool.size),
                     fee |-> base.fee - SumOver(added, pool.fee),
                     sigops |-> base.sigops - SumOver(added, pool.sigops)]]

UpdatePackagesForAdded(alreadyAdded, mod) == UpdateFrom(alreadyAdded, alreadyAdded, mod)

-----------------------------------------------------------------------------
(* addPackageTxs (miner.cpp).                                             *)

EmptyMap == [t \in {} |-> [size |-> 0, fee |-> 0, sigops |-> 0]]

Init ==
    /\ pool \in Pools
    /\ mapTx = SortByAncestorScore
    /\ mi = 1
    /\ failedTx = {}
    \* resetBlock
    /\ inBlock = {}
    /\ vtx = <<>>
    /\ nBlockWeight = CoinbaseWeight
    /\ nBlockSigOpsCost = CoinbaseSigOps
    \* UpdatePackagesForAdded(inBlock, mapModifiedTx) with inBlock empty
    /\ mapModifiedTx = UpdatePackagesForAdded(inBlock, EmptyMap)
    /\ nConsecutiveFailed = 0
    /\ exit = "none"

MapTxEnd == mi > Len(mapTx)

LoopRunning == exit = "none" /\ (~MapTxEnd \/ DOMAIN mapModifiedTx # {})

\* mapModifiedTx.get<ancestor_score>().begin()
ModBest ==
    CHOOSE t \in DOMAIN mapModifiedTx :
        \A u \in DOMAIN mapModifiedTx \ {t} :
            Better(mapModifiedTx[t], t, mapModifiedTx[u], u)

\* Mutant: ++mi also when the candidate comes from mapModifiedTx.
CandidateAdvancing ==
    LET FromModified == [tx |-> ModBest, entry |-> mapModifiedTx[ModBest],
                         usingModified |-> TRUE, nextMi |-> mi + 1]
        r == mapTx[mi]
        FromMapTx == [tx |-> r, entry |-> RawEntry(r),
                      usingModified |-> FALSE, nextMi |-> mi + 1]
    IN  IF MapTxEnd THEN FromModified
        ELSE IF DOMAIN mapModifiedTx # {}
                /\ Better(mapModifiedTx[ModBest], ModBest, RawEntry(r), r)
             THEN FromModified
             ELSE FromMapTx

\* The transaction the loop evaluates, the aggregates it tests, and where mi
\* moves: the best of mapModifiedTx when mapTx is exhausted or when it beats
\* the mapTx entry, else the mapTx entry.
Candidate ==
    LET FromModified == [tx |-> ModBest, entry |-> mapModifiedTx[ModBest],
                         usingModified |-> TRUE, nextMi |-> mi]
        r == mapTx[mi]
        FromMapTx == [tx |-> r, entry |-> RawEntry(r),
                      usingModified |-> FALSE, nextMi |-> mi + 1]
    IN  IF MapTxEnd THEN FromModified
        ELSE IF DOMAIN mapModifiedTx # {}
                /\ Better(mapModifiedTx[ModBest], ModBest, RawEntry(r), r)
             THEN FromModified
             ELSE FromMapTx

\* CalculateMemPoolAncestors, onlyUnconfirmed, then the candidate itself
Package(t) == (Ancestors(t) \ inBlock) \cup {t}

\* Mutant: a failed mapModifiedTx entry is marked failed but not erased.
DropFailedKeepsEntry(c) ==
    IF c.usingModified
    THEN /\ failedTx' = failedTx \cup {c.tx}
         /\ UNCHANGED mapModifiedTx
    ELSE UNCHANGED <<mapModifiedTx, failedTx>>

\* A failed candidate taken from mapModifiedTx is erased and marked failed.
DropFailed(c) ==
    IF c.usingModified
    THEN /\ mapModifiedTx' = [t \in DOMAIN mapModifiedTx \ {c.tx} |-> mapModifiedTx[t]]
         /\ failedTx' = failedTx \cup {c.tx}
    ELSE UNCHANGED <<mapModifiedTx, failedTx>>

\* the mapTx entry under mi is in a block, in mapModifiedTx or failed
StaleEntry == ~MapTxEnd /\ SkipMapTxEntry(mapTx[mi])

SkipEntry ==
    /\ LoopRunning
    /\ StaleEntry
    /\ mi' = mi + 1
    /\ UNCHANGED <<pool, mapTx, mapModifiedTx, failedTx, inBlock, vtx, nBlockWeight,
                   nBlockSigOpsCost, nConsecutiveFailed, exit>>

Evaluating ==
    /\ LoopRunning
    /\ ~StaleEntry

\* Mutant: the give-up test without the nearly-full condition.
FailTestPackageNotNearlyFull ==
    /\ Evaluating
    /\ nConsecutiveFailed < FailureBound
    /\ LET c == Candidate IN
       /\ ~TestPackage(c.entry.size, c.entry.sigops)
       /\ DropFailed(c)
       /\ mi' = c.nextMi
       /\ nConsecutiveFailed' = nConsecutiveFailed + 1
       /\ exit' = IF nConsecutiveFailed + 1 > MaxConsecutiveFailures
                  THEN "gaveUp" ELSE "none"
    /\ UNCHANGED <<pool, mapTx, inBlock, vtx, nBlockWeight, nBlockSigOpsCost>>

FailTestPackage ==
    /\ Evaluating
    /\ nConsecutiveFailed < FailureBound
    /\ LET c == Candidate IN
       /\ ~TestPackage(c.entry.size, c.entry.sigops)
       /\ DropFailed(c)
       /\ mi' = c.nextMi
       /\ nConsecutiveFailed' = nConsecutiveFailed + 1
       /\ exit' = IF nConsecutiveFailed + 1 > MaxConsecutiveFailures
                     /\ nBlockWeight > BlockMaxWeight - CoinbaseWeight
                  THEN "gaveUp" ELSE "none"
    /\ UNCHANGED <<pool, mapTx, inBlock, vtx, nBlockWeight, nBlockSigOpsCost>>

FailTestPackageTransactions ==
    /\ Evaluating
    /\ LET c == Candidate IN
       /\ TestPackage(c.entry.size, c.entry.sigops)
       /\ ~TestPackageTransactions(Package(c.tx))
       /\ DropFailed(c)
       /\ mi' = c.nextMi
    /\ UNCHANGED <<pool, mapTx, inBlock, vtx, nBlockWeight, nBlockSigOpsCost,
                   nConsecutiveFailed, exit>>

\* The package is sorted, each entry added with AddToBlock and erased from
\* mapModifiedTx, then its descendants are updated.
AddPackage ==
    /\ Evaluating
    /\ LET c == Candidate
           pkg == Package(c.tx)
           rest == [t \in DOMAIN mapModifiedTx \ pkg |-> mapModifiedTx[t]]
       IN
       /\ TestPackage(c.entry.size, c.entry.sigops)
       /\ TestPackageTransactions(pkg)
       /\ \E sorted \in SortForBlock(pkg) : vtx' = vtx \o sorted
       /\ inBlock' = inBlock \cup pkg
       /\ nBlockWeight' = nBlockWeight + WitnessScale * Aggregate(pkg).size
       /\ nBlockSigOpsCost' = nBlockSigOpsCost + Aggregate(pkg).sigops
       /\ mapModifiedTx' = UpdatePackagesForAdded(pkg, rest)
       /\ mi' = c.nextMi
    /\ nConsecutiveFailed' = 0
    /\ UNCHANGED <<pool, mapTx, failedTx, exit>>

LeaveLoop ==
    /\ exit = "none"
    /\ MapTxEnd
    /\ DOMAIN mapModifiedTx = {}
    /\ exit' = "exhausted"
    /\ UNCHANGED <<pool, mapTx, mi, mapModifiedTx, failedTx, inBlock, vtx, nBlockWeight,
                   nBlockSigOpsCost, nConsecutiveFailed>>

Next ==
    \/ SkipEntry
    \/ FailTestPackage
    \/ FailTestPackageTransactions
    \/ AddPackage
    \/ LeaveLoop

\* addPackageTxs runs on one thread holding cs_main and mempool.cs and never
\* waits, so every enabled iteration is eventually taken.
Spec == Init /\ [][Next]_vars /\ WF_vars(Next)

-----------------------------------------------------------------------------
(* Properties.                                                            *)

Entries == [size : Int, fee : Int, sigops : Int]

TypeOK ==
    /\ pool \in [fee : [Txs -> Fees], size : [Txs -> Sizes],
                 sigops : [Txs -> SigOps], final : [Txs -> Finality],
                 parents : [Txs -> SUBSET Txs]]
    /\ mapTx \in Seq(Txs) /\ Len(mapTx) = Cardinality(Txs)
    /\ mi \in 1..Cardinality(Txs) + 1
    /\ DOMAIN mapModifiedTx \subseteq Txs
    /\ \A t \in DOMAIN mapModifiedTx : mapModifiedTx[t] \in Entries
    /\ failedTx \subseteq Txs /\ inBlock \subseteq Txs
    /\ vtx \in Seq(Txs)
    /\ nBlockWeight \in Int /\ nBlockSigOpsCost \in Int
    /\ nConsecutiveFailed \in 0..FailureBound
    /\ exit \in {"none", "exhausted", "gaveUp"}

\* Every transaction is in the block at most once, after all of its mempool
\* ancestors (the order SortForBlock gives each package, and the packages
\* being taken with onlyUnconfirmed ancestors).
BlockOrderValid ==
    /\ \A i, j \in DOMAIN vtx : i # j => vtx[i] # vtx[j]
    /\ \A i \in DOMAIN vtx : \A a \in Ancestors(vtx[i]) :
          \E j \in 1..i - 1 : vtx[j] = a

\* The block's running totals equal what its transactions weigh, and stay
\* strictly under the limits, leaving the coinbase its reserved room
\* (TestPackage against AddToBlock's accounting).
BlockWithinLimits ==
    LET inVtx == {vtx[i] : i \in DOMAIN vtx} IN
    /\ nBlockWeight = CoinbaseWeight + WitnessScale * Aggregate(inVtx).size
    /\ nBlockSigOpsCost = CoinbaseSigOps + Aggregate(inVtx).sigops
    /\ nBlockWeight < BlockMaxWeight
    /\ nBlockSigOpsCost < MaxBlockSigOpsCost

\* No entry of mapModifiedTx is in the block, and each holds the aggregates
\* of the package that would be added for it now: the entry and its
\* ancestors not yet in the block.  The one exception is an entry that
\* failed and was re-inserted by UpdatePackagesForAdded: it is rebuilt from
\* the mempool's aggregates, so it still counts the ancestors included before
\* it failed, but it never under-counts size or sigops, so a re-evaluation
\* can never let through a package that does not fit.
ModifiedOverlaySound ==
    \A t \in DOMAIN mapModifiedTx :
        LET e == mapModifiedTx[t]
            a == Aggregate(Package(t))
        IN  /\ t \notin inBlock
            /\ IF t \in failedTx THEN e.size >= a.size /\ e.sigops >= a.sigops
                                 ELSE e = a

\* A transaction left out of the block whose package would pass TestPackage
\* and TestPackageTransactions.
FitsButLeftOut(t) ==
    /\ t \notin inBlock
    /\ LET a == Aggregate(Package(t)) IN
       TestPackage(a.size, a.sigops) /\ TestPackageTransactions(Package(t))

\* When the loop has ended, a package that fits was left out only because the
\* loop gave up with less than the coinbase's 4000 weight units of room
\* left: when both indexes run out, failed overlay entries have been
\* re-tried through UpdatePackagesForAdded, and a run of failures alone,
\* with room in the block, never ends the loop.
NoFittingPackageLeft ==
    (exit # "none" /\ \E t \in Txs : FitsButLeftOut(t)) =>
        /\ exit = "gaveUp"
        /\ BlockMaxWeight - nBlockWeight < CoinbaseWeight

\* addPackageTxs implements SelectionSpec: every iteration either leaves vtx
\* alone or appends a package that keeps the block admissible, the loop's exit
\* is final, and the call returns under the fairness of Spec.  This is the
\* whole loop measured against its contract, including termination (a failed
\* candidate must leave both indexes, or the loop never ends).
Selection == INSTANCE SelectionSpec WITH block <- vtx, done <- (exit # "none")

SelectionRefinement == Selection!Spec

=============================================================================
