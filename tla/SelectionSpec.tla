--------------------------- MODULE SelectionSpec ---------------------------
(***************************************************************************)
(* What addPackageTxs promises CreateNewBlock, with no mention of how the  *)
(* packages are found: over a fixed mempool snapshot, the block only ever  *)
(* grows by appending transactions; every prefix of it is a valid block   *)
(* body (no transaction twice, each after its mempool parents, all final,  *)
(* strictly under the weight and sigop limits with the coinbase's room    *)
(* reserved); and the call returns.  PackageSelection implements it under *)
(* the mapping block <- vtx, done <- (exit # "none").                      *)
(***************************************************************************)
EXTENDS Integers, FiniteSets, Sequences

LOCAL SE == INSTANCE SequencesExt

CONSTANTS
    Txs,
    WitnessScale,
    BlockMaxWeight,
    MaxBlockSigOpsCost,
    CoinbaseWeight,
    CoinbaseSigOps

VARIABLES
    pool,    \* the mempool snapshot, never changed by the call
    block,   \* transactions after the coinbase, in block order
    done     \* the call has returned

vars == <<pool, block, done>>

TxsOf(b) == {b[i] : i \in DOMAIN b}

BlockWeight(b) ==
    CoinbaseWeight + WitnessScale * SE!MapThenSumSet(LAMBDA t : pool.size[t], TxsOf(b))

BlockSigOpsCost(b) ==
    CoinbaseSigOps + SE!MapThenSumSet(LAMBDA t : pool.sigops[t], TxsOf(b))

\* each transaction comes after all of its in-mempool parents
ParentsFirst(b) ==
    \A i \in DOMAIN b : \A p \in pool.parents[b[i]] : \E j \in 1..i - 1 : b[j] = p

Admissible(b) ==
    /\ SE!IsInjective(b)
    /\ ParentsFirst(b)
    /\ \A t \in TxsOf(b) : pool.final[t]
    /\ BlockWeight(b) < BlockMaxWeight
    /\ BlockSigOpsCost(b) < MaxBlockSigOpsCost

Init ==
    /\ block = <<>>
    /\ ~done

\* one or more transactions are appended, and the block stays admissible
Include ==
    /\ ~done
    /\ Len(block') > Len(block)
    /\ SE!IsPrefix(block, block')
    /\ Admissible(block')
    /\ UNCHANGED <<pool, done>>

Finish ==
    /\ ~done
    /\ done' = TRUE
    /\ UNCHANGED <<pool, block>>

Next == Include \/ Finish

\* Returning is always possible, so the call eventually returns.
Spec == Init /\ [][Next]_vars /\ WF_vars(Finish)

=============================================================================
