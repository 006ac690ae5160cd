\* The loop implements SelectionSpec, termination included, over every small pool
\* the fairness check fast).
CONSTANTS
    Txs <- MCTxs
    Fees = {0, 1}
    Sizes <- MCSizes
    SigOps = {0}
    Finality = {TRUE}
    WitnessScale = 4
    BlockMaxWeight = 20
    MaxBlockSigOpsCost = 4
    CoinbaseWeight = 4
    CoinbaseSigOps = 1
    MaxConsecutiveFailures = 1
    FailureBound = 6
SPECIFICATION Spec
PROPERTIES
    SelectionRefinement
CHECK_DEADLOCK FALSE
