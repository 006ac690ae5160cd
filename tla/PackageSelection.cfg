\* Three transactions, every DAG of parents over them, fees and sizes that
\* tie, differ and reorder as ancestors are included, room for two or three
\* of them; transactions may be non-final and may carry sigops, so packages
\* fail on weight, on sigop cost and on finality.
CONSTANTS
    Txs <- MCTxs
    Fees = {0, 3}
    Sizes <- MCSizes
    SigOps = {0, 2}
    Finality = {TRUE, FALSE}
    WitnessScale = 4
    BlockMaxWeight = 22
    MaxBlockSigOpsCost = 4
    CoinbaseWeight = 6
    CoinbaseSigOps = 1
    MaxConsecutiveFailures = 0
    FailureBound = 6
SPECIFICATION Spec
INVARIANTS
    TypeOK
    BlockOrderValid
    BlockWithinLimits
    ModifiedOverlaySound
    NoFittingPackageLeft
CHECK_DEADLOCK FALSE
