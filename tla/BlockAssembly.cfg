\* Privacy screening and the coinbase: two selected transactions with two
\* serials and one pubcoin between them, spends already on chain at any
\* earlier height, PoW and PoS, tips on every row of the budget schedule.
CONSTANTS
    N = 2
    Serials = {1, 2}
    Pubcoins = {1}
    RewardValues = {0}
    PriorReserves = {0, 5}
    MaxNetworkReward = 3
    Tips = {0, 1, 2, 3}
    PoSStart = 2
    Budget <- MCBudget
    Modes = {FALSE, TRUE}
    MempoolChains = {FALSE, TRUE}
    AnonInputs = {FALSE, TRUE}
SPECIFICATION Spec
INVARIANTS
    TypeOK
    NoDuplicateSerials
    CoinbaseMatchesSchedule
CHECK_DEADLOCK FALSE
