\* Expected violation of ReserveCountsOnlyIncluded.
CONSTANTS
    N = 2
    Serials = {}
    Pubcoins = {}
    RewardValues = {0, 1}
    PriorReserves = {0}
    MaxNetworkReward = 3
    Tips = {2, 3}
    PoSStart = 2
    Budget <- MCBudget
    Modes = {FALSE}
    MempoolChains = {FALSE, TRUE}
    AnonInputs = {FALSE}
SPECIFICATION Spec
INVARIANTS
    ReserveCountsOnlyIncluded
CHECK_DEADLOCK FALSE
