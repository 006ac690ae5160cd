\* Expected violation of NoNeedlessEviction.
CONSTANTS
    N = 2
    Serials = {1, 2}
    Pubcoins = {}
    RewardValues = {0}
    PriorReserves = {0}
    MaxNetworkReward = 3
    Tips = {2, 3}
    PoSStart = 2
    Budget <- MCBudget
    Modes = {FALSE}
    MempoolChains = {FALSE}
    AnonInputs = {FALSE}
SPECIFICATION Spec
INVARIANTS
    NoNeedlessEviction
CHECK_DEADLOCK FALSE
