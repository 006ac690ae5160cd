\* Expected violation of SelectedTxsKept.
CONSTANTS
    N = 2
    Serials = {}
    Pubcoins = {}
    RewardValues = {0}
    PriorReserves = {0}
    MaxNetworkReward = 3
    Tips = {2, 3}
    PoSStart = 2
    Budget <- MCBudget
    Modes = {TRUE}
    MempoolChains = {FALSE}
    AnonInputs = {FALSE}
SPECIFICATION Spec
INVARIANTS
    SelectedTxsKept
CHECK_DEADLOCK FALSE
