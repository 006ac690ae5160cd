\* Expected violation of CoinbaseHeightIsTemplateHeight.
CONSTANTS
    N = 2
    Serials = {1, 2}
    Pubcoins = {}
    RewardValues = {0}
    PriorReserves = {0}
    MaxNetworkReward = 3
    Tips = {2, 3}
    PoSStart = 2
    Budget <- MCBudget
    Modes = {FALSE}
    MempoolChains = {FALSE}
    AnonInputs = {FALSE}
SPECIFICATION Spec
INVARIANTS
    CoinbaseHeightIsTemplateHeight
CHECK_DEADLOCK FALSE
