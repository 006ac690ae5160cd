\* One staking thread, two tips, ages in minutes capped just past the
\* five-minute mintable check and the one-minute hashed-block throttle.
CONSTANTS
    MaxTip = 1
    MintableCap = 6
    HashedCap = 2
SPECIFICATION Spec
PROPERTIES
    StakesWhenReady
    StopsOnShutdown
\* After shutdown the thread has exited and the node stops.
CHECK_DEADLOCK FALSE
