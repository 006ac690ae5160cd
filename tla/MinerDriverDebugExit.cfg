\* With -debug=blockcreation, a miner thread whose nonce search ends in the
\* first second after the process's first nonce reservation (the static
\* nTimeStart) divides the hash count by a zero duration; the exception
\* ends the thread while generation is on.
CONSTANTS
    t1 = t1
    t2 = t2
    wallet = wallet
    null = null
    none = none
    Threads <- MCThreads
    Scripts = {wallet}
    NullScript = null
    MaxHeight = 1
    MaxNonceBase = 4
    NoHash = none
    DebugModes = {TRUE}
SPECIFICATION Spec
INVARIANTS
    MinersKeepRunning
