\* Thread lifecycle under GenerateBitcoins: every call returns, with debug
\* logging off and on.  Only the wallet script is passed here;
\* the nullptr callers are checked in MinerDriverNullScript.cfg.
CONSTANTS
    t1 = t1
    t2 = t2
    wallet = wallet
    null = null
    none = none
    Threads <- MCThreads
    Scripts = {wallet}
    NullScript = null
    MaxHeight = 1
    MaxNonceBase = 4
    NoHash = none
    DebugModes = {FALSE, TRUE}
SPECIFICATION Spec
INVARIANTS
    TypeOK
PROPERTIES
    GenerateReturns
