\* Expected violation of NoNullScriptKept.
CONSTANTS
    t1 = t1
    t2 = t2
    wallet = wallet
    null = null
    none = none
    Threads <- MCThreads
    Scripts = {wallet, null}
    NullScript = null
    MaxHeight = 2
    MaxNonceBase = 4
    NoHash = none
    DebugModes = {FALSE}
SPECIFICATION Spec
INVARIANTS
    NoNullScriptKept
