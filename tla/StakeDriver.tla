---------------------------- MODULE StakeDriver ----------------------------
(***************************************************************************)
(* The proof-of-stake thread: ThreadStakeMiner and the fProofOfStake      *)
(* branch of BitcoinMiner (miner.cpp).  One thread runs it.  Everything it *)
(* reads but does not own (wallet state, peers, initial block download,   *)
(* the best header, the clock, the tip) is changed by environment actions *)
(* at any time.  Time is counted in minutes as the age of the two         *)
(* timestamps the loop compares against GetTime(): nMintableLastCheck and *)
(* mapHashedBlocks[hash], each capped once older than any threshold.     *)
(***************************************************************************)
EXTENDS Integers, FiniteSets

CONSTANTS
    MaxTip,           \* tips are 0..MaxTip; a new tip is a new block hash
    MintableCap,      \* age past every nMintableLastCheck threshold
    HashedCap         \* age past the mapHashedBlocks threshold

ASSUME MaxTip \in Nat /\ MintableCap > 5 /\ HashedCap > 1

Tips == 0..MaxTip
Never == -1           \* hash not in mapHashedBlocks

VARIABLES
    \* environment
    prereq,           \* pwallet && peers && IsStakingEnabled() && nHeight >= HeightPoSStart()
    ibd,              \* IsInitialBlockDownload()
    behind,           \* nTimeBestHeader - nTimeLastBlock > 60*60
    locked,           \* pwallet->IsLocked() && !pwallet->IsUnlockedForStakingOnly()
    clockBehind,      \* GetAdjustedTime() < nTimeLastBlock - MAX_PAST_BLOCK_TIME
    mintable,         \* what pwallet->MintableCoins() returns now
    tip,              \* chainActive.Tip()->GetBlockHash()
    shutdown,         \* ShutdownRequested()
    interruptReq,     \* a pending boost thread interruption
    override,         \* -genoverride
    \* process state
    fMintableCoins,
    mintableAge,      \* GetTime() - nMintableLastCheck, in minutes, capped
    hashedAge,        \* hash -> GetTime() - mapHashedBlocks[hash], or Never
    \* the staking thread
    pc,
    hashBestBlock     \* the tip snapshot taken under cs_main

env == <<prereq, ibd, behind, locked, clockBehind, mintable, tip, shutdown,
         interruptReq, override>>
vars == <<env, fMintableCoins, mintableAge, hashedAge, pc, hashBestBlock>>

Init ==
    /\ prereq \in BOOLEAN /\ ibd \in BOOLEAN /\ behind \in BOOLEAN
    /\ locked \in BOOLEAN /\ clockBehind \in BOOLEAN /\ mintable \in BOOLEAN
    /\ tip = 0
    /\ shutdown = FALSE /\ interruptReq = FALSE
    /\ override \in BOOLEAN
    /\ fMintableCoins = FALSE
    /\ mintableAge = MintableCap    \* nMintableLastCheck = 0, long ago
    /\ hashedAge = [h \in Tips |-> Never]
    /\ pc = "head"
    /\ hashBestBlock = 0

-----------------------------------------------------------------------------
(* BitcoinMiner(coinbase_script, true, true).                             *)

\* Mutant: nMintableLastCheck is stamped on every check, not only on a
\* refresh.
RefreshMintableAlwaysStamp(threshold) ==
    /\ mintableAge' = 0
    /\ fMintableCoins' = IF mintableAge > threshold THEN mintable ELSE fMintableCoins

\* Refresh of the cached fMintableCoins when the last check is older than
\* the threshold (in minutes).
RefreshMintable(threshold) ==
    IF mintableAge > threshold
    THEN /\ mintableAge' = 0
         /\ fMintableCoins' = mintable
    ELSE UNCHANGED <<mintableAge, fMintableCoins>>

\* The loop head: interruption point, chain snapshot under cs_main, the
\* download and readiness gates (each "sleep 5s; continue"), and the
\* five-minute mintable check.
LoopHead ==
    /\ pc = "head"
    /\ IF interruptReq
       THEN /\ interruptReq' = FALSE
            /\ pc' = "caught"
            /\ UNCHANGED <<hashBestBlock, mintableAge, fMintableCoins>>
       ELSE /\ hashBestBlock' = tip
            /\ IF (~override /\ behind) \/ ibd \/ ~prereq
               THEN /\ pc' = "head"
                    /\ UNCHANGED <<mintableAge, fMintableCoins>>
               ELSE /\ RefreshMintable(5)
                    /\ pc' = "wait"
            /\ UNCHANGED interruptReq
    /\ UNCHANGED <<prereq, ibd, behind, locked, clockBehind, mintable, tip, shutdown,
                   override, hashedAge>>

\* The while loop on the wallet lock, fMintableCoins and the clock: its body
\* runs at most once, because it ends in an unconditional break.  Only a
\* still-false fMintableCoins (fNextIter) sends the thread back; a locked
\* wallet or a clock behind the tip costs one 2.5s sleep and the thread goes
\* on to the throttle and CreateNewBlock (spec section 9(d)).
WaitLoopBreak(blocked) ==
    IF ~blocked
    THEN /\ pc' = "throttle"
         /\ UNCHANGED <<mintableAge, fMintableCoins, interruptReq>>
    ELSE LET stillNone == ~fMintableCoins /\ (mintableAge <= 1 \/ ~mintable)
         IN  /\ IF ~fMintableCoins THEN RefreshMintable(1)
                ELSE UNCHANGED <<mintableAge, fMintableCoins>>
             \* MilliSleep(2500) is an interruption point
             /\ IF interruptReq
                THEN /\ pc' = "caught"
                     /\ interruptReq' = FALSE
                ELSE /\ pc' = IF stillNone THEN "head" ELSE "throttle"
                     /\ UNCHANGED interruptReq

WaitLoop ==
    /\ pc = "wait"
    /\ WaitLoopBreak(locked \/ ~fMintableCoins \/ clockBehind)
    /\ UNCHANGED <<prereq, ibd, behind, locked, clockBehind, mintable, tip, shutdown,
                   override, hashedAge, hashBestBlock>>

\* mapHashedBlocks throttle.  CreateCoinStake records, per tip, the latest
\* time it hashed, GetAdjustedTime() + MAX_FUTURE_BLOCK_TIME, so the test
\* "GetAdjustedTime() + MAX_FUTURE_BLOCK_TIME - mapHashedBlocks[hash] < 60 +
\* rand" holds while that tip was hashed less than 60 + rand seconds ago.
\* With ages in whole minutes, rand = 0 and rand = 19 give every outcome of
\* GetRandInt(20).
HashedRecently(age, rand) == age # Never /\ 60 * age < 60 + rand

Throttle ==
    /\ pc = "throttle"
    /\ \E rand \in {0, 19} :
          pc' = IF HashedRecently(hashedAge[hashBestBlock], rand) THEN "head" ELSE "create"
    /\ UNCHANGED <<env, fMintableCoins, mintableAge, hashedAge, hashBestBlock>>

\* CreateNewBlock(scriptMining, false, true, true) then ProcessNewBlock.  The
\* wallet's CreateCoinStake records the tip in mapHashedBlocks when it can
\* search for a kernel (unlocked, with mintable coins); a template is built only
\* if it finds one.  ProcessNewBlock may accept it (a new tip) or not; any
\* exception thrown on the way is caught by ThreadStakeMiner.
CreateBlock ==
    /\ pc = "create"
    /\ \/ /\ ~locked /\ mintable
          /\ hashedAge' = [hashedAge EXCEPT ![tip] = 0]
          /\ \/ pc' = "head" /\ UNCHANGED tip
             \/ pc' = "head" /\ tip < MaxTip /\ tip' = tip + 1
       \/ /\ locked \/ ~mintable
          /\ pc' = "head"
          /\ UNCHANGED <<hashedAge, tip>>
       \/ /\ pc' = "caught"
          /\ UNCHANGED <<hashedAge, tip>>
    /\ UNCHANGED <<prereq, ibd, behind, locked, clockBehind, mintable, shutdown,
                   interruptReq, override, fMintableCoins, mintableAge, hashBestBlock>>

-----------------------------------------------------------------------------
(* ThreadStakeMiner.                                                      *)

\* Mutant: ThreadStakeMiner without the ShutdownRequested() break.
OuterLoopNoShutdownCheck ==
    /\ pc = "caught"
    /\ pc' = IF interruptReq THEN "exited" ELSE "head"
    /\ UNCHANGED <<env, fMintableCoins, mintableAge, hashedAge, hashBestBlock>>

\* After the catch: the outer loop's interruption point (outside the try, so
\* a pending interruption ends the thread), the ShutdownRequested() break,
\* or BitcoinMiner again.
OuterLoop ==
    /\ pc = "caught"
    /\ pc' = IF interruptReq \/ shutdown THEN "exited" ELSE "head"
    /\ UNCHANGED <<env, fMintableCoins, mintableAge, hashedAge, hashBestBlock>>

StakerStep == LoopHead \/ WaitLoop \/ Throttle \/ CreateBlock \/ OuterLoop

-----------------------------------------------------------------------------
(* Environment.                                                           *)

\* A minute passes.
Tick ==
    /\ \/ mintableAge < MintableCap
       \/ \E h \in Tips : hashedAge[h] # Never /\ hashedAge[h] < HashedCap
    /\ mintableAge' = IF mintableAge < MintableCap THEN mintableAge + 1 ELSE mintableAge
    /\ hashedAge' = [h \in Tips |->
                       IF hashedAge[h] = Never \/ hashedAge[h] = HashedCap
                       THEN hashedAge[h] ELSE hashedAge[h] + 1]
    /\ UNCHANGED <<env, fMintableCoins, pc, hashBestBlock>>

\* The user, peers and the network change what the thread reads.
Flip(v) == v' = ~v

EnvChange ==
    /\ ~shutdown
    /\ \/ Flip(prereq) /\ UNCHANGED <<ibd, behind, locked, clockBehind, mintable>>
       \/ Flip(ibd) /\ UNCHANGED <<prereq, behind, locked, clockBehind, mintable>>
       \/ Flip(behind) /\ UNCHANGED <<prereq, ibd, locked, clockBehind, mintable>>
       \/ Flip(locked) /\ UNCHANGED <<prereq, ibd, behind, clockBehind, mintable>>
       \/ Flip(clockBehind) /\ UNCHANGED <<prereq, ibd, behind, locked, mintable>>
       \/ Flip(mintable) /\ UNCHANGED <<prereq, ibd, behind, locked, clockBehind>>
    /\ UNCHANGED <<tip, shutdown, interruptReq, override, fMintableCoins, mintableAge,
                   hashedAge, pc, hashBestBlock>>

\* A block from a peer becomes the tip.
NetworkBlock ==
    /\ tip < MaxTip
    /\ tip' = tip + 1
    /\ UNCHANGED <<prereq, ibd, behind, locked, clockBehind, mintable, shutdown,
                   interruptReq, override, fMintableCoins, mintableAge, hashedAge, pc,
                   hashBestBlock>>

\* StartShutdown, then the node interrupts its threads.
RequestShutdown ==
    /\ ~shutdown
    /\ shutdown' = TRUE
    /\ interruptReq' = TRUE
    /\ UNCHANGED <<prereq, ibd, behind, locked, clockBehind, mintable, tip, override,
                   fMintableCoins, mintableAge, hashedAge, pc, hashBestBlock>>

Next ==
    \/ StakerStep
    \/ Tick
    \/ EnvChange
    \/ NetworkBlock
    \/ RequestShutdown

\* The thread is scheduled whenever it can run, and time passes.
Spec == Init /\ [][Next]_vars /\ WF_vars(StakerStep) /\ WF_vars(Tick)

-----------------------------------------------------------------------------
(* Properties.                                                            *)

\* Everything the loop needs to stake holds (with -genoverride, a header
\* more than an hour ahead of the tip does not count).
Ready ==
    /\ prereq /\ ~ibd /\ (override \/ ~behind)
    /\ ~locked /\ ~clockBehind /\ mintable /\ ~shutdown

\* If the node stays ready to stake from some point on, the thread attempts a
\* stake again and again: the cached fMintableCoins cannot stay stale (the
\* five- and one-minute refreshes of nMintableLastCheck) and the
\* mapHashedBlocks throttle always expires.
StakesWhenReady == <>[]Ready => []<>(pc = "create")

\* After StartShutdown the staking thread ends: the interruption is taken at
\* an interruption point of BitcoinMiner or ThreadStakeMiner, and the
\* ShutdownRequested() check keeps ThreadStakeMiner from restarting it.
StopsOnShutdown == shutdown ~> (pc = "exited")

=============================================================================
