----------------------------- MODULE MinerDriver -----------------------------
(***************************************************************************)
(* The proof-of-work miner threads of miner.cpp (BitcoinMiner with         *)
(* fProofOfStake = false, ThreadBitcoinMiner), the extra-nonce bookkeeping *)
(* shared between them (nNonce_base under cs_nonce, the static             *)
(* hashPrevBlock of IncrementExtraNonce under cs_main), and GenerateBitcoins,   *)
(* which interrupts and joins the thread group and starts new threads.     *)
(* The chain is its tip height; other nodes' blocks extend it at any time  *)
(* cs_main is free.  CreateNewBlock is one atomic step: it runs under      *)
(* cs_main and either yields a template on the current tip or fails.      *)
(***************************************************************************)
EXTENDS Integers, FiniteSets

CONSTANTS
    Threads,       \* slots of the PoW thread group
    Scripts,       \* payout scripts callers pass (may include NullScript)
    NullScript,
    MaxHeight,     \* model bound on the chain height
    MaxNonceBase,  \* model bound on nNonce_base
    NoHash,        \* the value of the static hashPrevBlock before first use
    DebugModes     \* values of LogAcceptCategory(BCLog::BLOCKCREATION)

ASSUME NoHash \notin 0..MaxHeight

VARIABLES
    tip,             \* chainActive height (and hash: one block per height)
    fGenerateBitcoins,
    nNonceBase,      \* nNonce_base
    hashPrevBlock,   \* static in IncrementExtraNonce
    pc,              \* per thread: where it is in BitcoinMiner
    coinbaseScript,  \* per thread: the script it was started with
    interrupted,     \* per thread: interrupt_all has been called on it
    tmplPrev,        \* per thread: hashPrevBlock of its template
    nNonceLocal,     \* per thread
    cbHeight,        \* per thread: height pushed in its coinbase scriptSig
    cbExtraNonce,    \* per thread: extra nonce pushed in its coinbase scriptSig
    gen,             \* the GenerateBitcoins call in progress (see Idle)
    crashed,         \* the process dereferenced a null coinbaseScript
    debugLog,        \* -debug=blockcreation, fixed for the process
    nTimeStartSet,   \* nTimeStart != 0
    firstSecond      \* GetTime() still equals nTimeStart

vars == <<tip, fGenerateBitcoins, nNonceBase, hashPrevBlock, pc, coinbaseScript,
          interrupted, tmplPrev, nNonceLocal, cbHeight, cbExtraNonce, gen, crashed,
          debugLog, nTimeStartSet, firstSecond>>

clockVars == <<debugLog, nTimeStartSet, firstSecond>>

threadVars == <<coinbaseScript, interrupted, tmplPrev, nNonceLocal, cbHeight,
                cbExtraNonce>>

\* gen.busy: a GenerateBitcoins call is between its start and join_all.
Idle == [busy |-> FALSE, generate |-> FALSE, n |-> 0, script |-> NullScript]

Running == {t \in Threads : pc[t] \notin {"none", "exited"}}

Init ==
    /\ tip = 0
    /\ fGenerateBitcoins = FALSE
    /\ nNonceBase = 0
    /\ hashPrevBlock = NoHash
    /\ pc = [t \in Threads |-> "none"]
    /\ coinbaseScript = [t \in Threads |-> NullScript]
    /\ interrupted = [t \in Threads |-> FALSE]
    /\ tmplPrev = [t \in Threads |-> 0]
    /\ nNonceLocal = [t \in Threads |-> 0]
    /\ cbHeight = [t \in Threads |-> 0]
    /\ cbExtraNonce = [t \in Threads |-> 0]
    /\ gen = Idle
    /\ crashed = FALSE
    /\ debugLog \in DebugModes
    /\ nTimeStartSet = FALSE
    /\ firstSecond = FALSE

Goto(t, l) == pc' = [pc EXCEPT ![t] = l]

-----------------------------------------------------------------------------
(* BitcoinMiner(coinbaseScript), one step per region between locks.      *)

\* Mutant: the loop head without boost::this_thread::interruption_point().
LoopHeadNoInterruption(t) ==
    /\ pc[t] = "loop"
    /\ ~crashed
    /\ \/ /\ ~fGenerateBitcoins
          /\ Goto(t, "exited")
          /\ UNCHANGED tmplPrev
       \/ /\ fGenerateBitcoins
          /\ \/ /\ tmplPrev' = [tmplPrev EXCEPT ![t] = tip]
                /\ Goto(t, "reserve")
             \/ UNCHANGED <<pc, tmplPrev>>
    /\ UNCHANGED <<tip, fGenerateBitcoins, nNonceBase, hashPrevBlock, coinbaseScript,
                   interrupted, nNonceLocal, cbHeight, cbExtraNonce, gen, crashed,
                   clockVars>>

\* Loop head: the while condition, the interruption point, then
\* CreateNewBlock under cs_main, which yields a template on the tip or
\* nullptr (mempool try-lock or TestBlockValidity failed) and continue.
LoopHead(t) ==
    /\ pc[t] = "loop"
    /\ ~crashed
    /\ \/ /\ ~fGenerateBitcoins \/ interrupted[t]
          /\ Goto(t, "exited")
          /\ UNCHANGED tmplPrev
       \/ /\ fGenerateBitcoins /\ ~interrupted[t]
          /\ \/ /\ tmplPrev' = [tmplPrev EXCEPT ![t] = tip]
                /\ Goto(t, "reserve")
             \/ UNCHANGED <<pc, tmplPrev>>
    /\ UNCHANGED <<tip, fGenerateBitcoins, nNonceBase, hashPrevBlock, coinbaseScript,
                   interrupted, nNonceLocal, cbHeight, cbExtraNonce, gen, crashed,
                   clockVars>>

\* Mutant: nNonceLocal = ++nNonce_base.
ReserveNoncePreIncrement(t) ==
    /\ pc[t] = "reserve"
    /\ ~crashed
    /\ nNonceBase' = IF nNonceBase < MaxNonceBase THEN nNonceBase + 1 ELSE nNonceBase
    /\ nNonceLocal' = [nNonceLocal EXCEPT ![t] = nNonceBase + 1]
    /\ IF nTimeStartSet THEN UNCHANGED <<nTimeStartSet, firstSecond>>
       ELSE nTimeStartSet' = TRUE /\ firstSecond' = TRUE
    /\ Goto(t, "extra")
    /\ UNCHANGED <<tip, fGenerateBitcoins, hashPrevBlock, coinbaseScript, interrupted,
                   tmplPrev, cbHeight, cbExtraNonce, gen, crashed, debugLog>>

\* LOCK(cs_nonce); nNonceLocal = nNonce_base++; if (!nTimeStart)
\* nTimeStart = GetTime()
ReserveNonce(t) ==
    /\ pc[t] = "reserve"
    /\ ~crashed
    /\ nNonceLocal' = [nNonceLocal EXCEPT ![t] = nNonceBase]
    \* the model saturates the counter at its bound
    /\ nNonceBase' = IF nNonceBase < MaxNonceBase THEN nNonceBase + 1 ELSE nNonceBase
    /\ IF nTimeStartSet THEN UNCHANGED <<nTimeStartSet, firstSecond>>
       ELSE nTimeStartSet' = TRUE /\ firstSecond' = TRUE
    /\ Goto(t, "extra")
    /\ UNCHANGED <<tip, fGenerateBitcoins, hashPrevBlock, coinbaseScript, interrupted,
                   tmplPrev, cbHeight, cbExtraNonce, gen, crashed, debugLog>>

\* LOCK(cs_main); nExtraNonce = nNonceLocal; IncrementExtraNonce(pblock,
\* chainActive.Tip(), nExtraNonce): reset on a new hashPrevBlock, increment,
\* and push the height of the tip read now into the coinbase scriptSig.
IncrementExtraNonce(t) ==
    /\ pc[t] = "extra"
    /\ ~crashed
    /\ LET reset == hashPrevBlock # tmplPrev[t]
           base == IF reset THEN 0 ELSE nNonceLocal[t]
       IN  /\ cbExtraNonce' = [cbExtraNonce EXCEPT ![t] = base + 1]
           /\ hashPrevBlock' = tmplPrev[t]
    /\ cbHeight' = [cbHeight EXCEPT ![t] = tip + 1]
    /\ Goto(t, "search")
    /\ UNCHANGED <<tip, fGenerateBitcoins, nNonceBase, coinbaseScript, interrupted,
                   tmplPrev, nNonceLocal, gen, crashed, clockVars>>

\* The hash-rate LogPrint is evaluated only under -debug=blockcreation,
\* and in the second nTimeStart was taken nTimeDuration is 0:
\* arith_uint256 division by zero throws uint_error.
HashRateThrows == debugLog /\ firstSecond

\* The inner nonce loop ends in a hit or after 0x10000 misses, or an
\* interruption point throws; then, under cs_nonce, the hash-rate log line,
\* and on a miss continue.  Either exception ends the thread in
\* ThreadBitcoinMiner's catch.
SearchNonce(t) ==
    /\ pc[t] = "search"
    /\ ~crashed
    /\ \/ interrupted[t] /\ Goto(t, "exited")
       \/ HashRateThrows /\ Goto(t, "exited")
       \/ ~HashRateThrows /\ (Goto(t, "submit") \/ Goto(t, "loop"))
    /\ UNCHANGED <<tip, fGenerateBitcoins, nNonceBase, hashPrevBlock, threadVars,
                   gen, crashed, clockVars>>

\* ProcessNewBlock returns true for a valid block, also one on a side branch
\* that no longer extends the tip; it is invalid (bad-cb-height) when its
\* coinbase height is not one above its hashPrevBlock's.  Then
\* coinbaseScript->KeepScript().
Accepted(t) == cbHeight[t] = tmplPrev[t] + 1

\* An accepted block becomes the tip only when it extends it.
ExtendsTip(t) == Accepted(t) /\ tmplPrev[t] = tip

SubmitBlock(t) ==
    /\ pc[t] = "submit"
    /\ ~crashed
    \* the model keeps the tip at MaxHeight
    /\ tip' = IF ExtendsTip(t) /\ tip < MaxHeight THEN tip + 1 ELSE tip
    /\ crashed' = (Accepted(t) /\ coinbaseScript[t] = NullScript)
    /\ Goto(t, "loop")
    /\ UNCHANGED <<fGenerateBitcoins, nNonceBase, hashPrevBlock, threadVars, gen,
                   clockVars>>

-----------------------------------------------------------------------------
(* The clock, other nodes, and GenerateBitcoins.                         *)

\* GetTime() moves past the second stored in nTimeStart.
ClockTick ==
    /\ nTimeStartSet /\ firstSecond
    /\ firstSecond' = FALSE
    /\ UNCHANGED <<tip, fGenerateBitcoins, nNonceBase, hashPrevBlock, pc, threadVars,
                   gen, crashed, debugLog, nTimeStartSet>>

\* A block from the network becomes the tip (ActivateBestChain, cs_main).
NetworkBlock ==
    /\ tip < MaxHeight
    /\ ~crashed
    /\ tip' = tip + 1
    /\ UNCHANGED <<fGenerateBitcoins, nNonceBase, hashPrevBlock, pc, threadVars,
                   gen, crashed, clockVars>>

\* GenerateBitcoins(fGenerate, nThreads, coinbaseScript) up to join_all:
\* set the flag and interrupt every thread of the group.
GenerateStart(fGenerate, nThreads, script) ==
    /\ ~gen.busy
    /\ ~crashed
    /\ fGenerateBitcoins' = fGenerate
    /\ interrupted' = [t \in Threads |-> pc[t] # "none" \/ interrupted[t]]
    /\ gen' = [busy |-> TRUE, generate |-> fGenerate, n |-> nThreads, script |-> script]
    /\ UNCHANGED <<tip, nNonceBase, hashPrevBlock, pc, coinbaseScript, tmplPrev,
                   nNonceLocal, cbHeight, cbExtraNonce, crashed, clockVars>>

\* join_all returns once every thread has exited; then nThreads new threads
\* are created unless nThreads = 0 or !fGenerate.
GenerateJoin ==
    /\ gen.busy
    /\ ~crashed
    /\ Running = {}
    /\ \E fresh \in SUBSET Threads :
          /\ Cardinality(fresh) = IF gen.generate THEN gen.n ELSE 0
          /\ pc' = [t \in Threads |-> IF t \in fresh THEN "loop" ELSE pc[t]]
          /\ coinbaseScript' = [t \in Threads |->
                                  IF t \in fresh THEN gen.script ELSE coinbaseScript[t]]
          /\ interrupted' = [t \in Threads |-> t \notin fresh /\ interrupted[t]]
    /\ gen' = Idle
    /\ UNCHANGED <<tip, fGenerateBitcoins, nNonceBase, hashPrevBlock,
                   tmplPrev, nNonceLocal, cbHeight, cbExtraNonce, crashed,
                   clockVars>>

ThreadStep(t) ==
    LoopHead(t) \/ ReserveNonce(t) \/ IncrementExtraNonce(t) \/ SearchNonce(t)
    \/ SubmitBlock(t)

Next ==
    \/ \E t \in Threads : ThreadStep(t)
    \/ NetworkBlock
    \/ ClockTick
    \/ \E g \in BOOLEAN, n \in 0..Cardinality(Threads), s \in Scripts :
          GenerateStart(g, n, s)
    \/ GenerateJoin

\* Miner threads and the thread calling GenerateBitcoins are OS threads: each
\* keeps running while it can.  Network blocks may or may not arrive.
Fairness ==
    /\ \A t \in Threads : WF_vars(ThreadStep(t))
    /\ WF_vars(GenerateJoin)

Spec == Init /\ [][Next]_vars /\ Fairness

-----------------------------------------------------------------------------
(* Properties.                                                            *)

TypeOK ==
    /\ tip \in 0..MaxHeight
    /\ fGenerateBitcoins \in BOOLEAN
    /\ nNonceBase \in 0..MaxNonceBase
    /\ hashPrevBlock \in 0..MaxHeight \cup {NoHash}
    /\ pc \in [Threads -> {"none", "loop", "reserve", "extra", "search", "submit", "exited"}]
    /\ coinbaseScript \in [Threads -> Scripts \cup {NullScript}]
    /\ interrupted \in [Threads -> BOOLEAN]
    /\ tmplPrev \in [Threads -> 0..MaxHeight]
    /\ nNonceLocal \in [Threads -> 0..MaxNonceBase]
    /\ cbHeight \in [Threads -> 0..MaxHeight + 1]
    /\ cbExtraNonce \in [Threads -> 0..MaxNonceBase + 1]
    /\ gen \in [busy : BOOLEAN, generate : BOOLEAN, n : 0..Cardinality(Threads),
               script : Scripts \cup {NullScript}]
    /\ crashed \in BOOLEAN
    /\ debugLog \in BOOLEAN
    /\ nTimeStartSet \in BOOLEAN
    /\ firstSecond \in BOOLEAN

\* A call to GenerateBitcoins returns: every interrupted thread reaches an
\* interruption point or the loop condition and exits, so join_all ends.
GenerateReturns == gen.busy ~> ~gen.busy

\* Spec section 4.4: a PoW thread mines while generation is enabled.  A
\* thread that has left BitcoinMiner did so because GenerateBitcoins
\* cleared fGenerateBitcoins or interrupted it, not by an exception of its
\* own (ThreadBitcoinMiner's catch ends it silently, the flag still set).
\* The static nTimeStart is set once per process, so the hash-rate division
\* can only throw for searches ending in the first second after the
\* process's first nonce reservation.
MinersKeepRunning ==
    \A t \in Threads : pc[t] = "exited" => interrupted[t] \/ ~fGenerateBitcoins

\* A miner thread only calls KeepScript on a reserve script that exists
\* (BitcoinMiner dereferences coinbaseScript after an accepted block).
NoNullScriptKept == ~crashed

=============================================================================
