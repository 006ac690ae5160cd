--------------------------- MODULE BlockAssembly ---------------------------
(***************************************************************************)
(* BlockAssembler::CreateNewBlock (miner.cpp) after addPackageTxs: the     *)
(* network-reward reserve and privacy screening loop, the rebuild of the   *)
(* transaction list, the coinbase outputs, the coinstake slot, block       *)
(* signing and TestBlockValidity.  The whole call runs under cs_main and   *)
(* mempool.cs, so one step of the model is one iteration of a loop or one  *)
(* straight-line stretch of the function.  The package selector's result   *)
(* is taken as given: the first K transactions of Txs, in that order.     *)
(***************************************************************************)
EXTENDS Integers, FiniteSets, Sequences

LOCAL FS == INSTANCE FiniteSetsExt

CONSTANTS
    N,                 \* transactions the package selector may return
    Serials,           \* zerocoin serial hashes, in hash order
    Pubcoins,          \* zerocoin pubcoin hashes, in hash order
    RewardValues,      \* values a tx may pay to the network reward script
    PriorReserves,     \* pindexPrev->nNetworkRewardReserve
    MaxNetworkReward,  \* Params().MaxNetworkReward()
    Tips,              \* heights chainActive.Tip() may have
    PoSStart,          \* Params().HeightPoSStart()
    Budget,            \* height -> GetBlockRewards(height)
    Modes,             \* values of fProofOfStake
    MempoolChains,     \* whether a tx may spend an output of another mempool tx
    AnonInputs         \* values of vin[0].IsAnonInput()

Txs == 1..N
NullTx == 0            \* the dummy coinbase slot, pblock->vtx[0] == nullptr
NotInChain == 0        \* serial not spent on chain

ASSUME /\ N \in Nat /\ Serials \subseteq Nat /\ Pubcoins \subseteq Nat
       /\ \A h \in Tips : h + 1 \in DOMAIN Budget
       /\ MempoolChains \subseteq BOOLEAN /\ AnonInputs \subseteq BOOLEAN

VARIABLES
    \* inputs, fixed by Init
    tip,             \* chainActive.Tip()->nHeight
    pos,             \* fProofOfStake
    tx,              \* per transaction: serials, pubcoins, reserve payment, inputs
    serialHeight,    \* serial -> height of its spend on chain, or NotInChain
    pubcoinInChain,  \* pubcoins already accumulated on chain
    priorReserve,
    \* CreateNewBlock
    phase,
    result,          \* "none" until CreateNewBlock returns
    nHeight,         \* BlockAssembler::nHeight
    coinstake,       \* txCoinStake: "none", "spend" or "other"
    vtx,             \* pblock->vtx
    i,               \* loop counter of the two loops over pblock->vtx
    setSerials, setPubcoins, setDuplicate,
    reserve,         \* nNetworkRewardReserve
    vtxReplace,
    evicted,         \* txs passed to mempool.removeRecursive
    coinbase         \* the coinbase: scriptSig height and outputs

vars == <<tip, pos, tx, serialHeight, pubcoinInChain, priorReserve, phase, result,
          nHeight, coinstake, vtx, i, setSerials, setPubcoins, setDuplicate, reserve,
          vtxReplace, evicted, coinbase>>

inputs == <<tip, pos, tx, serialHeight, pubcoinInChain, priorReserve>>

NoCoinbase == [height |-> 0, outs |-> <<>>]

NoParent == 0

\* parent: the mempool tx whose output it spends, or NoParent.
TxAttrs == [serials : SUBSET Serials, pubcoins : SUBSET Pubcoins,
            reward : RewardValues, parent : {NoParent} \cup Txs,
            anonInput : AnonInputs]

\* addPackageTxs places every in-mempool ancestor before its child, and the
\* model's selection is a prefix 1..k, so a parent is an earlier tx.
ParentChoices(t) == {NoParent} \cup (IF TRUE \in MempoolChains THEN 1..t - 1 ELSE {})

Init ==
    /\ tip \in Tips
    /\ pos \in Modes
    /\ tx \in [Txs -> TxAttrs]
    /\ \A t \in Txs : tx[t].parent \in ParentChoices(t)
    /\ serialHeight \in [Serials -> {NotInChain} \cup 1..tip]
    /\ pubcoinInChain \in SUBSET Pubcoins
    /\ priorReserve \in PriorReserves
    /\ phase = "start"
    /\ result = "none"
    /\ nHeight = 0
    /\ coinstake = "none"
    /\ vtx = <<NullTx>>
    /\ i = 1
    /\ setSerials = {} /\ setPubcoins = {} /\ setDuplicate = {}
    /\ reserve = 0
    /\ vtxReplace = <<>>
    /\ evicted = {}
    /\ coinbase = NoCoinbase

Return(r) == phase' = "done" /\ result' = r

-----------------------------------------------------------------------------
(* CreateNewBlock up to addPackageTxs.                                    *)

\* resetBlock, the dummy coinbase, then under cs_main the coinstake for a
\* PoS block at or past HeightPoSStart (CreateCoinStake may fail).
CreateCoinStake ==
    /\ phase = "start"
    /\ IF pos /\ tip + 1 >= PoSStart
       THEN \/ coinstake' \in {"spend", "other"} /\ phase' = "mempool"
                /\ UNCHANGED result
            \/ Return("coinstakeFailed") /\ UNCHANGED coinstake
       ELSE phase' = "mempool" /\ UNCHANGED <<coinstake, result>>
    /\ UNCHANGED <<inputs, nHeight, vtx, i, setSerials, setPubcoins, setDuplicate,
                   reserve, vtxReplace, evicted, coinbase>>

\* TRY_LOCK(mempool.cs), nHeight = pindexPrev->nHeight + 1, addPackageTxs,
\* and nNetworkRewardReserve read from pindexPrev.
SelectPackages ==
    /\ phase = "mempool"
    /\ \/ Return("mempoolBusy")
          /\ UNCHANGED <<nHeight, vtx, reserve>>
       \/ /\ nHeight' = tip + 1
          /\ \E k \in 0..N : vtx' = <<NullTx>> \o [j \in 1..k |-> j]
          /\ reserve' = priorReserve
          /\ phase' = "screen"
          /\ UNCHANGED result
    /\ UNCHANGED <<inputs, coinstake, i, setSerials, setPubcoins, setDuplicate,
                   vtxReplace, evicted, coinbase>>

-----------------------------------------------------------------------------
(* The screening loop.                                                    *)

\* Mutant: a hash that passes both checks is not emplaced.
RECURSIVE ScanHashesNoEmplace(_, _, _, _)
ScanHashesNoEmplace(todo, seen, heightOnChain, h) ==
    IF todo = {} THEN [dup |-> FALSE, seen |-> seen, height |-> h]
    ELSE LET s == FS!Min(todo) IN
         IF s \in seen THEN [dup |-> TRUE, seen |-> seen, height |-> h]
         ELSE IF heightOnChain[s] # NotInChain
              THEN [dup |-> TRUE, seen |-> seen, height |-> heightOnChain[s]]
              ELSE ScanHashesNoEmplace(todo \ {s}, seen, heightOnChain, h)

\* The loop over a tx's serial (or pubcoin) hashes in std::set order: stop
\* at the first one already seen in this block or already on chain, after
\* emplacing every hash before it.  IsSerialInBlockchain returns the height
\* of the spend through its int& argument, which is nHeight itself.
RECURSIVE ScanHashes(_, _, _, _)
ScanHashes(todo, seen, heightOnChain, h) ==
    IF todo = {} THEN [dup |-> FALSE, seen |-> seen, height |-> h]
    ELSE LET s == FS!Min(todo) IN
         IF s \in seen THEN [dup |-> TRUE, seen |-> seen, height |-> h]
         ELSE IF heightOnChain[s] # NotInChain
              THEN [dup |-> TRUE, seen |-> seen, height |-> heightOnChain[s]]
              ELSE ScanHashes(todo \ {s}, seen \cup {s}, heightOnChain, h)

\* IsPubcoinInBlockchain, its height written to a local
PubcoinHeight == [p \in Pubcoins |-> IF p \in pubcoinInChain THEN 1 ELSE NotInChain]

\* One iteration of the first loop over pblock->vtx: the serial check, the
\* pubcoin check, then the outputs paid to the network reward script.
ScreenTx ==
    /\ phase = "screen"
    /\ i <= Len(vtx)
    /\ i' = i + 1
    /\ LET t == vtx[i]
           sv == ScanHashes(tx[t].serials, setSerials, serialHeight, nHeight)
           pv == ScanHashes(tx[t].pubcoins, setPubcoins, PubcoinHeight, 0)
       IN  IF t = NullTx
           THEN UNCHANGED <<nHeight, setSerials, setPubcoins, setDuplicate, reserve>>
           ELSE IF sv.dup
           THEN /\ setSerials' = sv.seen
                /\ nHeight' = sv.height
                /\ setDuplicate' = setDuplicate \cup {t}
                /\ UNCHANGED <<setPubcoins, reserve>>
           ELSE IF pv.dup
           THEN /\ setSerials' = sv.seen
                /\ setPubcoins' = pv.seen
                /\ setDuplicate' = setDuplicate \cup {t}
                /\ UNCHANGED <<nHeight, reserve>>
           ELSE /\ setSerials' = sv.seen
                /\ setPubcoins' = pv.seen
                /\ reserve' = reserve + tx[t].reward
                /\ UNCHANGED <<nHeight, setDuplicate>>
    /\ UNCHANGED <<inputs, phase, result, coinstake, vtx, vtxReplace, evicted, coinbase>>

EndScreen ==
    /\ phase = "screen"
    /\ i > Len(vtx)
    /\ phase' = "rebuild"
    /\ i' = 1
    /\ UNCHANGED <<inputs, result, nHeight, coinstake, vtx, setSerials, setPubcoins,
                   setDuplicate, reserve, vtxReplace, evicted, coinbase>>
-----------------------------------------------------------------------------
(* The rebuild loop, the coinbase and the end of CreateNewBlock.          *)

IsZerocoinSpend(t) == tx[t].serials # {}

\* viewCheck is a view of pcoinsTip: an output of another mempool tx, even
\* one placed earlier in this block, is not in it.
HaveInputs(t) == tx[t].parent = NoParent

\* The rebuild loop skips a tx that is neither a zerocoin spend nor has an
\* anonymous first input, and whose inputs viewCheck lacks.
MissingInputs(t) == ~IsZerocoinSpend(t) /\ ~tx[t].anonInput /\ ~HaveInputs(t)

\* Mutant: a tx without inputs is also passed to removeRecursive.
RebuildTxEvictsMissingInputs ==
    /\ phase = "rebuild"
    /\ i <= Len(vtx)
    /\ i' = i + 1
    /\ LET t == vtx[i] IN
       IF t = NullTx THEN vtxReplace' = Append(vtxReplace, t) /\ UNCHANGED evicted
       ELSE IF t \in setDuplicate \/ MissingInputs(t)
       THEN evicted' = evicted \cup {t} /\ UNCHANGED vtxReplace
       ELSE vtxReplace' = Append(vtxReplace, t) /\ UNCHANGED evicted
    /\ UNCHANGED <<inputs, phase, result, nHeight, coinstake, vtx, setSerials,
                   setPubcoins, setDuplicate, reserve, coinbase>>

\* One iteration of the second loop: keep the null slot, evict duplicates
\* with their descendants, skip a tx whose inputs are not in viewCheck.
RebuildTx ==
    /\ phase = "rebuild"
    /\ i <= Len(vtx)
    /\ i' = i + 1
    /\ LET t == vtx[i] IN
       IF t = NullTx THEN vtxReplace' = Append(vtxReplace, t) /\ UNCHANGED evicted
       ELSE IF t \in setDuplicate
       THEN evicted' = evicted \cup {t} /\ UNCHANGED vtxReplace
       ELSE IF MissingInputs(t)
       THEN UNCHANGED <<vtxReplace, evicted>>
       ELSE vtxReplace' = Append(vtxReplace, t) /\ UNCHANGED evicted
    /\ UNCHANGED <<inputs, phase, result, nHeight, coinstake, vtx, setSerials,
                   setPubcoins, setDuplicate, reserve, coinbase>>

EndRebuild ==
    /\ phase = "rebuild"
    /\ i > Len(vtx)
    /\ phase' = "coinbase"
    /\ vtx' = vtxReplace
    /\ UNCHANGED <<inputs, result, nHeight, coinstake, i, setSerials, setPubcoins,
                   setDuplicate, reserve, vtxReplace, evicted, coinbase>>

CoinbaseTx == -1
CoinstakeTx == -2

Output(role, value) == [role |-> role, value |-> value]
EmptyOutput == Output("empty", 0)

\* Mutant: the PoS output indices are those of PoW.
CoinbaseOutsPoWIndices(isPoS, r, networkReward) ==
    LET n == IF r.budget > 0 /\ r.founder > 0 THEN IF isPoS THEN 3 ELSE 4
             ELSE IF r.budget > 0 THEN IF isPoS THEN 2 ELSE 3
             ELSE 1
    IN  [k \in 1..n |->
           CASE ~isPoS /\ k = 1 -> Output("miner", r.block + networkReward)
             [] r.budget > 0 /\ k = 2 -> Output("budget", r.budget)
             [] r.budget > 0 /\ k = 3 -> Output("lab", r.lab)
             [] r.budget > 0 /\ r.founder > 0 /\ k = 4 -> Output("founder", r.founder)
             [] OTHER -> EmptyOutput]

\* The coinbase outputs: vpout resized by the budget and founder payments,
\* the miner output first for PoW, then budget, lab and founder.
CoinbaseOuts(isPoS, r, networkReward) ==
    LET n == IF r.budget > 0 /\ r.founder > 0 THEN IF isPoS THEN 3 ELSE 4
             ELSE IF r.budget > 0 THEN IF isPoS THEN 2 ELSE 3
             ELSE 1
        off == IF isPoS THEN 0 ELSE 1
    IN  [k \in 1..n |->
           CASE ~isPoS /\ k = 1 -> Output("miner", r.block + networkReward)
             [] r.budget > 0 /\ k = off + 1 -> Output("budget", r.budget)
             [] r.budget > 0 /\ k = off + 2 -> Output("lab", r.lab)
             [] r.budget > 0 /\ r.founder > 0 /\ k = off + 3 -> Output("founder", r.founder)
             [] OTHER -> EmptyOutput]

\* Install a transaction at pblock->vtx[1], resizing to two slots if needed.
PutSecond(s, t) ==
    IF Len(s) < 2 THEN <<s[1], t>> ELSE [s EXCEPT ![2] = t]

\* GetBlockRewards(nHeight), the capped network reward, the coinbase with
\* nHeight in its scriptSig, the coinstake at pblock->vtx[1] for PoS, and
\* the coinbase at pblock->vtx[0].
BuildCoinbase ==
    /\ phase = "coinbase"
    /\ LET r == Budget[nHeight]
           networkReward == IF reserve > MaxNetworkReward THEN MaxNetworkReward ELSE reserve
           withStake == IF pos THEN PutSecond(vtx, CoinstakeTx) ELSE vtx
       IN  /\ coinbase' = [height |-> nHeight, outs |-> CoinbaseOuts(pos, r, networkReward)]
           /\ vtx' = [withStake EXCEPT ![1] = CoinbaseTx]
    /\ phase' = "finish"
    /\ UNCHANGED <<inputs, result, nHeight, coinstake, i, setSerials, setPubcoins,
                   setDuplicate, reserve, vtxReplace, evicted>>

\* The header, then for PoS the stake check and the block signature, then
\* TestBlockValidity, which rejects a coinbase whose scriptSig does not
\* start with pindexPrev->nHeight + 1 (bad-cb-height).
Finish ==
    /\ phase = "finish"
    /\ \/ pos /\ coinstake # "spend" /\ Return("stakeNotSpend")
       \/ pos /\ coinstake = "spend" /\ Return("signFailed")
       \/ (~pos \/ coinstake = "spend")
          /\ Return(IF coinbase.height = tip + 1 THEN "template" ELSE "invalid")
    /\ UNCHANGED <<inputs, nHeight, coinstake, vtx, i, setSerials, setPubcoins,
                   setDuplicate, reserve, vtxReplace, evicted, coinbase>>

Next ==
    \/ CreateCoinStake
    \/ SelectPackages
    \/ ScreenTx
    \/ EndScreen
    \/ RebuildTx
    \/ EndRebuild
    \/ BuildCoinbase
    \/ Finish

\* CreateNewBlock runs to completion on its thread.
Spec == Init /\ [][Next]_vars /\ WF_vars(Next)

-----------------------------------------------------------------------------
(* Properties.                                                            *)

TypeOK ==
    /\ phase \in {"start", "mempool", "screen", "rebuild", "coinbase", "finish", "done"}
    /\ result \in {"none", "coinstakeFailed", "mempoolBusy", "stakeNotSpend",
                   "signFailed", "invalid", "template"}
    /\ coinstake \in {"none", "spend", "other"}
    /\ vtx \in Seq(Txs \cup {NullTx, CoinbaseTx, CoinstakeTx})
    /\ i \in 1..N + 2
    /\ setSerials \subseteq Serials /\ setPubcoins \subseteq Pubcoins
    /\ setDuplicate \subseteq Txs /\ evicted \subseteq setDuplicate
    /\ vtxReplace \in Seq(Txs \cup {NullTx})
    /\ reserve \in Nat /\ nHeight \in Nat

\* The transactions of the returned block that came from the mempool.
BlockTxs == {vtx[k] : k \in 1..Len(vtx)} \cap Txs

\* Spec section 8: in a returned template no two privacy spends share a
\* serial, no two mints share a pubcoin, and none is already on chain.
\* It rests on the screening loop's seen-sets, its chain lookups and the
\* rebuild loop removing exactly what the screening loop marked.
NoDuplicateSerials ==
    result = "template" =>
        /\ \A t, u \in BlockTxs :
              t # u => /\ tx[t].serials \cap tx[u].serials = {}
                       /\ tx[t].pubcoins \cap tx[u].pubcoins = {}
        /\ \A t \in BlockTxs :
              /\ \A s \in tx[t].serials : serialHeight[s] = NotInChain
              /\ tx[t].pubcoins \cap pubcoinInChain = {}

\* Spec section 4.3: the coinbase outputs, in order, as the table gives
\* them for (PoS, budget > 0, founder > 0), with the miner paid the block
\* reward and the capped network reserve.
ScheduleOuts(isPoS, r, networkReward) ==
    LET miner == IF isPoS THEN <<>> ELSE <<Output("miner", r.block + networkReward)>>
        founder == IF r.founder > 0 THEN <<Output("founder", r.founder)>> ELSE <<>>
        shares == IF r.budget > 0
                  THEN <<Output("budget", r.budget), Output("lab", r.lab)>> \o founder
                  ELSE <<>>
    IN  IF miner \o shares = <<>> THEN <<EmptyOutput>> ELSE miner \o shares

CoinbaseMatchesSchedule ==
    result = "template" =>
        coinbase.outs = ScheduleOuts(pos, Budget[tip + 1],
                                     IF reserve > MaxNetworkReward THEN MaxNetworkReward
                                     ELSE reserve)

\* The transactions the rebuild loop kept.
KeptTxs == {vtxReplace[k] : k \in 1..Len(vtxReplace)} \cap Txs

\* Spec section 4.2, step 7: the reserve adds the outputs to the network
\* reward script of the included transactions.  The screening loop adds
\* them before the rebuild loop drops transactions without inputs.
ReserveCountsOnlyIncluded ==
    result = "template" =>
        reserve = priorReserve + FS!MapThenSumSet(LAMBDA t : tx[t].reward, BlockTxs)

\* Spec section 4.2, step 8: a tx is a duplicate when one of its serials or
\* pubcoins is in another included tx or already on chain.  The screening
\* loop emplaces a tx's hashes before it finds that tx a duplicate.
Conflicting(t) ==
    \/ \E s \in tx[t].serials :
          \/ serialHeight[s] # NotInChain
          \/ \E u \in KeptTxs \ {t} : s \in tx[u].serials
    \/ \E c \in tx[t].pubcoins :
          \/ c \in pubcoinInChain
          \/ \E u \in KeptTxs \ {t} : c \in tx[u].pubcoins

NoNeedlessEviction ==
    phase \in {"coinbase", "finish", "done"} => \A t \in evicted : Conflicting(t)

\* Spec section 3: the coinbase scriptSig begins with the height of the
\* block, pindexPrev->nHeight + 1, including when the block had a spend of
\* a serial already on chain screened out.
CoinbaseHeightIsTemplateHeight ==
    coinbase # NoCoinbase => coinbase.height = tip + 1

\* Spec section 3: the second slot of a PoS block is reserved for the
\* coinstake; every transaction the rebuild loop kept is in the block.
SelectedTxsKept ==
    result = "template" => KeptTxs \subseteq BlockTxs
=============================================================================
