---------------------------- MODULE MCMinerDriver ----------------------------
(* Two thread slots, a wallet reserve script and nullptr, a chain that    *)
(* grows by at most MaxHeight blocks.                                      *)
EXTENDS MinerDriver

CONSTANTS t1, t2, wallet, null, none

MCThreads == {t1, t2}
=============================================================================
