------------------------- MODULE MCPackageSelection -------------------------
(* Small mempools for addPackageTxs: three transactions, every DAG of     *)
(* parents over them, fees and sizes chosen so that feerates tie, differ   *)
(* and reorder when ancestors are included.                                *)
EXTENDS PackageSelection

MCTxs == {1, 2, 3}
MCFees == {0, 1, 3}
MCSizes == {1, 2}
=============================================================================
