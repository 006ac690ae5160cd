----------------------------- MODULE MCZkpTests -----------------------------
(* The test case at a small scale: the batch suite's 8, 24, 8 becomes      *)
(* 2, 6, 2 (start = step, three iterations), q = 5, one coefficient block. *)
EXTENDS ZkpTests
=============================================================================
