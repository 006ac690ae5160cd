--------------------------- MODULE MCBlockAssembly ---------------------------
(* A budget schedule over four heights that goes through every row of the *)
(* coinbase table: no budget, budget with founder, budget without founder. *)
EXTENDS BlockAssembly

MCBudget ==
    [h \in 1..4 |->
        CASE h = 1 -> [block |-> 4, founder |-> 1, lab |-> 1, budget |-> 0]
          [] h = 2 -> [block |-> 4, founder |-> 0, lab |-> 0, budget |-> 0]
          [] h = 3 -> [block |-> 4, founder |-> 1, lab |-> 1, budget |-> 2]
          [] h = 4 -> [block |-> 3, founder |-> 0, lab |-> 1, budget |-> 2]]
=============================================================================
