----------------------------- MODULE MCLimitGrid -----------------------------
(***************************************************************************)
(* Small instances of the limit grid for TLC: one bid and two asks around  *)
(* the reference price 3/2.                                                *)
(***************************************************************************)
EXTENDS LimitGrid

Pair(a, b) == [i \in {0, 1} |-> IF i = 0 THEN a ELSE b]

ThreeRungs == {[lower_price |-> 2, upper_price |-> 6, grid_count |-> 3]}
PoolOf3    == {Pair(2, 3)}

WithFees == {[keeper |-> "k1", fees |-> TRUE, vault_code_id |-> 1]}

Holdings == [t \in Token |-> [a \in Account |-> CASE a = GRID -> 0
                                                  [] a = OTHERS -> 1
                                                  [] OTHER -> 2]]
=============================================================================
