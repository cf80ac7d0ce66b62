---------------------------- MODULE MCFeeRegistry ----------------------------
(* A small instance of the fee registry: the canonical ladder, changed by    *)
(* governance at both ends and in the middle.                                *)
EXTENDS FeeRegistry

ChangedTier(id, min, bps, gov) ==
    [id |-> id, min_cl8y_balance |-> min, discount_bps |-> bps, governance_only |-> gov]

FewTierCalls ==
    {ChangedTier(0, 0, 10000, FALSE), ChangedTier(255, 0, 0, TRUE),
     ChangedTier(9, 2, 250, FALSE), ChangedTier(10, 1, 10000, FALSE),
     ChangedTier(4, 0, 10001, TRUE)}

=============================================================================
