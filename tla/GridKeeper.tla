------------------------------ MODULE GridKeeper ------------------------------
(***************************************************************************)
(* keeper.py: one bounded batch of orders at a time is frozen, signed,     *)
(* marked, broadcast and polled.  Every operator below is one transaction  *)
(* of the operator's database on one batch.                                *)
(***************************************************************************)
EXTENDS GridIndexer

CONSTANTS
    MaxOrders,      \* GRID_MAX_ORDERS_PER_BATCH
    MAX_FAILURES    \* 3 in the code

ASSUME GridKeeperAssumption == MaxOrders \in Nat \ {0} /\ MAX_FAILURES \in Nat \ {0}

\* Faulty variant (see README, "Mutants"): a batch in intervention is not waited for.
unattended_batch_states ==
    {"ready", "signed", "broadcasting", "broadcast", "timeout", "unknown"}

ACTIVE_BATCH_STATES ==
    {"ready", "signed", "broadcasting", "broadcast", "timeout", "unknown", "intervention"}

ActiveBatches == {b \in DOMAIN db.batches : db.batches[b].state \in ACTIVE_BATCH_STATES}

-----------------------------------------------------------------------------
(* freeze_batch *)

batched == UNION {db.batches[b].events : b \in DOMAIN db.batches}

\* Events wait when no batch has taken them; their order may have others too.
waiting_events(o) == {e \in Unreconciled : e.order = o /\ e \notin batched}
waiting_orders    == {o \in Orders : waiting_events(o) # {}}
first_height(o)   == Min({e.height : e \in waiting_events(o)})

\* The orders that have waited longest, at most MaxOrders of them.
next_items ==
    {o \in waiting_orders :
        Cardinality({other \in waiting_orders : first_height(other) < first_height(o)})
            < MaxOrders}

frozen_batch(items) ==
    [state |-> "ready", items |-> items, failures |-> 0, backoff |-> FALSE, error |-> "none",
     events |-> {e \in Unreconciled : e.order \in items}, attempt |-> "none", tx |-> 0]

-----------------------------------------------------------------------------
(* process_batch *)

\* Faulty variant (see README, "Mutants"): an unknown broadcast is tried again.
retry_restarted(batch) == [batch EXCEPT !.state = "ready", !.attempt = "unknown"]

\* A previous process may have reached the node but died before saving its
\* response.
restarted(batch) == [batch EXCEPT !.state = "unknown", !.attempt = "unknown", !.error = "other"]

sign_failed(batch) == [batch EXCEPT !.error = "other"]

signed(batch) == [batch EXCEPT !.state = "signed", !.attempt = "signed", !.error = "none",
                               !.tx = 0]

marked(batch) == [batch EXCEPT !.state = "broadcasting", !.attempt = "broadcasting"]

answer_lost(batch) == [batch EXCEPT !.state = "unknown", !.attempt = "unknown", !.error = "other"]

answered(batch, tx) == [batch EXCEPT !.state = "broadcast", !.attempt = "broadcast", !.tx = tx]

record_failure(batch, reason) ==
    LET failures == batch.failures + 1
        given_up == failures >= MAX_FAILURES
    IN  [batch EXCEPT !.state = IF given_up THEN "intervention" ELSE "ready",
                      !.attempt = reason, !.error = reason, !.failures = failures,
                      !.backoff = ~given_up]

\* The command clear-intervention of cli.py.
intervention_cleared(batch) ==
    [batch EXCEPT !.state = "ready", !.error = "none", !.failures = 0, !.backoff = FALSE]

\* Faulty variant (see README, "Mutants"): an inclusion not seen in time counts as
\* unknown.
timed_out_unknown(batch) == answer_lost(batch)

timed_out(batch) == [batch EXCEPT !.state = "timeout", !.attempt = "timeout", !.error = "other"]

-----------------------------------------------------------------------------
(* _poll and _confirm *)

\* Faulty variant (see README, "Mutants"): inclusion is enough.
included(tx) == chain.txs[tx].status # "pending"

\* Included, and as deep as the finality depth asks.
observed(tx) == chain.txs[tx].status # "pending" /\ chain.tip >= chain.txs[tx].height + Depth

\* The reconcile covers its orders' fills up to the height it was executed at.
covered_by(e, items, height) == e.order \in items /\ e.height <= height

confirmed(b) ==
    LET batch  == db.batches[b]
        height == chain.txs[batch.tx].height
    IN  [db EXCEPT
            !.events = [e \in DOMAIN db.events |->
                IF db.events[e] = None /\ covered_by(e, batch.items, height)
                THEN b ELSE db.events[e]],
            !.batches[b] = [batch EXCEPT !.state = "confirmed", !.attempt = "confirmed",
                                         !.error = "none"]]

=============================================================================
