----------------------------- MODULE GridIndexer -----------------------------
(***************************************************************************)
(* indexer.py over the operator's database: final blocks become raw        *)
(* events, one block per database transaction, and the vault's orders are  *)
(* refreshed from its present state.                                       *)
(***************************************************************************)
EXTENDS GridChain, FiniteSetsExt

VARIABLE db     \* scan cursor, active orders, raw events, batches

\* Raw events carry the batch that reconciled them, or None.
\* A batch record also holds its latest attempt.
Batch ==
    [state : {"ready", "signed", "broadcasting", "broadcast", "timeout", "unknown",
              "intervention", "confirmed"},
     items : SUBSET Orders, events : SUBSET Fill, failures : Nat, backoff : BOOLEAN,
     error : {"none", "check_failed", "deliver_failed", "page_reverted", "other"},
     attempt : {"none", "signed", "broadcasting", "broadcast", "timeout", "unknown",
                "check_failed", "deliver_failed", "page_reverted", "confirmed"},
     tx : Nat]      \* index into chain.txs, 0 before a hash is known

DbInit == db = [scanned |-> 0, active |-> {}, events |-> [f \in {} |-> None], batches |-> <<>>]

Unreconciled == {e \in DOMAIN db.events : db.events[e] = None}

-----------------------------------------------------------------------------

with_events(events, new) ==
    [e \in DOMAIN events \cup new |-> IF e \in DOMAIN events THEN events[e] ELSE None]

\* Faulty variant (see README, "Mutants"): only the refresh activates orders.
scan_without_placements(height) ==
    [db EXCEPT !.scanned = height,
               !.events = with_events(@,
                   {f \in chain.fills : f.height = height /\ f.order \in db.active})]

\* Placements activate orders before the fills of the block are looked at; a
\* fill counts only for an active order, and only once.
scan_height(height) ==
    LET active == db.active \cup {o \in Orders : chain.placed[o] = height}
    IN  [db EXCEPT !.scanned = height, !.active = active,
                   !.events = with_events(@,
                       {f \in chain.fills : f.height = height /\ f.order \in active})]

\* Faulty variant (see README, "Mutants"): an unknown broadcast holds the scan back.
scan_while_known ==
    IF \E b \in DOMAIN db.batches : db.batches[b].state = "unknown"
    THEN db.scanned ELSE finalized

scan_target == finalized

refresh_orders == [db EXCEPT !.active = chain.tracked]

=============================================================================
