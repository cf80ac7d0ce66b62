----------------------------- MODULE ShareVault -----------------------------
(***************************************************************************)
(* What a share vault promises, whatever contracts, swaps and callbacks    *)
(* implement it: two assets back a supply of shares; joining and leaving   *)
(* never lower the assets behind a share; a trade for the vault, which     *)
(* only a call to rebalance makes, gives up at most half of one asset;     *)
(* from the first share on, LOCKED shares are never redeemed.              *)
(***************************************************************************)
EXTENDS Integers

CONSTANTS LOCKED,   \* shares that are never redeemed
          Amount    \* the amounts considered: Nat, or a bound for TLC

\* What the theorems of ShareVault_proofs ask of the constants.
LockedSharesAssumption == LOCKED \in Nat \ {0}
AmountAssumption == Amount \subseteq Nat

VARIABLES assets,   \* token -> amount held for the share holders
          supply,   \* shares outstanding
          trading   \* whether what runs is a call to rebalance; not the vault's to choose

svars == <<assets, supply>>

Asset   == {0, 1}
Holding == [Asset -> Amount]

Start == assets \in Holding /\ supply = 0

\* The first deposit: both assets, more shares than the locked ones.
Bootstrap ==
    /\ supply = 0 /\ supply' > LOCKED
    /\ \A i \in Asset : assets'[i] >= assets[i] /\ assets'[i] > 0

\* A later deposit: no more shares than either asset's contribution earns.
Join ==
    /\ supply > 0 /\ supply' > supply
    /\ \A i \in Asset :
         (supply' - supply) * assets[i] <= (assets'[i] - assets[i]) * supply

\* A withdrawal or a burn: no more of either asset than the shares' part.
Leave ==
    /\ supply' < supply /\ supply' >= LOCKED
    /\ \A i \in Asset :
         /\ assets'[i] <= assets[i]
         /\ (assets[i] - assets'[i]) * supply <= assets[i] * (supply - supply')

\* A rebalance: at most half of one asset for some of the other; the shares
\* minted for the fee earn at most what the trade brought in.
Trade ==
    /\ trading
    /\ \E offer \in Asset :
         /\ assets'[offer] < assets[offer] /\ 2 * assets'[offer] >= assets[offer]
         /\ assets'[1 - offer] >= assets[1 - offer]
         /\ (supply' - supply) * assets'[1 - offer]
              <= (assets'[1 - offer] - assets[1 - offer]) * supply'
    /\ supply' >= supply
    /\ supply = 0 => supply' = 0

Donation ==
    /\ \A i \in Asset : assets'[i] >= assets[i]
    /\ supply' = supply

Step ==
    /\ assets' \in Holding /\ supply' \in Amount
    /\ Bootstrap \/ Join \/ Leave \/ Trade \/ Donation

SVSpec == Start /\ [][Step]_svars

-----------------------------------------------------------------------------

\* Amounts are amounts.
SVTypeOK == assets \in Holding /\ supply \in Nat

\* Outstanding shares include the locked ones and are backed by both assets.
Backed == supply > 0 => supply >= LOCKED /\ \A i \in Asset : assets[i] > 0

\* While shares are outstanding, the assets behind a share fall only while a
\* rebalance runs: no other call, whatever it swaps, mints or pays out on the
\* way, dilutes anyone.
BackingKept ==
    [][supply > 0 /\ ~trading =>
         \A i \in Asset : assets'[i] * supply >= assets[i] * supply']_svars

=============================================================================
