-------------------------- MODULE ShareVault_proofs --------------------------
(***************************************************************************)
(* What the share vault's promise implies for its holders, for every set   *)
(* of amounts and every positive number of locked shares.                  *)
(***************************************************************************)
EXTENDS ShareVault, TLAPS

\* The typing the theorems below rest on; the steps require it of themselves.
LEMMA SVTyping ==
  ASSUME AmountAssumption
  PROVE  SVSpec => []SVTypeOK
<1>1. Start => SVTypeOK
  BY DEF Start, SVTypeOK
<1>2. SVTypeOK /\ [Step]_svars => SVTypeOK'
  BY AmountAssumption DEF AmountAssumption, SVTypeOK, Step, svars, Holding
<1>3. QED
  BY <1>1, <1>2, PTL DEF SVSpec

\* A withdrawal that leaves shares outstanding leaves some of both assets: it
\* takes at most the part of each asset that the shares it burns stand for.
LEMMA LeaveKeepsSome ==
  ASSUME NEW b \in Nat, NEW c \in Nat, NEW s \in Nat, NEW t \in Nat,
         b > 0, c <= b, t < s, t > 0, (b - c) * s <= b * (s - t)
  PROVE  c > 0
<1>1. SUFFICES ASSUME c = 0 PROVE FALSE
  OBVIOUS
<1>2. b * s <= b * (s - t)
  BY <1>1
<1>3. b * s - b * t >= b * s
  BY <1>2
<1>4. b * t > 0
  OBVIOUS
<1>5. b * s \in Int /\ b * t \in Int
  OBVIOUS
<1>6. QED
  BY <1>3, <1>4, <1>5

\* At most half of an asset is traded away, so a trade never empties it.
LEMMA HalfKeepsSome ==
  ASSUME NEW b \in Nat, NEW c \in Nat, b > 0, 2 * c >= b
  PROVE  c > 0
  OBVIOUS

\* A deposit that mints shares brings some of an asset the vault already holds.
LEMMA JoinKeepsSome ==
  ASSUME NEW b \in Nat, NEW c \in Nat, NEW s \in Nat, NEW t \in Nat,
         b > 0, s > 0, t > s, (t - s) * b <= (c - b) * s
  PROVE  c > 0
<1>1. SUFFICES ASSUME c = 0 PROVE FALSE
  OBVIOUS
<1>2. (t - s) * b > 0
  OBVIOUS
<1>3. (c - b) * s < 0
  BY <1>1
<1>4. QED
  BY <1>2, <1>3

\* From the first share on, the locked shares and some of both assets stay:
\* the next deposit can always be priced and the last holder is never left
\* with an empty vault.
THEOREM AlwaysBacked ==
  ASSUME AmountAssumption, LockedSharesAssumption
  PROVE  SVSpec => []Backed
<1>1. Start => Backed
  BY DEF Start, Backed
<1>2. ASSUME SVTypeOK, Backed, [Step]_svars PROVE Backed'
  <2>1. CASE UNCHANGED svars
    BY <2>1, <1>2 DEF svars, Backed
  <2>2. CASE Step
    <3>0. /\ supply \in Nat /\ supply' \in Nat
          /\ \A i \in Asset : assets[i] \in Nat /\ assets'[i] \in Nat
      BY <1>2, <2>2, AmountAssumption DEF AmountAssumption, SVTypeOK, Step, Holding
    <3>1. CASE Bootstrap
      BY <3>0, <3>1, LockedSharesAssumption DEF LockedSharesAssumption, Bootstrap, Backed
    <3>2. CASE Join
      BY <3>0, <3>2, <1>2, JoinKeepsSome, LockedSharesAssumption DEF LockedSharesAssumption, Join, Backed
    <3>3. CASE Leave
      <4>1. supply > 0 /\ supply' > 0
        BY <3>0, <3>3, LockedSharesAssumption DEF LockedSharesAssumption, Leave
      <4>2. \A i \in Asset : assets'[i] > 0
        BY <4>1, <3>0, <3>3, <1>2, LeaveKeepsSome DEF Leave, Backed
      <4>3. QED
        BY <4>2, <3>3 DEF Leave, Backed
    <3>4. CASE Trade
      <4>1. PICK offer \in Asset : /\ 2 * assets'[offer] >= assets[offer]
                                   /\ assets'[1 - offer] >= assets[1 - offer]
        BY <3>4 DEF Trade
      <4>2. SUFFICES ASSUME supply > 0
                     PROVE  supply' >= LOCKED /\ \A i \in Asset : assets'[i] > 0
        BY <3>0, <3>4 DEF Trade, Backed
      <4>3. supply' >= LOCKED
        BY <4>2, <3>0, <3>4, <1>2, LockedSharesAssumption DEF LockedSharesAssumption, Trade, Backed
      <4>4. assets'[offer] > 0 /\ assets'[1 - offer] > 0
        BY <4>1, <4>2, <3>0, <1>2, HalfKeepsSome DEF Backed, Asset
      <4>5. QED
        BY <4>3, <4>4 DEF Asset
    <3>5. CASE Donation
      BY <3>0, <3>5, <1>2 DEF Donation, Backed
    <3>6. QED
      BY <2>2, <3>1, <3>2, <3>3, <3>4, <3>5 DEF Step
  <2>3. QED
    BY <1>2, <2>1, <2>2
<1>3. QED
  BY <1>1, <1>2, SVTyping, AmountAssumption, PTL DEF SVSpec

\* No call but a rebalance lowers the assets behind a share, for either asset:
\* not a deposit or a withdrawal, with or without a swap, nor a burn or a
\* donation.
THEOREM NobodyDiluted ==
  ASSUME AmountAssumption
  PROVE  SVSpec => BackingKept
<1> DEFINE Kept == supply > 0 /\ ~trading =>
                     \A i \in Asset : assets'[i] * supply >= assets[i] * supply'
<1>1. ASSUME SVTypeOK, [Step]_svars PROVE [Kept]_svars
  <2>1. CASE UNCHANGED svars
    BY <2>1
  <2>2. CASE Step
    <3>0. /\ supply \in Nat /\ supply' \in Nat
          /\ \A i \in Asset : assets[i] \in Nat /\ assets'[i] \in Nat
      BY <1>1, <2>2, AmountAssumption DEF AmountAssumption, SVTypeOK, Step, Holding
    <3>1. SUFFICES ASSUME supply > 0, ~trading, NEW i \in Asset
                   PROVE  assets'[i] * supply >= assets[i] * supply'
      OBVIOUS
    <3>2. /\ supply \in Nat /\ supply' \in Nat
          /\ assets[i] \in Nat /\ assets'[i] \in Nat
      BY <3>0
    <3>3. CASE Join
      <4>1. (supply' - supply) * assets[i] <= (assets'[i] - assets[i]) * supply
        BY <3>3 DEF Join
      <4>2. QED
        BY <4>1, <3>2
    <3>4. CASE Leave
      <4>1. (assets[i] - assets'[i]) * supply <= assets[i] * (supply - supply')
        BY <3>4 DEF Leave
      <4>2. QED
        BY <4>1, <3>2
    <3>5. CASE Donation
      <4>1. assets'[i] >= assets[i] /\ supply' = supply
        BY <3>5 DEF Donation
      <4>2. QED
        BY <4>1, <3>2
    <3>6. ~Bootstrap /\ ~Trade
      BY <3>1, <3>0 DEF Bootstrap, Trade
    <3>7. QED
      BY <2>2, <3>1, <3>3, <3>4, <3>5, <3>6 DEF Step
  <2>3. QED
    BY <1>1, <2>1, <2>2
<1>2. QED
  BY <1>1, SVTyping, AmountAssumption, PTL DEF SVSpec, BackingKept

=============================================================================
