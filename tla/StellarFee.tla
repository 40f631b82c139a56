------------------------------ MODULE StellarFee ------------------------------
(***************************************************************************)
(* The fee contract (contracts/stellarspend-fee).  It computes the fee of  *)
(* a payment from a rate, a priority and bounds, by default or for an      *)
(* asset, and adds it up in four places: in total, by user, by asset and   *)
(* by user and asset.  It moves no tokens.  Time windows of the rate are   *)
(* looked up but no call can set one, so they are left out.                *)
(***************************************************************************)
EXTENDS Sequences, FiniteSets, Functions, Integers

CONSTANTS Users, Assets, Unset, Priorities,
          Rates,               \* in basis points
          Multipliers,         \* functions of the priority, in basis points
          DefaultMultipliers,
          Bounds,              \* [min, max] arguments
          Amounts,
          Batches,             \* vectors of [payer, asset, amount, priority]
          MaxCollected, MaxLogs

VARIABLES Admin, FeeConfig, PriorityFeeConfig, FeeBounds, AssetFeeConfig,
          TotalFeesCollected, UserFeesAccrued, AssetFeesCollected, UserAssetFeesAccrued,
          FeeLog
config == <<Admin, FeeConfig, PriorityFeeConfig, FeeBounds, AssetFeeConfig>>
books == <<TotalFeesCollected, UserFeesAccrued, AssetFeesCollected, UserAssetFeesAccrued>>
vars == <<config, books, FeeLog>>

BPS == 10000

\* validate_priority_fee_config: a higher priority never costs less.
Ascending(ms) == \A p, q \in Priorities : p <= q => 0 < ms[p] /\ ms[p] <= ms[q]

\* What the proofs assume of the constants: rates, multipliers and priorities
\* have no sign, amounts and bounds have one.
StellarFeeAssumption ==
  /\ IsFiniteSet(Users) /\ IsFiniteSet(Assets) /\ Priorities \subseteq Nat
  /\ Unset \notin Users /\ Unset \notin Assets
  /\ Unset \notin [rate : Nat, priority : [Priorities -> Nat]]
  /\ Unset \notin [min : Int, max : Int] /\ Unset \notin [rate : Nat, min : Int, max : Int]
  /\ Rates \subseteq Nat /\ Multipliers \subseteq [Priorities -> Nat]
  /\ DefaultMultipliers \in [Priorities -> Nat] /\ Ascending(DefaultMultipliers)
  /\ Bounds \subseteq [min : Int, max : Int] /\ Amounts \subseteq Int
  /\ Batches \subseteq Seq([payer : Users, asset : Assets, amount : Int, priority : Priorities])

Init == /\ Admin = Unset /\ FeeConfig = Unset /\ PriorityFeeConfig = DefaultMultipliers
        /\ FeeBounds = Unset
        /\ AssetFeeConfig = [a \in Assets |-> Unset]
        /\ TotalFeesCollected = 0
        /\ UserFeesAccrued = [u \in Users |-> 0]
        /\ AssetFeesCollected = [a \in Assets |-> 0]
        /\ UserAssetFeesAccrued = [u \in Users |-> [a \in Assets |-> 0]]
        /\ FeeLog = << >>

Initialize(admin, rate) ==
  /\ Admin = Unset
  /\ rate <= BPS
  /\ Admin' = admin
  /\ TotalFeesCollected' = 0
  /\ PriorityFeeConfig' = DefaultMultipliers
  /\ FeeConfig' = [rate |-> rate, priority |-> DefaultMultipliers]
  /\ UNCHANGED <<FeeBounds, AssetFeeConfig, UserFeesAccrued, AssetFeesCollected,
                 UserAssetFeesAccrued, FeeLog>>

RequireAdmin(caller) == Admin # Unset /\ caller = Admin

SetPriorityMultipliers(caller, ms) ==
  /\ RequireAdmin(caller)
  /\ Ascending(ms)
  /\ PriorityFeeConfig' = ms
  /\ FeeConfig' = [FeeConfig EXCEPT !.priority = ms]
  /\ UNCHANGED <<Admin, FeeBounds, AssetFeeConfig, books, FeeLog>>

ValidBounds(b) == b.min >= 0 /\ b.max >= 0 /\ b.min <= b.max

SetFeeBounds(caller, b) ==
  /\ RequireAdmin(caller)
  /\ ValidBounds(b)
  /\ FeeBounds' = b
  /\ UNCHANGED <<Admin, FeeConfig, PriorityFeeConfig, AssetFeeConfig, books, FeeLog>>

SetFeeRate(caller, rate) ==
  /\ RequireAdmin(caller)
  /\ rate <= BPS
  /\ FeeConfig' = [FeeConfig EXCEPT !.rate = rate]
  /\ UNCHANGED <<Admin, PriorityFeeConfig, FeeBounds, AssetFeeConfig, books, FeeLog>>

SetAssetFeeConfig(caller, asset, rate, b) ==
  /\ RequireAdmin(caller)
  /\ rate <= BPS
  /\ ValidBounds(b)
  /\ AssetFeeConfig' = [AssetFeeConfig EXCEPT ![asset] =
                          [rate |-> rate, min |-> b.min, max |-> b.max]]
  /\ UNCHANGED <<Admin, FeeConfig, PriorityFeeConfig, FeeBounds, books, FeeLog>>

------------------------------------------------------------------------------
\* What a payment costs.

AtLeast(m, n) == IF n < m THEN m ELSE n
AtMost(m, n) == IF n > m THEN m ELSE n

PriorityRate(rate, multiplier) == (rate * multiplier) \div BPS
DefaultFee(amount, p) ==
  (amount * PriorityRate(FeeConfig.rate, FeeConfig.priority[p])) \div BPS

MinFee == IF FeeBounds = Unset THEN 0 ELSE FeeBounds.min
WithinBounds(fee) ==
  IF FeeBounds = Unset THEN AtLeast(0, fee) ELSE AtMost(FeeBounds.max, AtLeast(MinFee, fee))

\* A bound of 0 of an asset is no bound.
AssetFee(c, amount, p) ==
  LET fee == (amount * PriorityRate(c.rate, PriorityFeeConfig[p])) \div BPS
      raised == IF c.min > 0 THEN AtLeast(c.min, fee) ELSE fee
  IN  IF c.max > 0 THEN AtMost(c.max, raised) ELSE raised

\* An asset without settings pays the default fee, outside the default bounds.
FeeFor(asset, amount, p) ==
  IF AssetFeeConfig[asset] = Unset THEN DefaultFee(amount, p)
  ELSE AssetFee(AssetFeeConfig[asset], amount, p)

FallbackFee(amount, p) ==
  LET fee == WithinBounds(DefaultFee(amount, p)) IN
  IF fee <= amount THEN fee ELSE AtMost(amount, MinFee)

\* The default fee that replaces an asset's is not compared with the amount.
AssetFallbackFee(asset, amount, p) ==
  IF AssetFeeConfig[asset] # Unset /\ AssetFee(AssetFeeConfig[asset], amount, p) <= amount
  THEN AssetFee(AssetFeeConfig[asset], amount, p)
  ELSE DefaultFee(amount, p)

------------------------------------------------------------------------------
\* Adding it up.  A charge is [payer, asset, fee].

\* The fees of the charges at the positions I.
Of(charges, I) == FoldFunctionOnSet(+, 0, [i \in DOMAIN charges |-> charges[i].fee], I)
FeeSum(charges) == Of(charges, DOMAIN charges)
OfPayer(charges, u) == {i \in DOMAIN charges : charges[i].payer = u}
OfAsset(charges, a) == {i \in DOMAIN charges : charges[i].asset = a}

AddToAssets(charges) ==
  AssetFeesCollected' = [a \in Assets |->
    AssetFeesCollected[a] + Of(charges, OfAsset(charges, a))]

AddToTotal(charges) ==
  /\ TotalFeesCollected + FeeSum(charges) <= MaxCollected
  /\ TotalFeesCollected' = TotalFeesCollected + FeeSum(charges)

AddToUsers(charges) ==
  UserFeesAccrued' = [u \in Users |->
    UserFeesAccrued[u] + Of(charges, OfPayer(charges, u))]

AddToUserAssets(charges) ==
  UserAssetFeesAccrued' = [u \in Users |-> [a \in Assets |->
    UserAssetFeesAccrued[u][a] + Of(charges, OfPayer(charges, u) \cap OfAsset(charges, a))]]

CanCharge(amount) == Admin # Unset /\ amount > 0

\* deduct_fee_with_priority and deduct_fee_with_fallback: the user's total only.
DeductFee(payer, fee) ==
  LET charges == <<[payer |-> payer, asset |-> Unset, fee |-> fee]>> IN
  /\ AddToTotal(charges) /\ AddToUsers(charges)
  /\ UNCHANGED <<config, AssetFeesCollected, UserAssetFeesAccrued, FeeLog>>

DeductFeeWithPriority(payer, amount, p) ==
  /\ CanCharge(amount)
  /\ DeductFee(payer, WithinBounds(DefaultFee(amount, p)))

DeductFeeWithFallback(payer, amount, p) ==
  /\ CanCharge(amount)
  /\ DeductFee(payer, FallbackFee(amount, p))

\* deduct_asset_fee and its fallback: not the user's total.
DeductFeeOfAsset(payer, asset, fee) ==
  LET charges == <<[payer |-> payer, asset |-> asset, fee |-> fee]>> IN
  /\ AddToTotal(charges) /\ AddToAssets(charges) /\ AddToUserAssets(charges)
  /\ UNCHANGED <<config, UserFeesAccrued, FeeLog>>

DeductAssetFee(payer, asset, amount, p) ==
  /\ CanCharge(amount)
  /\ DeductFeeOfAsset(payer, asset, FeeFor(asset, amount, p))

DeductAssetFeeWithFallback(payer, asset, amount, p) ==
  /\ CanCharge(amount)
  /\ DeductFeeOfAsset(payer, asset, AssetFallbackFee(asset, amount, p))

\* All payments of the batch or none; every total moves.
DeductBatchFees(batch) ==
  LET charges == [i \in DOMAIN batch |->
        [payer |-> batch[i].payer, asset |-> batch[i].asset,
         fee |-> FeeFor(batch[i].asset, batch[i].amount, batch[i].priority)]]
  IN  /\ Admin # Unset
      /\ \A i \in DOMAIN batch : batch[i].amount > 0
      /\ AddToTotal(charges) /\ AddToUsers(charges)
      /\ AddToAssets(charges) /\ AddToUserAssets(charges)
      /\ UNCHANGED <<config, FeeLog>>

\* Called by anyone, about any payer and amount; no total moves.
RecordFeeRefund(payer, amount, fee) ==
  /\ Len(FeeLog) < MaxLogs
  /\ FeeLog' = Append(FeeLog, [id |-> Len(FeeLog) + 1, payer |-> payer,
                               gross |-> amount, fee |-> fee])
  /\ UNCHANGED <<config, books>>

Next ==
  \/ \E u \in Users, r \in Rates : Initialize(u, r) \/ SetFeeRate(u, r)
  \/ \E u \in Users, ms \in Multipliers : SetPriorityMultipliers(u, ms)
  \/ \E u \in Users, b \in Bounds : SetFeeBounds(u, b)
  \/ \E u \in Users, a \in Assets, r \in Rates, b \in Bounds : SetAssetFeeConfig(u, a, r, b)
  \/ \E u \in Users, n \in Amounts, p \in Priorities :
       \/ DeductFeeWithPriority(u, n, p) \/ DeductFeeWithFallback(u, n, p)
       \/ \E a \in Assets : \/ DeductAssetFee(u, a, n, p)
                            \/ DeductAssetFeeWithFallback(u, a, n, p)
  \/ \E b \in Batches : DeductBatchFees(b)
  \/ \E u \in Users, n \in Amounts : RecordFeeRefund(u, n, n)

Spec == Init /\ [][Next]_vars

------------------------------------------------------------------------------
\* Every reachable state is well formed.
TypeOK ==
  /\ Admin = Unset <=> FeeConfig = Unset
  /\ Admin # Unset => /\ Admin \in Users /\ FeeConfig.rate \in 0..BPS
                      /\ FeeConfig.priority = PriorityFeeConfig
  /\ Ascending(PriorityFeeConfig)
  /\ \A a \in Assets : AssetFeeConfig[a] # Unset => ValidBounds(AssetFeeConfig[a])
  /\ TotalFeesCollected \in Nat /\ UserFeesAccrued \in [Users -> Nat]
  /\ AssetFeesCollected \in [Assets -> Nat]
  /\ UserAssetFeesAccrued \in [Users -> [Assets -> Nat]]
  /\ \A i \in DOMAIN FeeLog : FeeLog[i].id = i

\* The books agree: an asset's total is its users', no total by user or by asset
\* exceeds the overall one, and nothing was collected that neither books.
BooksAgree ==
  LET assets == FoldFunction(+, 0, AssetFeesCollected)
      users == FoldFunction(+, 0, UserFeesAccrued)
  IN  /\ \A a \in Assets :
           AssetFeesCollected[a] =
             FoldFunction(+, 0, [u \in Users |-> UserAssetFeesAccrued[u][a]])
      /\ assets <= TotalFeesCollected /\ users <= TotalFeesCollected
      /\ TotalFeesCollected <= assets + users

\* In whatever state the settings are, the fee with fallback leaves the payer a
\* net amount that is not negative, and a higher priority never costs less than
\* a lower one that did not fall back.
FallbackLeavesNet ==
  FeeConfig # Unset =>
    \A n \in {m \in Amounts : m > 0}, p \in Priorities :
      /\ FallbackFee(n, p) \in 0..n
      /\ \A q \in Priorities : p <= q =>
           WithinBounds(DefaultFee(n, p)) <= WithinBounds(DefaultFee(n, q))
===============================================================================
