--------------------------------- MODULE Fees ---------------------------------
(***************************************************************************)
(* The fees contract (contracts/fees.rs) and the treasury it credits       *)
(* (contracts/treasury).  A fee is split between the treasury and the      *)
(* total to distribute, or waits in escrow until the administrator         *)
(* releases it; refunds come out of the total, and a distribution shares   *)
(* all of it among recipients.  A fee delegate only has to sign as well,   *)
(* so delegates are left out.                                              *)
(***************************************************************************)
EXTENDS Sequences, FiniteSets, Functions, Integers

CONSTANTS Users, Treasuries, Recipients, Categories, Unset, Priorities,
          Percentages,         \* in basis points
          Multipliers, DefaultMultipliers,
          Bounds, Amounts, Distributions, Periods,
          DEFAULT_CATEGORY,
          MaxCollected, MaxSnapshots

VARIABLES Admin,
          Settings,            \* percentage, rounding mode, bounds and multipliers
          Treasury,            \* Unset, or [address, percentage]
          FeeDistribution,     \* Unset, or a sequence of [address, share_bps]
          FeeCategoryMap,
          TotalFeesCollected, UserFeesAccrued, EscrowedFees, CategoryFees,
          TotalTreasuryFees, RecipientFeesAccumulated,
          TreasuryFees,        \* what each treasury contract was credited
          FeeSnapshot, SnapshotCount
config == <<Admin, Settings, Treasury, FeeDistribution, FeeCategoryMap>>
charged == <<UserFeesAccrued, CategoryFees, TotalTreasuryFees, TreasuryFees>>
money == <<charged, TotalFeesCollected, EscrowedFees, RecipientFeesAccumulated>>
snapshots == <<FeeSnapshot, SnapshotCount>>
vars == <<config, money, snapshots>>

BPS == 10000
RoundingModes == {"Floor", "Round", "Ceiling"}

\* Only the order is checked: the lowest priorities may pay nothing.
Ascending(ms) == \A p, q \in Priorities : p <= q => ms[p] <= ms[q]

\* What the proofs assume of the constants.
FeesAssumption ==
  /\ IsFiniteSet(Users) /\ IsFiniteSet(Treasuries) /\ IsFiniteSet(Recipients)
  /\ Unset \notin Users /\ DEFAULT_CATEGORY \in Categories /\ Priorities \subseteq Nat
  /\ Unset \notin [address : Treasuries, percentage : Nat]
  /\ Unset \notin [min : Int, max : Int]
  /\ Unset \notin Seq([address : Recipients, share_bps : Nat])
  /\ Percentages \subseteq Nat /\ Multipliers \subseteq [Priorities -> Nat]
  /\ DefaultMultipliers \in [Priorities -> Nat] /\ Ascending(DefaultMultipliers)
  /\ Bounds \subseteq [min : Int, max : Int] /\ Amounts \subseteq Int
  /\ Distributions \subseteq Seq([address : Recipients, share_bps : Nat])
  /\ MaxSnapshots \in Nat

Init == /\ Admin = Unset
        /\ Settings = [percentage |-> 0, rounding |-> "Round", bounds |-> Unset,
                       priority |-> DefaultMultipliers]
        /\ Treasury = Unset /\ FeeDistribution = Unset
        /\ FeeCategoryMap = [u \in Users |-> DEFAULT_CATEGORY]
        /\ TotalFeesCollected = 0 /\ TotalTreasuryFees = 0
        /\ UserFeesAccrued = [u \in Users |-> 0]
        /\ EscrowedFees = [u \in Users |-> 0]
        /\ CategoryFees = [c \in Categories |-> 0]
        /\ RecipientFeesAccumulated = [r \in Recipients |-> 0]
        /\ TreasuryFees = [t \in Treasuries |-> 0]
        /\ FeeSnapshot = [p \in Periods |-> Unset] /\ SnapshotCount = 0

Initialize(admin, percentage) ==
  /\ Admin = Unset
  /\ percentage <= BPS
  /\ Admin' = admin
  /\ Settings' = [Settings EXCEPT !.percentage = percentage]
  /\ TotalFeesCollected' = 0
  /\ UNCHANGED <<Treasury, FeeDistribution, FeeCategoryMap, charged, EscrowedFees,
                 RecipientFeesAccumulated, snapshots>>

RequireAdmin(caller) == Admin # Unset /\ caller = Admin

------------------------------------------------------------------------------
\* Settings.

Configure(caller, settings) ==
  /\ RequireAdmin(caller)
  /\ Settings' = settings
  /\ UNCHANGED <<Admin, Treasury, FeeDistribution, FeeCategoryMap, charged,
                 TotalFeesCollected, EscrowedFees, RecipientFeesAccumulated, snapshots>>

SetPercentage(caller, percentage) ==
  percentage <= BPS /\ Configure(caller, [Settings EXCEPT !.percentage = percentage])

SetRoundingMode(caller, mode) == Configure(caller, [Settings EXCEPT !.rounding = mode])

SetFeeBounds(caller, b) ==
  /\ b.min >= 0 /\ b.max >= b.min
  /\ Configure(caller, [Settings EXCEPT !.bounds = b])

SetPriorityMultipliers(caller, ms) ==
  Ascending(ms) /\ Configure(caller, [Settings EXCEPT !.priority = ms])

SetTreasury(caller, treasury, percentage) ==
  /\ RequireAdmin(caller)
  /\ percentage <= BPS
  /\ Treasury' = [address |-> treasury, percentage |-> percentage]
  /\ UNCHANGED <<Admin, Settings, FeeDistribution, FeeCategoryMap, charged,
                 TotalFeesCollected, EscrowedFees, RecipientFeesAccumulated, snapshots>>

SetUserFeeCategory(caller, u, category) ==
  /\ RequireAdmin(caller)
  /\ FeeCategoryMap' = [FeeCategoryMap EXCEPT ![u] = category]
  /\ UNCHANGED <<Admin, Settings, Treasury, FeeDistribution, charged,
                 TotalFeesCollected, EscrowedFees, RecipientFeesAccumulated, snapshots>>

ShareSum(recipients) ==
  FoldFunction(+, 0, [i \in DOMAIN recipients |-> recipients[i].share_bps])

\* A recipient may be named twice.
SetDistribution(caller, recipients) ==
  /\ RequireAdmin(caller)
  /\ recipients # << >>
  /\ \A i \in DOMAIN recipients : recipients[i].share_bps <= BPS
  /\ ShareSum(recipients) = BPS
  /\ FeeDistribution' = recipients
  /\ UNCHANGED <<Admin, Settings, Treasury, FeeCategoryMap, charged,
                 TotalFeesCollected, EscrowedFees, RecipientFeesAccumulated, snapshots>>

------------------------------------------------------------------------------
\* Charging.

Rounded(raw) == CASE Settings.rounding = "Floor" -> raw \div BPS
                  [] Settings.rounding = "Round" -> (raw + BPS \div 2) \div BPS
                  [] Settings.rounding = "Ceiling" -> (raw + BPS - 1) \div BPS

FeeAt(amount, rate) ==
  LET fee == Rounded(amount * rate)
      b == Settings.bounds
  IN  IF b = Unset THEN fee
      ELSE IF fee < b.min THEN b.min ELSE IF fee > b.max THEN b.max ELSE fee

CalculateFee(amount) == FeeAt(amount, Settings.percentage)
CalculateFeeWithPriority(amount, p) ==
  FeeAt(amount, (Settings.percentage * Settings.priority[p]) \div BPS)

TreasuryPortion(fee) ==
  IF Treasury = Unset THEN 0 ELSE (fee * Treasury.percentage) \div BPS

\* Mutant: the treasury's part stays in the total as well.
RemainingAll(fee) == fee
Remaining(fee) == fee - TreasuryPortion(fee)

CanCharge(amount) == Admin # Unset /\ amount > 0
Charges == FoldFunction(+, 0, CategoryFees)

Deduct(payer, fee) ==
  /\ Charges + fee <= MaxCollected
  /\ TotalTreasuryFees' = TotalTreasuryFees + TreasuryPortion(fee)
  /\ TreasuryFees' = IF TreasuryPortion(fee) = 0 THEN TreasuryFees
                     ELSE [TreasuryFees EXCEPT ![Treasury.address] = @ + TreasuryPortion(fee)]
  /\ CategoryFees' = [CategoryFees EXCEPT ![FeeCategoryMap[payer]] = @ + fee]
  /\ TotalFeesCollected' = TotalFeesCollected + Remaining(fee)
  /\ UserFeesAccrued' = [UserFeesAccrued EXCEPT ![payer] = @ + fee]
  /\ UNCHANGED <<config, EscrowedFees, RecipientFeesAccumulated, snapshots>>

DeductFee(payer, amount) == CanCharge(amount) /\ Deduct(payer, CalculateFee(amount))

DeductFeeWithPriority(payer, amount, p) ==
  CanCharge(amount) /\ Deduct(payer, CalculateFeeWithPriority(amount, p))

\* No part of it goes to the treasury, the payer's total or a category, now or
\* when it is released.
DeductFeeToEscrow(payer, amount) ==
  /\ CanCharge(amount)
  /\ FoldFunction(+, 0, EscrowedFees) + CalculateFee(amount) <= MaxCollected
  /\ EscrowedFees' = [EscrowedFees EXCEPT ![payer] = @ + CalculateFee(amount)]
  /\ UNCHANGED <<config, charged, TotalFeesCollected, RecipientFeesAccumulated, snapshots>>

ReleaseEscrow(caller, u) ==
  /\ RequireAdmin(caller)
  /\ EscrowedFees[u] # 0
  /\ TotalFeesCollected + FoldFunction(+, 0, RecipientFeesAccumulated) + EscrowedFees[u]
       <= MaxCollected
  /\ TotalFeesCollected' = TotalFeesCollected + EscrowedFees[u]
  /\ EscrowedFees' = [EscrowedFees EXCEPT ![u] = 0]
  /\ UNCHANGED <<config, charged, RecipientFeesAccumulated, snapshots>>

\* What the user paid is compared with the refund, what is left of it is not.
RefundFee(caller, u, amount) ==
  /\ RequireAdmin(caller)
  /\ amount > 0
  /\ UserFeesAccrued[u] >= amount
  /\ TotalFeesCollected' = TotalFeesCollected - amount
  /\ UserFeesAccrued' = [UserFeesAccrued EXCEPT ![u] = @ - amount]
  /\ UNCHANGED <<config, CategoryFees, TotalTreasuryFees, TreasuryFees, EscrowedFees,
                 RecipientFeesAccumulated, snapshots>>

Shares == [i \in DOMAIN FeeDistribution |->
             (TotalFeesCollected * FeeDistribution[i].share_bps) \div BPS]
SharesOf(a) == {i \in DOMAIN FeeDistribution : FeeDistribution[i].address = a}
GetsFrom(a) == FoldFunctionOnSet(+, 0, Shares, SharesOf(a))

\* What rounding leaves over is gone with the rest of the total.
DistributeFees(caller) ==
  /\ RequireAdmin(caller)
  /\ FeeDistribution # Unset
  /\ TotalFeesCollected > 0
  /\ RecipientFeesAccumulated' =
       [a \in Recipients |-> RecipientFeesAccumulated[a] + GetsFrom(a)]
  /\ TotalFeesCollected' = 0
  /\ UNCHANGED <<config, charged, EscrowedFees, snapshots>>

\* A second snapshot of a period replaces the first and is counted.
CreateFeeSnapshot(caller, period) ==
  /\ RequireAdmin(caller)
  /\ period # 0
  /\ SnapshotCount < MaxSnapshots
  /\ FeeSnapshot' = [FeeSnapshot EXCEPT ![period] =
       [total_collected |-> TotalFeesCollected, treasury_collected |-> TotalTreasuryFees,
        distributed |-> TotalFeesCollected - TotalTreasuryFees]]
  /\ SnapshotCount' = SnapshotCount + 1
  /\ UNCHANGED <<config, charged, TotalFeesCollected, EscrowedFees, RecipientFeesAccumulated>>

Next ==
  \/ \E u \in Users, n \in Percentages : Initialize(u, n) \/ SetPercentage(u, n)
  \/ \E u \in Users, m \in RoundingModes : SetRoundingMode(u, m)
  \/ \E u \in Users, b \in Bounds : SetFeeBounds(u, b)
  \/ \E u \in Users, ms \in Multipliers : SetPriorityMultipliers(u, ms)
  \/ \E u \in Users, t \in Treasuries, n \in Percentages : SetTreasury(u, t, n)
  \/ \E c, u \in Users, k \in Categories : SetUserFeeCategory(c, u, k)
  \/ \E u \in Users, d \in Distributions : SetDistribution(u, d)
  \/ \E u \in Users, n \in Amounts : DeductFee(u, n) \/ DeductFeeToEscrow(u, n)
  \/ \E u \in Users, n \in Amounts, p \in Priorities : DeductFeeWithPriority(u, n, p)
  \/ \E c, u \in Users : ReleaseEscrow(c, u)
  \/ \E c, u \in Users, n \in Amounts : RefundFee(c, u, n)
  \/ \E u \in Users : DistributeFees(u)
  \/ \E u \in Users, p \in Periods : CreateFeeSnapshot(u, p)

Spec == Init /\ [][Next]_vars

------------------------------------------------------------------------------
\* Every reachable state is well formed; the total can be negative.
TypeOK ==
  /\ Admin \in Users \cup {Unset}
  /\ Settings.percentage \in 0..BPS /\ Settings.rounding \in RoundingModes
  /\ Ascending(Settings.priority)
  /\ FeeDistribution # Unset => ShareSum(FeeDistribution) = BPS
  /\ TotalFeesCollected \in Int /\ TotalTreasuryFees \in Nat
  /\ UserFeesAccrued \in [Users -> Nat] /\ EscrowedFees \in [Users -> Nat]
  /\ CategoryFees \in [Categories -> Nat]
  /\ RecipientFeesAccumulated \in [Recipients -> Int]
  /\ TotalTreasuryFees = FoldFunction(+, 0, TreasuryFees)

Books == TotalFeesCollected + TotalTreasuryFees + FoldFunction(+, 0, EscrowedFees)
           + FoldFunction(+, 0, RecipientFeesAccumulated)
UserTotal == FoldFunction(+, 0, UserFeesAccrued)

\* What a step puts into escrow, which no user's total counts.
Deposited == FoldFunction(+, 0, [u \in Users |->
  IF EscrowedFees'[u] > EscrowedFees[u] THEN EscrowedFees'[u] - EscrowedFees[u] ELSE 0])

\* Whatever is charged, put into escrow or refunded moves what the contract
\* holds for the treasury, the recipients, the escrows and itself by that
\* amount; releasing and distributing move it within those.  Only a
\* distribution of the whole total loses anything, and less than one unit for
\* each recipient.
BooksFollowUsers ==
  [][\/ UNCHANGED money
     \/ LET lost == (UserTotal' - UserTotal) + Deposited - (Books' - Books) IN
        /\ lost >= 0
        /\ lost > 0 => /\ lost < Len(FeeDistribution) /\ TotalFeesCollected' = 0
                       /\ UNCHANGED <<charged, EscrowedFees>>]_vars
===============================================================================
