------------------------------ MODULE FeeEscrow ------------------------------
(***************************************************************************)
(* The fee contract (contracts/fee): fees move from the payer's tokens     *)
(* into the contract, are pending under the billing cycle they were        *)
(* collected in, roll over into a later cycle and are released to the      *)
(* treasury a cycle at a time.                                             *)
(***************************************************************************)
EXTENDS Integers, Sequences, Sums

CONSTANTS Users, Contract, Unset,
          Treasuries,         \* addresses tried as treasury, the contract's own among them
          FeeRates, MinFees, MaxFees, Tiers,
          Fees,               \* amounts offered to collect_fee
          FeeBatches,         \* lists of such amounts
          MAX_FEE_BPS, DEFAULT_FEE_BPS, DEFAULT_MIN_FEE, DEFAULT_MAX_FEE,
          MAX_BATCH_SIZE,
          DECAY_FLOOR,        \* MIN_FEE of decay.rs
          OpeningWallet,
          MaxCycle, MaxBatchCalls, MaxTime

VARIABLES feeAdmin, FeeSettings, FeeLocked, feeTreasury, CurrentCycle,
          EscrowBalance, TotalCollected, TotalReleased, TotalBatchCalls,
          PendingFees, UserActivity, UserTier, feeWallet, feeTime

Accounts == Users \cup {Contract} \cup Treasuries
Cycles == 1..MaxCycle
configVars == <<feeAdmin, FeeSettings, FeeLocked, feeTreasury>>
statVars == <<EscrowBalance, TotalCollected, TotalReleased>>
vars == <<configVars, CurrentCycle, statVars, TotalBatchCalls, PendingFees, UserActivity,
          UserTier, feeWallet, feeTime>>

\* What the proofs assume of the constants: amounts are integers, no payer is the
\* contract, and nobody is the value that stands for an absent address.
FeeAssumption ==
  /\ Unset \notin Users /\ Unset \notin Treasuries /\ Contract \notin Users
  /\ OpeningWallet \in [Accounts -> Nat]
  /\ MaxCycle \in Nat /\ MaxBatchCalls \in Nat /\ MaxTime \in Nat /\ MAX_BATCH_SIZE \in Nat
  /\ DECAY_FLOOR \in Nat /\ DEFAULT_MIN_FEE \in Nat
  /\ Fees \subseteq Int /\ MinFees \subseteq Int /\ FeeRates \subseteq Int
  /\ \A b \in FeeBatches : b \in Seq(Int)

Init ==
  /\ feeAdmin = Unset /\ feeTreasury = Unset /\ FeeLocked = FALSE /\ CurrentCycle = 0
  /\ FeeSettings = [bps |-> DEFAULT_FEE_BPS, min |-> DEFAULT_MIN_FEE, max |-> DEFAULT_MAX_FEE]
  /\ EscrowBalance = 0 /\ TotalCollected = 0 /\ TotalReleased = 0 /\ TotalBatchCalls = 0
  /\ PendingFees = [c \in Cycles |-> 0]
  /\ UserActivity = [u \in Users |-> 0] /\ UserTier = [u \in Users |-> Unset]
  /\ feeWallet = OpeningWallet /\ feeTime = 0

ValidRate(bps) == bps \in 1..MAX_FEE_BPS

Initialize(admin, treasury, bps, cycle) ==
  /\ feeAdmin = Unset /\ ValidRate(bps) /\ cycle # 0
  /\ feeAdmin' = admin /\ feeTreasury' = treasury /\ CurrentCycle' = cycle
  /\ FeeSettings' = [FeeSettings EXCEPT !.bps = bps]
  /\ UNCHANGED <<FeeLocked, statVars, TotalBatchCalls, PendingFees, UserActivity, UserTier,
                 feeWallet, feeTime>>

\* A unit less for every second since the user was last active, but never below the
\* floor: a fee below it becomes the floor.
Decayed(fee, last) ==
  IF feeTime <= last THEN fee
  ELSE IF fee - (feeTime - last) < DECAY_FLOOR THEN DECAY_FLOOR ELSE fee - (feeTime - last)

\* The payer's tokens against the contract's books.
ToEscrow(payer, n) ==
  /\ feeWallet[payer] >= n
  /\ feeWallet' = [feeWallet EXCEPT ![payer] = @ - n, ![Contract] = @ + n]
  /\ PendingFees' = [PendingFees EXCEPT ![CurrentCycle] = @ + n]
  /\ EscrowBalance' = EscrowBalance + n /\ TotalCollected' = TotalCollected + n
  /\ UserActivity' = [UserActivity EXCEPT ![payer] = feeTime]
  /\ UNCHANGED <<configVars, CurrentCycle, TotalReleased, UserTier, feeTime>>

Collectible(n) == n > 0 /\ n >= FeeSettings.min

CollectFee(payer, fee) ==
  LET n == Decayed(fee, UserActivity[payer]) IN
  /\ feeAdmin # Unset /\ fee > 0
  /\ Collectible(n)
  /\ ToEscrow(payer, n)
  /\ UNCHANGED TotalBatchCalls

\* Every fee decays from the activity before the batch; one bad fee refuses them all.
CollectFeeBatch(payer, fees) ==
  LET decayed == [k \in 1..Len(fees) |-> Decayed(fees[k], UserActivity[payer])] IN
  /\ feeAdmin # Unset /\ Len(fees) \in 1..MAX_BATCH_SIZE
  /\ TotalBatchCalls < MaxBatchCalls
  /\ \A k \in DOMAIN fees : fees[k] > 0 /\ Collectible(decayed[k])
  /\ ToEscrow(payer, SumTo(decayed, Len(fees)))
  /\ TotalBatchCalls' = TotalBatchCalls + 1

UpdateActivity(user) ==
  /\ feeAdmin # Unset
  /\ UserActivity' = [UserActivity EXCEPT ![user] = feeTime]
  /\ UNCHANGED <<configVars, CurrentCycle, statVars, TotalBatchCalls, PendingFees, UserTier,
                 feeWallet, feeTime>>

\* To a treasury that may be the contract itself.
ReleaseFees(admin, cycle) ==
  LET n == PendingFees[cycle]
      paid == [feeWallet EXCEPT ![Contract] = @ - n] IN
  /\ feeAdmin = admin /\ n > 0
  /\ feeWallet[Contract] >= n
  /\ feeWallet' = [paid EXCEPT ![feeTreasury] = @ + n]
  /\ PendingFees' = [PendingFees EXCEPT ![cycle] = 0]
  /\ EscrowBalance' = EscrowBalance - n /\ TotalReleased' = TotalReleased + n
  /\ UNCHANGED <<configVars, CurrentCycle, TotalCollected, TotalBatchCalls, UserActivity,
                 UserTier, feeTime>>

CarriedOver(from, to) == [PendingFees EXCEPT ![to] = @ + PendingFees[from], ![from] = 0]

RolloverFees(admin, next) ==
  /\ feeAdmin = admin /\ next > CurrentCycle
  /\ PendingFees' = CarriedOver(CurrentCycle, next)
  /\ CurrentCycle' = next
  /\ UNCHANGED <<configVars, statVars, TotalBatchCalls, UserActivity, UserTier, feeWallet,
                 feeTime>>

\* lock and unlock.
SetLocked(admin, locked) ==
  /\ feeAdmin = admin /\ FeeLocked' = locked
  /\ UNCHANGED <<feeAdmin, FeeSettings, feeTreasury, CurrentCycle, statVars, TotalBatchCalls,
                 PendingFees, UserActivity, UserTier, feeWallet, feeTime>>

\* What the lock refuses.
Configure(admin, settings, treasury) ==
  /\ feeAdmin = admin /\ ~FeeLocked
  /\ FeeSettings' = settings /\ feeTreasury' = treasury
  /\ UNCHANGED <<feeAdmin, FeeLocked, CurrentCycle, statVars, TotalBatchCalls, PendingFees,
                 UserActivity, UserTier, feeWallet, feeTime>>
SetFeeBps(admin, bps) ==
  ValidRate(bps) /\ Configure(admin, [FeeSettings EXCEPT !.bps = bps], feeTreasury)
SetTreasury(admin, treasury) == Configure(admin, FeeSettings, treasury)
\* Not compared with the maximum, which is compared with it.
SetMinFee(admin, n) ==
  n >= 0 /\ Configure(admin, [FeeSettings EXCEPT !.min = n], feeTreasury)
SetMaxFee(admin, n) ==
  n >= 0 /\ n >= FeeSettings.min /\ Configure(admin, [FeeSettings EXCEPT !.max = n], feeTreasury)
\* The maximum stays.
ResetFeeConfig(admin) ==
  Configure(admin, [FeeSettings EXCEPT !.bps = DEFAULT_FEE_BPS, !.min = DEFAULT_MIN_FEE],
            feeTreasury)

\* set_user_tier, and remove_user_tier when tier is Unset.
SetUserTier(admin, user, tier) ==
  /\ feeAdmin = admin
  /\ UserTier' = [UserTier EXCEPT ![user] = tier]
  /\ UNCHANGED <<configVars, CurrentCycle, statVars, TotalBatchCalls, PendingFees, UserActivity,
                 feeWallet, feeTime>>

Tick ==
  /\ feeTime < MaxTime /\ feeTime' = feeTime + 1
  /\ UNCHANGED <<configVars, CurrentCycle, statVars, TotalBatchCalls, PendingFees, UserActivity,
                 UserTier, feeWallet>>

Starting == \E u \in Users, t \in Treasuries, n \in FeeRates, c \in Cycles : Initialize(u, t, n, c)
Collecting ==
  \/ \E u \in Users, n \in Fees : CollectFee(u, n)
  \/ \E u \in Users, b \in FeeBatches : CollectFeeBatch(u, b)
  \/ \E u \in Users : UpdateActivity(u)
Releasing ==
  \/ \E u \in Users, c \in Cycles : ReleaseFees(u, c) \/ RolloverFees(u, c)
Steering ==
  \/ \E u \in Users, t \in Treasuries : SetTreasury(u, t)
  \/ \E u \in Users, n \in MinFees : SetMinFee(u, n)
Configuring ==
  \/ \E u \in Users, locked \in BOOLEAN : SetLocked(u, locked)
  \/ \E u \in Users, n \in FeeRates : SetFeeBps(u, n)
  \/ \E u \in Users, n \in MaxFees : SetMaxFee(u, n)
  \/ \E u \in Users : ResetFeeConfig(u)
  \/ \E u, v \in Users, tier \in Tiers \cup {Unset} : SetUserTier(u, v, tier)

Next == Starting \/ Collecting \/ Releasing \/ Steering \/ Configuring \/ Tick
Spec == Init /\ [][Next]_vars

------------------------------------------------------------------------------
\* Amounts are never negative; an administrator comes with a cycle and a treasury.
TypeOK ==
  /\ feeAdmin \in Users \cup {Unset} /\ feeTreasury \in Treasuries \cup {Unset}
  /\ CurrentCycle \in 0..MaxCycle /\ FeeLocked \in BOOLEAN
  /\ feeAdmin # Unset => feeTreasury \in Treasuries /\ CurrentCycle \in Cycles
  /\ feeAdmin = Unset => CurrentCycle = 0
  /\ EscrowBalance \in Nat /\ TotalCollected \in Nat /\ TotalReleased \in Nat
  /\ TotalBatchCalls \in Nat /\ PendingFees \in [Cycles -> Nat]
  /\ feeWallet \in [Accounts -> Nat] /\ FeeSettings.min \in Nat
  /\ feeTime \in Nat /\ UserActivity \in [Users -> 0..feeTime]

\* What is pending over all cycles is the escrow balance and what was collected and
\* not released, and the contract holds it: every cycle's release can be paid, in
\* whatever order collections, rollovers and changes of the treasury come.
FeesBacked ==
  /\ EscrowBalance = SumTo(PendingFees, MaxCycle)
  /\ EscrowBalance = TotalCollected - TotalReleased
  /\ feeWallet[Contract] >= EscrowBalance

\* Nothing is pending for a cycle that has not begun, so that a rollover into a cycle
\* finds it empty and pending fees never skip ahead of the cycle they belong to.
NothingAhead == \A c \in Cycles : c > CurrentCycle => PendingFees[c] = 0

\* A payer is never charged more than the fee asked for or the floor, whichever is larger.
ChargedAtMost ==
  \A n \in Fees, u \in Users :
    Decayed(n, UserActivity[u]) <= (IF n > DECAY_FLOOR THEN n ELSE DECAY_FLOOR)

\* While the contract is locked no setting changes, and cycles only move forward.
LockHolds ==
  [][/\ FeeLocked /\ FeeLocked' => FeeSettings' = FeeSettings /\ feeTreasury' = feeTreasury
     /\ CurrentCycle' >= CurrentCycle]_vars
==============================================================================
