----------------------------- MODULE PaymentsProofs -----------------------------
(***************************************************************************)
(* Proofs about the contracts of MCPayments, for every set of users and    *)
(* every value of the bounds.  A section for each contract: the fee        *)
(* contract, conditional payments, savings withdrawals, recurring          *)
(* payments, refunds, recurring savings, allowances; each proves an        *)
(* inductive invariant of the contract by itself and what follows from it. *)
(* The last section puts them side by side and states what holds of the    *)
(* whole group: TypesOK, MoneyAccounted, ImplementsEscrow, NothingTwice.   *)
(***************************************************************************)
EXTENDS MCPayments, SumTheorems, SequenceTheorems, FiniteSetTheorems, TLAPS

\* A contract may be left as it is while a second passes.
TimePasses == timestamp' \in {timestamp, timestamp + 1}

------------------------------------------------------------------------------
\* The fee contract.

LEMMA FeeSums == \A f, n : FeeEscrow!SumTo(f, n) = SumTo(f, n)
BY DEF FeeEscrow!SumTo, SumTo

\* FeesBacked, in the sums of SumTheorems.
FeesAreBacked == /\ EscrowBalance = SumTo(PendingFees, MaxCycle)
                 /\ EscrowBalance = TotalCollected - TotalReleased
                 /\ feeWallet[Contract] >= EscrowBalance

LEMMA SameBacking == FeeEscrow!FeesBacked <=> FeesAreBacked
BY FeeSums DEF FeeEscrow!FeesBacked, FeesAreBacked

FeeInv == FeeEscrow!TypeOK /\ FeesAreBacked /\ FeeEscrow!NothingAhead

LEMMA FeeInit == ASSUME FeeEscrow!FeeAssumption, FeeEscrow!Init PROVE FeeInv
<1>1. FeeEscrow!TypeOK
  <2>1. 0 \in 0..MaxCycle /\ 0 \in 0..0
    BY DEF FeeEscrow!FeeAssumption
  <2>2. PendingFees \in [FeeEscrow!Cycles -> Nat] /\ UserActivity \in [Users -> 0..feeTime]
    BY <2>1 DEF FeeEscrow!Init
  <2>3. feeWallet \in [FeeEscrow!Accounts -> Nat] /\ FeeSettings.min \in Nat
    BY DEF FeeEscrow!Init, FeeEscrow!FeeAssumption
  <2>4. /\ feeAdmin = Unset /\ feeTreasury = Unset /\ CurrentCycle = 0 /\ FeeLocked = FALSE
        /\ EscrowBalance = 0 /\ TotalCollected = 0 /\ TotalReleased = 0
        /\ TotalBatchCalls = 0 /\ feeTime = 0
    BY DEF FeeEscrow!Init
  <2> QED
    BY <2>1, <2>2, <2>3, <2>4 DEF FeeEscrow!TypeOK
<1>2. \A c \in 1..MaxCycle : PendingFees[c] = 0
  BY DEF FeeEscrow!Init, FeeEscrow!Cycles
<1>3. SumTo(PendingFees, MaxCycle) = 0
  BY <1>2, SumOfZeros DEF FeeEscrow!FeeAssumption
<1>4. feeWallet[Contract] >= 0
  BY <1>1 DEF FeeEscrow!TypeOK, FeeEscrow!Accounts
<1>5. EscrowBalance = 0 /\ TotalCollected = 0 /\ TotalReleased = 0
  BY DEF FeeEscrow!Init
<1>6. FeesAreBacked
  BY <1>3, <1>4, <1>5 DEF FeesAreBacked
<1>7. FeeEscrow!NothingAhead
  BY <1>2 DEF FeeEscrow!NothingAhead, FeeEscrow!Cycles
<1> QED
  BY <1>1, <1>6, <1>7 DEF FeeInv

\* A fee that decays stays an integer, and what is collectible is positive.
LEMMA DecayedIsInt ==
  ASSUME FeeEscrow!FeeAssumption, FeeEscrow!TypeOK, NEW fee \in Int, NEW u \in Users
  PROVE  FeeEscrow!Decayed(fee, UserActivity[u]) \in Int
<1>1. feeTime \in Int /\ UserActivity[u] \in Int /\ DECAY_FLOOR \in Int
  BY DEF FeeEscrow!FeeAssumption, FeeEscrow!TypeOK
<1> QED
  BY <1>1 DEF FeeEscrow!Decayed

\* No payer is charged more than the fee asked for or the floor.
LEMMA ChargeIsBounded ==
  ASSUME FeeEscrow!FeeAssumption, FeeEscrow!TypeOK PROVE FeeEscrow!ChargedAtMost
<1> SUFFICES ASSUME NEW n \in Fees, NEW u \in Users
             PROVE  FeeEscrow!Decayed(n, UserActivity[u])
                      <= (IF n > DECAY_FLOOR THEN n ELSE DECAY_FLOOR)
  BY DEF FeeEscrow!ChargedAtMost
<1>1. feeTime \in Nat /\ UserActivity[u] \in 0..feeTime /\ DECAY_FLOOR \in Nat /\ n \in Int
  BY DEF FeeEscrow!FeeAssumption, FeeEscrow!TypeOK
<1> QED
  BY <1>1 DEF FeeEscrow!Decayed

\* Tokens that move into escrow keep the types, whatever else the step does.
LEMMA ToEscrowKeepsBooks ==
  ASSUME FeeEscrow!FeeAssumption, FeeInv, NEW u \in Users, NEW n \in Nat, feeAdmin # Unset,
         FeeEscrow!ToEscrow(u, n), TotalBatchCalls' \in Nat
  PROVE  FeeInv'
<1>1. /\ CurrentCycle \in FeeEscrow!Cycles /\ PendingFees \in [FeeEscrow!Cycles -> Nat]
      /\ MaxCycle \in Nat /\ feeWallet \in [FeeEscrow!Accounts -> Nat]
      /\ u \in FeeEscrow!Accounts /\ Contract \in FeeEscrow!Accounts
      /\ u # Contract
  BY DEF FeeInv, FeeEscrow!TypeOK, FeeEscrow!FeeAssumption, FeeEscrow!Accounts
<1>2. /\ feeWallet' \in [FeeEscrow!Accounts -> Nat]
      /\ feeWallet'[Contract] = feeWallet[Contract] + n
  <2>1. feeWallet[u] - n \in Nat
    BY <1>1 DEF FeeEscrow!ToEscrow
  <2> QED
    BY <1>1, <2>1 DEF FeeEscrow!ToEscrow
<1>3. /\ PendingFees' \in [FeeEscrow!Cycles -> Nat]
      /\ PendingFees'[CurrentCycle] = PendingFees[CurrentCycle] + n
      /\ \A c \in FeeEscrow!Cycles : c # CurrentCycle => PendingFees'[c] = PendingFees[c]
  BY <1>1 DEF FeeEscrow!ToEscrow
<1>4. SumTo(PendingFees', MaxCycle) = SumTo(PendingFees, MaxCycle) + n
  <2>1. /\ \A c \in 1..MaxCycle : PendingFees[c] \in Int /\ PendingFees'[c] \in Int
        /\ \A c \in 1..MaxCycle : c # CurrentCycle => PendingFees[c] = PendingFees'[c]
        /\ CurrentCycle \in 1..MaxCycle
    BY <1>1, <1>3 DEF FeeEscrow!Cycles
  <2>2. SumTo(PendingFees', MaxCycle)
          = SumTo(PendingFees, MaxCycle) + PendingFees'[CurrentCycle] - PendingFees[CurrentCycle]
    BY <1>1, <2>1, SumPoint
  <2>3. SumTo(PendingFees, MaxCycle) \in Int
    BY <1>1, <2>1, SumType
  <2> QED
    BY <1>1, <1>3, <2>2, <2>3
<1>5. FeeEscrow!TypeOK'
  <2>1. UserActivity' \in [Users -> 0..feeTime']
    BY DEF FeeEscrow!ToEscrow, FeeInv, FeeEscrow!TypeOK
  <2>2. EscrowBalance' \in Nat /\ TotalCollected' \in Nat
    BY DEF FeeEscrow!ToEscrow, FeeInv, FeeEscrow!TypeOK
  <2>3. /\ UNCHANGED <<feeAdmin, FeeSettings, FeeLocked, feeTreasury, CurrentCycle,
                       TotalReleased, feeTime>>
    BY DEF FeeEscrow!ToEscrow, FeeEscrow!configVars
  <2> QED
    BY <1>2, <1>3, <2>1, <2>2, <2>3 DEF FeeInv, FeeEscrow!TypeOK
<1>6. FeesAreBacked'
  <2>1. /\ EscrowBalance \in Nat /\ TotalCollected \in Nat /\ TotalReleased \in Nat
        /\ feeWallet[Contract] \in Nat
    BY <1>1 DEF FeeInv, FeeEscrow!TypeOK
  <2>2. /\ EscrowBalance' = EscrowBalance + n /\ TotalCollected' = TotalCollected + n
        /\ TotalReleased' = TotalReleased
    BY DEF FeeEscrow!ToEscrow
  <2>3. EscrowBalance' = SumTo(PendingFees', MaxCycle)
    BY <1>4, <2>2 DEF FeeInv, FeesAreBacked
  <2>4. EscrowBalance' = TotalCollected' - TotalReleased'
    BY <2>1, <2>2 DEF FeeInv, FeesAreBacked
  <2>5. feeWallet'[Contract] >= EscrowBalance'
    BY <1>2, <2>1, <2>2 DEF FeeInv, FeesAreBacked
  <2> QED
    BY <2>3, <2>4, <2>5 DEF FeesAreBacked
<1>7. FeeEscrow!NothingAhead'
  <2>1. CurrentCycle' = CurrentCycle
    BY DEF FeeEscrow!ToEscrow
  <2>2. ASSUME NEW c \in FeeEscrow!Cycles, c > CurrentCycle PROVE PendingFees'[c] = 0
    BY <1>1, <1>3, <2>2 DEF FeeInv, FeeEscrow!NothingAhead, FeeEscrow!Cycles
  <2> QED
    BY <2>1, <2>2 DEF FeeEscrow!NothingAhead
<1> QED
  BY <1>5, <1>6, <1>7 DEF FeeInv

\* A release takes one cycle's pending fees out of every total they are part of.
LEMMA ReleaseKeepsBooks ==
  ASSUME FeeEscrow!FeeAssumption, FeeInv, NEW u \in Users, NEW c \in FeeEscrow!Cycles,
         FeeEscrow!ReleaseFees(u, c)
  PROVE  FeeInv'
<1> DEFINE n == PendingFees[c]
<1>1. /\ PendingFees \in [FeeEscrow!Cycles -> Nat] /\ MaxCycle \in Nat /\ n \in Nat
      /\ feeWallet \in [FeeEscrow!Accounts -> Nat] /\ Contract \in FeeEscrow!Accounts
      /\ feeTreasury \in FeeEscrow!Accounts
  BY DEF FeeInv, FeeEscrow!TypeOK, FeeEscrow!FeeAssumption, FeeEscrow!Accounts, FeeEscrow!ReleaseFees
<1>2. /\ feeWallet' \in [FeeEscrow!Accounts -> Nat]
      /\ feeWallet'[Contract] >= feeWallet[Contract] - n
  <2>1. feeWallet[Contract] - n \in Nat
    BY <1>1 DEF FeeEscrow!ReleaseFees
  <2> DEFINE paid == [feeWallet EXCEPT ![Contract] = @ - n]
  <2>2. paid \in [FeeEscrow!Accounts -> Nat] /\ paid[Contract] = feeWallet[Contract] - n
    BY <1>1, <2>1
  <2>3. feeWallet' = [paid EXCEPT ![feeTreasury] = @ + n]
    BY DEF FeeEscrow!ReleaseFees
  <2> HIDE DEF paid
  <2>4. paid[feeTreasury] + n \in Nat /\ paid[Contract] \in Nat
    BY <1>1, <2>2
  <2> QED
    BY <1>1, <2>2, <2>3, <2>4
<1>3. /\ PendingFees' \in [FeeEscrow!Cycles -> Nat] /\ PendingFees'[c] = 0
      /\ \A d \in FeeEscrow!Cycles : d # c => PendingFees'[d] = PendingFees[d]
  BY <1>1 DEF FeeEscrow!ReleaseFees
<1>4. /\ SumTo(PendingFees', MaxCycle) = SumTo(PendingFees, MaxCycle) - n
      /\ SumTo(PendingFees', MaxCycle) \in Nat
  <2>1. /\ \A d \in 1..MaxCycle : PendingFees[d] \in Int /\ PendingFees'[d] \in Int
        /\ \A d \in 1..MaxCycle : d # c => PendingFees[d] = PendingFees'[d]
        /\ \A d \in 1..MaxCycle : PendingFees'[d] \in Nat
        /\ c \in 1..MaxCycle
    BY <1>1, <1>3 DEF FeeEscrow!Cycles
  <2>2. SumTo(PendingFees', MaxCycle)
          = SumTo(PendingFees, MaxCycle) + PendingFees'[c] - PendingFees[c]
    BY <1>1, <2>1, SumPoint
  <2>3. SumTo(PendingFees, MaxCycle) \in Int
    BY <1>1, <2>1, SumType
  <2>4. SumTo(PendingFees', MaxCycle) \in Nat
    BY <1>1, <2>1, SumNat
  <2> QED
    BY <1>1, <1>3, <2>2, <2>3, <2>4
<1>5. /\ EscrowBalance' = EscrowBalance - n /\ TotalReleased' = TotalReleased + n
      /\ UNCHANGED <<feeAdmin, FeeSettings, FeeLocked, feeTreasury, CurrentCycle,
                     TotalCollected, TotalBatchCalls, UserActivity, feeTime>>
  BY DEF FeeEscrow!ReleaseFees, FeeEscrow!configVars
<1>6. /\ EscrowBalance \in Nat /\ TotalCollected \in Nat /\ TotalReleased \in Nat
      /\ feeWallet[Contract] \in Nat /\ feeWallet'[Contract] \in Nat
  BY <1>1, <1>2 DEF FeeInv, FeeEscrow!TypeOK
<1>7. FeesAreBacked'
  <2>1. EscrowBalance' = SumTo(PendingFees', MaxCycle)
    BY <1>4, <1>5 DEF FeeInv, FeesAreBacked
  <2>2. EscrowBalance' = TotalCollected' - TotalReleased'
    BY <1>1, <1>5, <1>6 DEF FeeInv, FeesAreBacked
  <2>3. feeWallet'[Contract] >= EscrowBalance'
    BY <1>1, <1>2, <1>5, <1>6 DEF FeeInv, FeesAreBacked
  <2> QED
    BY <2>1, <2>2, <2>3 DEF FeesAreBacked
<1>8. FeeEscrow!TypeOK'
  <2>1. EscrowBalance' \in Nat
    BY <1>4, <1>5 DEF FeeInv, FeesAreBacked
  <2>2. TotalReleased' \in Nat
    BY <1>1, <1>5, <1>6
  <2> QED
    BY <1>2, <1>3, <1>5, <2>1, <2>2 DEF FeeInv, FeeEscrow!TypeOK
<1>9. FeeEscrow!NothingAhead'
  BY <1>1, <1>3, <1>5 DEF FeeInv, FeeEscrow!NothingAhead
<1> QED
  BY <1>7, <1>8, <1>9 DEF FeeInv

\* A rollover moves the current cycle's pending fees into a cycle that has none.
LEMMA RolloverKeepsBooks ==
  ASSUME FeeEscrow!FeeAssumption, FeeInv, NEW u \in Users, NEW next \in FeeEscrow!Cycles,
         FeeEscrow!RolloverFees(u, next)
  PROVE  FeeInv'
<1> DEFINE from == CurrentCycle
           cleared == [PendingFees EXCEPT ![from] = 0]
<1>1. /\ PendingFees \in [FeeEscrow!Cycles -> Nat] /\ MaxCycle \in Nat /\ from \in FeeEscrow!Cycles
      /\ next # from /\ next \in 1..MaxCycle /\ from \in 1..MaxCycle
  BY DEF FeeInv, FeeEscrow!TypeOK, FeeEscrow!FeeAssumption, FeeEscrow!RolloverFees, FeeEscrow!Cycles
<1>2. PendingFees' = [PendingFees EXCEPT ![next] = @ + PendingFees[from], ![from] = 0]
  BY DEF FeeEscrow!RolloverFees, FeeEscrow!CarriedOver
<1>3. /\ PendingFees' \in [FeeEscrow!Cycles -> Nat] /\ cleared \in [FeeEscrow!Cycles -> Nat]
      /\ PendingFees'[next] = cleared[next] + PendingFees[from] /\ cleared[from] = 0
      /\ \A d \in FeeEscrow!Cycles : d # from => cleared[d] = PendingFees[d]
      /\ \A d \in FeeEscrow!Cycles : d # next => PendingFees'[d] = cleared[d]
  BY <1>1, <1>2
<1> HIDE DEF from, cleared
<1>4. SumTo(PendingFees', MaxCycle) = SumTo(PendingFees, MaxCycle)
  <2>1. /\ \A d \in 1..MaxCycle : PendingFees[d] \in Int /\ cleared[d] \in Int
        /\ \A d \in 1..MaxCycle : PendingFees'[d] \in Int
        /\ \A d \in 1..MaxCycle : d # from => PendingFees[d] = cleared[d]
        /\ \A d \in 1..MaxCycle : d # next => cleared[d] = PendingFees'[d]
    BY <1>1, <1>3 DEF FeeEscrow!Cycles
  <2>2. SumTo(cleared, MaxCycle) = SumTo(PendingFees, MaxCycle) + cleared[from] - PendingFees[from]
    BY <1>1, <2>1, SumPoint
  <2>3. SumTo(PendingFees', MaxCycle) = SumTo(cleared, MaxCycle) + PendingFees'[next] - cleared[next]
    BY <1>1, <2>1, SumPoint
  <2>4. SumTo(PendingFees, MaxCycle) \in Int
    BY <1>1, <2>1, SumType
  <2>5. PendingFees[from] \in Int /\ cleared[next] \in Int
    BY <1>1, <2>1
  <2> QED
    BY <1>3, <2>2, <2>3, <2>4, <2>5
<1>5. /\ CurrentCycle' = next /\ next > from
      /\ UNCHANGED <<feeAdmin, FeeSettings, FeeLocked, feeTreasury, EscrowBalance,
                     TotalCollected, TotalReleased, TotalBatchCalls, UserActivity, feeWallet,
                     feeTime>>
  BY DEF FeeEscrow!RolloverFees, FeeEscrow!configVars, FeeEscrow!statVars, from
<1>6. FeeEscrow!TypeOK'
  <2>1. CurrentCycle' \in FeeEscrow!Cycles /\ CurrentCycle' \in 0..MaxCycle
    BY <1>1, <1>5 DEF FeeEscrow!Cycles
  <2>2. feeAdmin # Unset
    BY DEF FeeEscrow!RolloverFees, FeeEscrow!FeeAssumption
  <2> QED
    BY <1>3, <1>5, <2>1, <2>2 DEF FeeInv, FeeEscrow!TypeOK
<1>7. FeesAreBacked'
  BY <1>4, <1>5 DEF FeeInv, FeesAreBacked
<1>8. FeeEscrow!NothingAhead'
  <2>1. ASSUME NEW d \in FeeEscrow!Cycles, d > next PROVE PendingFees'[d] = 0
    <3>1. d > from /\ d # next /\ d # from
      BY <1>1, <1>5, <2>1 DEF FeeEscrow!Cycles
    <3>2. PendingFees[d] = 0
      BY <3>1 DEF FeeInv, FeeEscrow!NothingAhead, from
    <3> QED
      BY <1>3, <3>1, <3>2
  <2> QED
    BY <1>5, <2>1 DEF FeeEscrow!NothingAhead
<1> QED
  BY <1>6, <1>7, <1>8 DEF FeeInv

\* The other operations leave the books alone.
LEMMA SettingsKeepBooks ==
  ASSUME FeeEscrow!FeeAssumption, FeeInv, FeeEscrow!TypeOK',
         CurrentCycle' = CurrentCycle,
         UNCHANGED <<FeeEscrow!statVars, PendingFees, feeWallet>>
  PROVE  FeeInv'
BY DEF FeeInv, FeesAreBacked, FeeEscrow!NothingAhead, FeeEscrow!statVars

LEMMA InitializeKeepsBooks ==
  ASSUME FeeEscrow!FeeAssumption, FeeInv, NEW u \in Users, NEW t \in Treasuries, NEW n \in FeeRates,
         NEW c \in FeeEscrow!Cycles, FeeEscrow!Initialize(u, t, n, c)
  PROVE  FeeInv'
<1>1. /\ feeAdmin' = u /\ feeTreasury' = t /\ CurrentCycle' = c
      /\ FeeSettings' = [FeeSettings EXCEPT !.bps = n]
      /\ UNCHANGED <<FeeLocked, EscrowBalance, TotalCollected, TotalReleased, TotalBatchCalls,
                     PendingFees, UserActivity, feeWallet, feeTime>>
  BY DEF FeeEscrow!Initialize, FeeEscrow!statVars
<1>2. u # Unset /\ c \in 0..MaxCycle
  BY DEF FeeEscrow!FeeAssumption, FeeEscrow!Cycles
<1>3. FeeSettings'.min \in Nat
  BY <1>1 DEF FeeInv, FeeEscrow!TypeOK
<1>4. FeeEscrow!TypeOK'
  BY <1>1, <1>2, <1>3 DEF FeeInv, FeeEscrow!TypeOK
<1>5. \A d \in FeeEscrow!Cycles : PendingFees'[d] = 0
  <2>1. CurrentCycle = 0
    BY DEF FeeEscrow!Initialize, FeeInv, FeeEscrow!TypeOK
  <2> QED
    BY <1>1, <2>1 DEF FeeInv, FeeEscrow!NothingAhead, FeeEscrow!Cycles, FeeEscrow!FeeAssumption
<1> QED
  BY <1>1, <1>4, <1>5 DEF FeeInv, FeesAreBacked, FeeEscrow!NothingAhead

\* A configuration call keeps everything but the settings and the treasury.
LEMMA ConfigureKeepsBooks ==
  ASSUME FeeEscrow!FeeAssumption, FeeInv, NEW u \in Users, NEW s, s.min \in Nat,
         NEW t \in Treasuries, FeeEscrow!Configure(u, s, t)
  PROVE  FeeInv'
<1>1. /\ FeeSettings' = s /\ feeTreasury' = t
      /\ UNCHANGED <<feeAdmin, FeeLocked, CurrentCycle, FeeEscrow!statVars, TotalBatchCalls, PendingFees,
                     UserActivity, feeWallet, feeTime>>
  BY DEF FeeEscrow!Configure
<1>2. FeeEscrow!TypeOK'
  <2>1. feeAdmin # Unset
    BY DEF FeeEscrow!Configure, FeeEscrow!FeeAssumption
  <2> QED
    BY <1>1, <2>1 DEF FeeInv, FeeEscrow!TypeOK, FeeEscrow!statVars
<1> QED
  BY <1>1, <1>2, SettingsKeepBooks

LEMMA FeeNext == ASSUME FeeEscrow!FeeAssumption, FeeInv, [FeeEscrow!Next]_(FeeEscrow!vars) PROVE FeeInv'
<1>1. CASE FeeEscrow!Starting
  BY <1>1, InitializeKeepsBooks DEF FeeEscrow!Starting
<1>2. CASE FeeEscrow!Collecting
  <2>1. ASSUME NEW u \in Users, NEW fee \in Fees, FeeEscrow!CollectFee(u, fee) PROVE FeeInv'
    <3> DEFINE n == FeeEscrow!Decayed(fee, UserActivity[u])
    <3>1. n \in Nat
      <4>1. n \in Int
        BY DecayedIsInt DEF FeeEscrow!FeeAssumption, FeeInv
      <4>2. n > 0
        BY <2>1 DEF FeeEscrow!CollectFee, FeeEscrow!Collectible
      <4> QED
        BY <4>1, <4>2
    <3>2. feeAdmin # Unset /\ FeeEscrow!ToEscrow(u, n) /\ TotalBatchCalls' = TotalBatchCalls
      BY <2>1 DEF FeeEscrow!CollectFee
    <3>3. TotalBatchCalls' \in Nat
      BY <3>2 DEF FeeInv, FeeEscrow!TypeOK
    <3> HIDE DEF n
    <3> QED
      BY <3>1, <3>2, <3>3, ToEscrowKeepsBooks
  <2>2. ASSUME NEW u \in Users, NEW fees \in FeeBatches, FeeEscrow!CollectFeeBatch(u, fees)
        PROVE FeeInv'
    <3> DEFINE decayed == [k \in 1..Len(fees) |-> FeeEscrow!Decayed(fees[k], UserActivity[u])]
               n == SumTo(decayed, Len(fees))
    <3>1. fees \in Seq(Int) /\ Len(fees) \in Nat /\ DOMAIN fees = 1..Len(fees)
      BY DEF FeeEscrow!FeeAssumption
    <3>2. ASSUME NEW k \in 1..Len(fees) PROVE decayed[k] \in Nat
      <4>1. fees[k] \in Int
        BY <3>1
      <4>2. decayed[k] \in Int
        BY <4>1, DecayedIsInt DEF FeeInv
      <4>3. decayed[k] > 0
        BY <2>2, <3>1 DEF FeeEscrow!CollectFeeBatch, FeeEscrow!Collectible
      <4> QED
        BY <4>2, <4>3
    <3>3. feeAdmin # Unset /\ FeeEscrow!ToEscrow(u, n) /\ TotalBatchCalls' = TotalBatchCalls + 1
      BY <2>2, FeeSums DEF FeeEscrow!CollectFeeBatch
    <3> HIDE DEF decayed
    <3>4. n \in Nat
      BY <3>1, <3>2, SumNat
    <3>5. TotalBatchCalls' \in Nat
      BY <3>3 DEF FeeInv, FeeEscrow!TypeOK
    <3> HIDE DEF n
    <3> QED
      BY <3>3, <3>4, <3>5, ToEscrowKeepsBooks
  <2>3. ASSUME NEW u \in Users, FeeEscrow!UpdateActivity(u) PROVE FeeInv'
    <3>1. UserActivity' \in [Users -> 0..feeTime']
      BY <2>3 DEF FeeEscrow!UpdateActivity, FeeInv, FeeEscrow!TypeOK
    <3>2. FeeEscrow!TypeOK'
      BY <2>3, <3>1 DEF FeeEscrow!UpdateActivity, FeeInv, FeeEscrow!TypeOK, FeeEscrow!configVars,
        FeeEscrow!statVars
    <3> QED
      BY <2>3, <3>2, SettingsKeepBooks DEF FeeEscrow!UpdateActivity
  <2> QED
    BY <1>2, <2>1, <2>2, <2>3 DEF FeeEscrow!Collecting
<1>3. CASE FeeEscrow!Releasing
  BY <1>3, ReleaseKeepsBooks, RolloverKeepsBooks DEF FeeEscrow!Releasing
<1>4. ASSUME feeAdmin \in Users PROVE FeeSettings.min \in Nat /\ feeTreasury \in Treasuries
  BY <1>4 DEF FeeInv, FeeEscrow!TypeOK, FeeEscrow!FeeAssumption
<1>5. CASE FeeEscrow!Steering
  <2>1. ASSUME NEW u \in Users, NEW t \in Treasuries, FeeEscrow!SetTreasury(u, t) PROVE FeeInv'
    BY <1>4, <2>1, ConfigureKeepsBooks DEF FeeEscrow!SetTreasury, FeeEscrow!Configure
  <2>2. ASSUME NEW u \in Users, NEW n \in MinFees, FeeEscrow!SetMinFee(u, n) PROVE FeeInv'
    <3> DEFINE s == [FeeSettings EXCEPT !.min = n]
    <3>1. FeeEscrow!Configure(u, s, feeTreasury) /\ feeAdmin = u /\ n \in Nat
      BY <2>2 DEF FeeEscrow!SetMinFee, FeeEscrow!Configure, FeeEscrow!FeeAssumption
    <3>2. s.min \in Nat
      BY <3>1
    <3> HIDE DEF s
    <3> QED
      BY <1>4, <3>1, <3>2, ConfigureKeepsBooks
  <2> QED
    BY <1>5, <2>1, <2>2 DEF FeeEscrow!Steering
<1>6. CASE FeeEscrow!Configuring
  <2>1. ASSUME NEW u \in Users, NEW locked \in BOOLEAN, FeeEscrow!SetLocked(u, locked) PROVE FeeInv'
    <3>1. FeeEscrow!TypeOK'
      BY <2>1 DEF FeeEscrow!SetLocked, FeeInv, FeeEscrow!TypeOK, FeeEscrow!statVars
    <3> QED
      BY <2>1, <3>1, SettingsKeepBooks DEF FeeEscrow!SetLocked
  <2>2. ASSUME NEW u \in Users, NEW n \in FeeRates, FeeEscrow!SetFeeBps(u, n) PROVE FeeInv'
    <3> DEFINE s == [FeeSettings EXCEPT !.bps = n]
    <3>1. FeeEscrow!Configure(u, s, feeTreasury) /\ feeAdmin = u
      BY <2>2 DEF FeeEscrow!SetFeeBps, FeeEscrow!Configure
    <3>2. s.min \in Nat
      BY <1>4, <3>1
    <3> HIDE DEF s
    <3> QED
      BY <1>4, <3>1, <3>2, ConfigureKeepsBooks
  <2>3. ASSUME NEW u \in Users, NEW n \in MaxFees, FeeEscrow!SetMaxFee(u, n) PROVE FeeInv'
    <3> DEFINE s == [FeeSettings EXCEPT !.max = n]
    <3>1. FeeEscrow!Configure(u, s, feeTreasury) /\ feeAdmin = u
      BY <2>3 DEF FeeEscrow!SetMaxFee, FeeEscrow!Configure
    <3>2. s.min \in Nat
      BY <1>4, <3>1
    <3> HIDE DEF s
    <3> QED
      BY <1>4, <3>1, <3>2, ConfigureKeepsBooks
  <2>4. ASSUME NEW u \in Users, FeeEscrow!ResetFeeConfig(u) PROVE FeeInv'
    <3> DEFINE s == [FeeSettings EXCEPT !.bps = DEFAULT_FEE_BPS, !.min = DEFAULT_MIN_FEE]
    <3>1. FeeEscrow!Configure(u, s, feeTreasury) /\ feeAdmin = u
      BY <2>4 DEF FeeEscrow!ResetFeeConfig, FeeEscrow!Configure
    <3>2. s.min \in Nat
      <4>1. FeeSettings.min \in Nat /\ DEFAULT_MIN_FEE \in Nat
        BY <1>4, <3>1 DEF FeeEscrow!FeeAssumption
      <4> QED
        BY <4>1
    <3> HIDE DEF s
    <3> QED
      BY <1>4, <3>1, <3>2, ConfigureKeepsBooks
  <2>5. ASSUME NEW u \in Users, NEW v \in Users, NEW tier \in Tiers \cup {Unset},
               FeeEscrow!SetUserTier(u, v, tier)
        PROVE  FeeInv'
    <3>1. FeeEscrow!TypeOK'
      BY <2>5 DEF FeeEscrow!SetUserTier, FeeInv, FeeEscrow!TypeOK, FeeEscrow!statVars,
        FeeEscrow!configVars
    <3> QED
      BY <2>5, <3>1, SettingsKeepBooks DEF FeeEscrow!SetUserTier
  <2> QED
    BY <1>6, <2>1, <2>2, <2>3, <2>4, <2>5 DEF FeeEscrow!Configuring
<1>7. CASE FeeEscrow!Tick
  <2>1. UserActivity \in [Users -> 0..feeTime'] /\ feeTime' \in Nat
    BY <1>7 DEF FeeEscrow!Tick, FeeInv, FeeEscrow!TypeOK
  <2>2. FeeEscrow!TypeOK'
    BY <1>7, <2>1 DEF FeeEscrow!Tick, FeeInv, FeeEscrow!TypeOK, FeeEscrow!configVars, FeeEscrow!statVars
  <2> QED
    BY <1>7, <2>2, SettingsKeepBooks DEF FeeEscrow!Tick
<1>8. CASE UNCHANGED FeeEscrow!vars
  <2>1. FeeEscrow!TypeOK'
    BY <1>8 DEF FeeEscrow!vars, FeeInv, FeeEscrow!TypeOK, FeeEscrow!configVars, FeeEscrow!statVars
  <2> QED
    BY <1>8, <2>1, SettingsKeepBooks DEF FeeEscrow!vars
<1> QED
  BY <1>1, <1>2, <1>3, <1>5, <1>6, <1>7, <1>8 DEF FeeEscrow!Next

\* Pending fees are what was collected and not released, and the contract's tokens cover
\* them: a release of any cycle can always be paid.
THEOREM FeesAlwaysBacked ==
  ASSUME FeeEscrow!FeeAssumption
  PROVE  FeeEscrow!Spec => [](FeeEscrow!TypeOK /\ FeeEscrow!FeesBacked /\ FeeEscrow!NothingAhead)
<1>1. FeeEscrow!Init => FeeInv
  BY FeeInit
<1>2. FeeInv /\ [FeeEscrow!Next]_(FeeEscrow!vars) => FeeInv'
  BY FeeNext
<1>3. FeeInv => FeeEscrow!TypeOK /\ FeeEscrow!FeesBacked /\ FeeEscrow!NothingAhead
  BY SameBacking DEF FeeInv
<1> QED
  BY <1>1, <1>2, <1>3, PTL DEF FeeEscrow!Spec

\* Nothing is locked before there is an administrator to lock it.
UnlockedAtFirst == feeAdmin = Unset => ~FeeLocked

\* What a step may do to the lock, the settings and the cycle.
LockStep == /\ FeeLocked /\ FeeLocked' => FeeSettings' = FeeSettings /\ feeTreasury' = feeTreasury
            /\ CurrentCycle' >= CurrentCycle
AsItWas == /\ FeeLocked' = FeeLocked /\ feeAdmin' = feeAdmin
           /\ FeeSettings' = FeeSettings /\ feeTreasury' = feeTreasury
           /\ CurrentCycle' = CurrentCycle

LEMMA AsItWasKeeps ==
  ASSUME FeeInv, UnlockedAtFirst, AsItWas PROVE UnlockedAtFirst' /\ LockStep
<1>1. CurrentCycle' >= CurrentCycle
  BY DEF FeeInv, FeeEscrow!TypeOK, AsItWas
<1> QED
  BY <1>1 DEF AsItWas, UnlockedAtFirst, LockStep

LEMMA StepKeepsLock ==
  ASSUME FeeEscrow!FeeAssumption, FeeInv, UnlockedAtFirst, [FeeEscrow!Next]_(FeeEscrow!vars)
  PROVE  UnlockedAtFirst' /\ LockStep
<1>1. CASE FeeEscrow!Starting
  <2>1. PICK u \in Users, t \in Treasuries, n \in FeeRates, c \in FeeEscrow!Cycles :
          FeeEscrow!Initialize(u, t, n, c)
    BY <1>1 DEF FeeEscrow!Starting
  <2>2. ~FeeLocked /\ FeeLocked' = FeeLocked
    BY <2>1 DEF FeeEscrow!Initialize, UnlockedAtFirst
  <2>3. CurrentCycle' >= CurrentCycle
    BY <2>1 DEF FeeEscrow!Initialize, FeeInv, FeeEscrow!TypeOK, FeeEscrow!Cycles
  <2> QED
    BY <2>2, <2>3 DEF UnlockedAtFirst, LockStep
<1>2. CASE FeeEscrow!Collecting
  <2>1. AsItWas
    BY <1>2 DEF FeeEscrow!Collecting, FeeEscrow!CollectFee, FeeEscrow!CollectFeeBatch,
      FeeEscrow!UpdateActivity, FeeEscrow!ToEscrow, FeeEscrow!configVars,
                AsItWas
  <2> QED
    BY <2>1, AsItWasKeeps
<1>3. CASE FeeEscrow!Releasing
  <2>1. ASSUME NEW u \in Users, NEW c \in FeeEscrow!Cycles, FeeEscrow!ReleaseFees(u, c) PROVE AsItWas
    BY <2>1 DEF FeeEscrow!ReleaseFees, FeeEscrow!configVars, AsItWas
  <2>2. ASSUME NEW u \in Users, NEW c \in FeeEscrow!Cycles, FeeEscrow!RolloverFees(u, c)
        PROVE  UnlockedAtFirst' /\ LockStep
    <3>1. CurrentCycle' >= CurrentCycle
      BY <2>2 DEF FeeEscrow!RolloverFees, FeeInv, FeeEscrow!TypeOK, FeeEscrow!Cycles
    <3>2. /\ FeeLocked' = FeeLocked /\ feeAdmin' = feeAdmin
          /\ FeeSettings' = FeeSettings /\ feeTreasury' = feeTreasury
      BY <2>2 DEF FeeEscrow!RolloverFees, FeeEscrow!configVars
    <3> QED
      BY <3>1, <3>2 DEF UnlockedAtFirst, LockStep
  <2> QED
    BY <1>3, <2>1, <2>2, AsItWasKeeps DEF FeeEscrow!Releasing
<1>4. ASSUME NEW u \in Users, NEW settings, NEW treasury, FeeEscrow!Configure(u, settings, treasury)
      PROVE  UnlockedAtFirst' /\ LockStep
  <2>1. ~FeeLocked /\ FeeLocked' = FeeLocked
    BY <1>4 DEF FeeEscrow!Configure
  <2>2. CurrentCycle' >= CurrentCycle
    BY <1>4 DEF FeeEscrow!Configure, FeeInv, FeeEscrow!TypeOK
  <2> QED
    BY <2>1, <2>2 DEF UnlockedAtFirst, LockStep
<1>5. CASE FeeEscrow!Steering
  BY <1>4, <1>5 DEF FeeEscrow!Steering, FeeEscrow!SetTreasury, FeeEscrow!SetMinFee
<1>6. CASE FeeEscrow!Configuring
  <2>1. ASSUME NEW u \in Users, NEW locked \in BOOLEAN, FeeEscrow!SetLocked(u, locked)
        PROVE  UnlockedAtFirst' /\ LockStep
    <3>1. CurrentCycle' >= CurrentCycle
      BY <2>1 DEF FeeEscrow!SetLocked, FeeInv, FeeEscrow!TypeOK
    <3>2. feeAdmin' # Unset /\ FeeSettings' = FeeSettings /\ feeTreasury' = feeTreasury
      BY <2>1 DEF FeeEscrow!SetLocked, FeeEscrow!FeeAssumption
    <3> QED
      BY <3>1, <3>2 DEF UnlockedAtFirst, LockStep
  <2>2. ASSUME NEW u \in Users, NEW v \in Users, NEW tier,
               FeeEscrow!SetUserTier(u, v, tier)
        PROVE  AsItWas
    BY <2>2 DEF FeeEscrow!SetUserTier, FeeEscrow!configVars, AsItWas
  <2> QED
    BY <1>4, <1>6, <2>1, <2>2, AsItWasKeeps
       DEF FeeEscrow!Configuring, FeeEscrow!SetFeeBps, FeeEscrow!SetMaxFee, FeeEscrow!ResetFeeConfig
<1>7. CASE FeeEscrow!Tick
  <2>1. AsItWas
    BY <1>7 DEF FeeEscrow!Tick, FeeEscrow!configVars, AsItWas
  <2> QED
    BY <2>1, AsItWasKeeps
<1>8. CASE UNCHANGED FeeEscrow!vars
  <2>1. AsItWas
    BY <1>8 DEF FeeEscrow!vars, FeeEscrow!configVars, AsItWas
  <2> QED
    BY <2>1, AsItWasKeeps
<1> QED
  BY <1>1, <1>2, <1>3, <1>5, <1>6, <1>7, <1>8 DEF FeeEscrow!Next

\* A locked contract keeps its rates, bounds and treasury until it is unlocked, and its
\* cycles only move forward.
THEOREM LockedSettingsStand ==
  ASSUME FeeEscrow!FeeAssumption PROVE FeeEscrow!Spec => FeeEscrow!LockHolds
<1>1. FeeEscrow!Init => FeeInv /\ UnlockedAtFirst
  BY FeeInit DEF FeeEscrow!Init, UnlockedAtFirst
<1>2. FeeInv /\ UnlockedAtFirst /\ [FeeEscrow!Next]_(FeeEscrow!vars) => (FeeInv /\ UnlockedAtFirst)'
  BY FeeNext, StepKeepsLock
<1>3. FeeInv /\ UnlockedAtFirst /\ [FeeEscrow!Next]_(FeeEscrow!vars) => [LockStep]_(FeeEscrow!vars)
  BY StepKeepsLock
<1> QED
  BY <1>1, <1>2, <1>3, PTL DEF FeeEscrow!Spec, FeeEscrow!LockHolds, LockStep

------------------------------------------------------------------------------
\* Conditional payments: the shape of the state.

CondAccounts == Users \cup {Contract}

LEMMA RecordFacts ==
  ASSUME Conditional!TypeOK
  PROVE  /\ condPayment \in Seq(Conditional!PaymentRecord)
         /\ Len(condPayment) \in Nat /\ Conditional!PaymentIds = 1..Len(condPayment)
         /\ \A id \in Conditional!PaymentIds :
              /\ condPayment[id] \in Conditional!PaymentRecord
              /\ condPayment[id].payer \in Users /\ condPayment[id].recipient \in Users
              /\ condPayment[id].amount \in Nat /\ condPayment[id].amount > 0
              /\ condPayment[id].conditions \in Seq(Conditional!Condition)
         /\ condWallet \in [CondAccounts -> Nat]
<1>1. condPayment \in Seq(Conditional!PaymentRecord) /\ condWallet \in [CondAccounts -> Nat]
  BY DEF Conditional!TypeOK, CondAccounts
<1>2. /\ Len(condPayment) \in Nat /\ Conditional!PaymentIds = 1..Len(condPayment)
      /\ \A id \in Conditional!PaymentIds : condPayment[id] \in Conditional!PaymentRecord
  BY <1>1 DEF Conditional!PaymentIds
<1> QED
  BY <1>1, <1>2 DEF Conditional!PaymentRecord

\* A settlement rewrites the status and the time of one record, and moves its
\* amount from the contract to the payee.
LEMMA SettleEffect ==
  ASSUME Conditional!ConditionalAssumption, Conditional!TypeOK,
         NEW id \in Conditional!PaymentIds, NEW status \in {"Executed", "Cancelled"},
         NEW payee \in Users, Conditional!Settle(id, status, payee)
  PROVE  /\ condPayment' \in Seq(Conditional!PaymentRecord)
         /\ Conditional!PaymentIds' = Conditional!PaymentIds
         /\ \A k \in Conditional!PaymentIds : k # id => condPayment'[k] = condPayment[k]
         /\ condPayment'[id].payer = condPayment[id].payer
         /\ condPayment'[id].recipient = condPayment[id].recipient
         /\ condPayment'[id].amount = condPayment[id].amount
         /\ condPayment'[id].conditions = condPayment[id].conditions
         /\ condPayment'[id].status = status /\ condPayment'[id].settled_at = timestamp
         /\ condWallet' \in [CondAccounts -> Nat]
         /\ \A u \in CondAccounts :
              condWallet'[u] = condWallet[u] + (IF u = payee THEN condPayment[id].amount ELSE 0)
                                     - (IF u = Contract THEN condPayment[id].amount ELSE 0)
<1>1. PICK P \in Seq(Conditional!PaymentRecord) : P = condPayment
  BY RecordFacts
<1>2. PICK r \in Conditional!PaymentRecord : r = P[id]
  BY <1>1, RecordFacts
<1>3. PICK t : t = [r EXCEPT !.status = status, !.settled_at = timestamp]
  OBVIOUS
<1>4. /\ t \in Conditional!PaymentRecord /\ t.payer = r.payer /\ t.recipient = r.recipient
      /\ t.amount = r.amount /\ t.conditions = r.conditions
      /\ t.status = status /\ t.settled_at = timestamp
  BY <1>3 DEF Conditional!PaymentRecord, Conditional!TypeOK
<1>5. /\ DOMAIN P = 1..Len(P) /\ Len(P) \in Nat /\ id \in 1..Len(P)
      /\ \A k \in 1..Len(P) : P[k] \in Conditional!PaymentRecord
  BY <1>1, RecordFacts
<1>6. condPayment' = [P EXCEPT ![id] = t]
  BY <1>1, <1>2, <1>3, <1>5 DEF Conditional!Settle
<1>7. /\ condPayment' \in Seq(Conditional!PaymentRecord) /\ DOMAIN condPayment' = 1..Len(P)
      /\ condPayment'[id] = t /\ \A k \in 1..Len(P) : k # id => condPayment'[k] = P[k]
  BY <1>4, <1>5, <1>6
<1>8. Conditional!PaymentIds' = Conditional!PaymentIds
  BY <1>1, <1>5, <1>7 DEF Conditional!PaymentIds
<1>9. PICK n \in Nat : n = r.amount
  BY DEF Conditional!PaymentRecord
<1>10. /\ condWallet \in [CondAccounts -> Nat] /\ condWallet[Contract] >= n
       /\ Contract \in CondAccounts /\ payee \in CondAccounts /\ payee # Contract
       /\ condWallet' = [condWallet EXCEPT ![Contract] = @ - n, ![payee] = @ + n]
  BY <1>1, <1>2, <1>9, RecordFacts
  DEF Conditional!Settle, Conditional!ConditionalAssumption, CondAccounts
<1>11. \A u \in CondAccounts :
         /\ condWallet'[u] = condWallet[u] + (IF u = payee THEN n ELSE 0) - (IF u = Contract THEN n ELSE 0)
         /\ condWallet'[u] \in Nat
  BY <1>10
<1>12. condWallet' \in [CondAccounts -> Nat]
  BY <1>10, <1>11
<1>13. condPayment[id] = r /\ condPayment'[id] = t /\ n = condPayment[id].amount
  BY <1>1, <1>2, <1>7, <1>9
<1>14. \A k \in Conditional!PaymentIds : k # id => condPayment'[k] = condPayment[k]
  BY <1>1, <1>5, <1>7, RecordFacts
<1>15. \A u \in CondAccounts :
         condWallet'[u] = condWallet[u] + (IF u = payee THEN condPayment[id].amount ELSE 0)
                                - (IF u = Contract THEN condPayment[id].amount ELSE 0)
  BY <1>11, <1>13
<1> QED
  BY <1>4, <1>7, <1>8, <1>12, <1>13, <1>14, <1>15

\* A payment that is created is appended, and its amount is locked.
LEMMA OfferEffect ==
  ASSUME Conditional!ConditionalAssumption, Conditional!TypeOK, NEW o \in Offers,
         Conditional!CreatePayment(o)
  PROVE  /\ o.payer \in Users /\ o.recipient \in Users /\ o.payer # o.recipient
         /\ o.amount \in 1..condWallet[o.payer]
         /\ condPayment' \in Seq(Conditional!PaymentRecord)
         /\ Conditional!PaymentIds' = 1..(Len(condPayment) + 1)
         /\ \A k \in Conditional!PaymentIds : condPayment'[k] = condPayment[k]
         /\ condPayment'[Len(condPayment) + 1] = [payer |-> o.payer, recipient |-> o.recipient,
                                          amount |-> o.amount, conditions |-> o.conditions,
                                          status |-> "Pending", settled_at |-> 0]
         /\ condWallet' = [condWallet EXCEPT ![o.payer] = @ - o.amount, ![Contract] = @ + o.amount]
         /\ condWallet' \in [CondAccounts -> Nat] /\ condAllowance' \in [Users -> Nat]
<1>1. /\ o.payer \in Users /\ o.recipient \in Users /\ o.amount \in Int
      /\ o.conditions \in Seq(Conditional!Condition)
  BY DEF Conditional!ConditionalAssumption
<1>2. PICK P \in Seq(Conditional!PaymentRecord) : P = condPayment
  BY RecordFacts
<1>3. PICK t : t = [payer |-> o.payer, recipient |-> o.recipient,
                    amount |-> o.amount, conditions |-> o.conditions,
                    status |-> "Pending", settled_at |-> 0]
  OBVIOUS
<1>4. t \in Conditional!PaymentRecord
  BY <1>1, <1>3 DEF Conditional!PaymentRecord, Conditional!CreatePayment
<1>5. condPayment' = Append(P, t)
  BY <1>2, <1>3 DEF Conditional!CreatePayment
<1>6. Len(P) \in Nat /\ DOMAIN P = 1..Len(P)
  OBVIOUS
<1>7. /\ condPayment' \in Seq(Conditional!PaymentRecord) /\ DOMAIN condPayment' = 1..(Len(P) + 1)
      /\ condPayment'[Len(P) + 1] = t /\ \A k \in 1..Len(P) : condPayment'[k] = P[k]
  BY <1>4, <1>5, <1>6
<1>8. PICK n \in Int : n = o.amount
  BY <1>1
<1>9. /\ n > 0 /\ condWallet[o.payer] >= n /\ condAllowance[o.payer] >= n /\ o.payer # o.recipient
      /\ condWallet \in [CondAccounts -> Nat] /\ condAllowance \in [Users -> Nat]
      /\ condWallet' = [condWallet EXCEPT ![o.payer] = @ - n, ![Contract] = @ + n]
      /\ condAllowance' = [condAllowance EXCEPT ![o.payer] = @ - n]
      /\ Contract \in CondAccounts /\ o.payer \in CondAccounts /\ o.payer # Contract
  BY <1>1, <1>8
  DEF Conditional!CreatePayment, Conditional!TypeOK, CondAccounts, Conditional!ConditionalAssumption
<1>10. /\ condWallet' \in [CondAccounts -> Nat] /\ condAllowance' \in [Users -> Nat]
       /\ n \in 1..condWallet[o.payer]
  <2>1. condWallet[o.payer] - n \in Nat /\ condAllowance[o.payer] - n \in Nat
    BY <1>1, <1>9
  <2>2. condWallet' \in [CondAccounts -> Nat]
    BY <1>9, <2>1
  <2>3. condAllowance' \in [Users -> Nat]
    BY <1>1, <1>9, <2>1
  <2>4. n \in 1..condWallet[o.payer]
    BY <1>1, <1>9
  <2> QED
    BY <2>2, <2>3, <2>4
<1> QED
  BY <1>1, <1>2, <1>3, <1>6, <1>7, <1>8, <1>9, <1>10 DEF Conditional!PaymentIds

\* A payment's terms never change, its approvals are never lost, and time goes on.
LEMMA ConditionalInit ==
  ASSUME Conditional!ConditionalAssumption, Conditional!Init
  PROVE  Conditional!TypeOK /\ Conditional!SettledAsAgreed
<1>1. /\ condPayment = << >> /\ ApprovalStamp = {} /\ condAdmin = Unset /\ timestamp = 0
      /\ condWallet = ConditionalOpening /\ condAllowance = [u \in Users |-> 0]
      /\ ConditionalOpening \in [Users \cup {Contract} -> Nat]
  BY DEF Conditional!Init, Conditional!ConditionalAssumption
<1>2. condPayment \in Seq(Conditional!PaymentRecord) /\ Conditional!PaymentIds = {}
  BY <1>1 DEF Conditional!PaymentIds
<1>3. condAllowance \in [Users -> Nat]
  BY <1>1
<1> QED
  BY <1>1, <1>2, <1>3 DEF Conditional!TypeOK, Conditional!SettledAsAgreed

LEMMA CreateKeepsTypes ==
  ASSUME Conditional!ConditionalAssumption, Conditional!TypeOK, NEW o \in Offers,
         Conditional!CreatePayment(o)
  PROVE  Conditional!TypeOK'
<1>1. /\ condPayment' \in Seq(Conditional!PaymentRecord) /\ condWallet' \in [CondAccounts -> Nat]
      /\ condAllowance' \in [Users -> Nat] /\ Conditional!PaymentIds' = 1..(Len(condPayment) + 1)
  BY OfferEffect
<1>2. ASSUME NEW k \in Conditional!PaymentIds'
      PROVE  /\ condPayment'[k].payer # condPayment'[k].recipient
             /\ condPayment'[k].settled_at <= timestamp
  <2>1. CASE k \in Conditional!PaymentIds
    BY <2>1, OfferEffect DEF Conditional!TypeOK
  <2>2. CASE k \notin Conditional!PaymentIds
    <3>1. k = Len(condPayment) + 1
      BY <1>1, <2>2, RecordFacts
    <3>2. /\ condPayment'[k].payer = o.payer /\ condPayment'[k].recipient = o.recipient
          /\ condPayment'[k].settled_at = 0 /\ o.payer # o.recipient
      <4>1. PICK t : t = condPayment'[k]
        OBVIOUS
      <4>2. t = [payer |-> o.payer, recipient |-> o.recipient, amount |-> o.amount,
                 conditions |-> o.conditions, status |-> "Pending", settled_at |-> 0]
        BY <3>1, <4>1, OfferEffect
      <4> QED
        BY <4>1, <4>2, OfferEffect
    <3> QED
      BY <3>2 DEF Conditional!TypeOK
  <2> QED
    BY <2>1, <2>2
<1>3. /\ condAdmin' = condAdmin /\ ApprovalStamp' = ApprovalStamp /\ timestamp' = timestamp
  BY DEF Conditional!CreatePayment
<1>4. ApprovalStamp' \subseteq Conditional!PaymentIds' \X Users
  <2>1. Conditional!PaymentIds \subseteq Conditional!PaymentIds'
    BY <1>1, RecordFacts
  <2> QED
    BY <1>3, <2>1 DEF Conditional!TypeOK
<1> QED
  BY <1>1, <1>2, <1>3, <1>4 DEF Conditional!TypeOK, CondAccounts

LEMMA SettleKeepsTypes ==
  ASSUME Conditional!ConditionalAssumption, Conditional!TypeOK,
         NEW id \in Conditional!PaymentIds, NEW status \in {"Executed", "Cancelled"},
         NEW payee \in Users, Conditional!Settle(id, status, payee)
  PROVE  Conditional!TypeOK'
<1>1. /\ condPayment' \in Seq(Conditional!PaymentRecord) /\ condWallet' \in [CondAccounts -> Nat]
      /\ Conditional!PaymentIds' = Conditional!PaymentIds
  BY SettleEffect
<1>2. UNCHANGED <<condAdmin, ApprovalStamp, condAllowance, timestamp>>
  BY DEF Conditional!Settle
<1>3. ASSUME NEW k \in Conditional!PaymentIds
      PROVE  /\ condPayment'[k].payer # condPayment'[k].recipient
             /\ condPayment'[k].settled_at <= timestamp
  <2>1. CASE k = id
    BY <2>1, SettleEffect DEF Conditional!TypeOK
  <2>2. CASE k # id
    BY <2>2, SettleEffect DEF Conditional!TypeOK
  <2> QED
    BY <2>1, <2>2
<1> QED
  BY <1>1, <1>2, <1>3 DEF Conditional!TypeOK, CondAccounts

\* A payee is the recipient or the payer of the payment that is settled.
LEMMA SettlingFacts ==
  ASSUME Conditional!TypeOK, NEW id \in Conditional!PaymentIds
  PROVE  /\ Conditional!ExecutePayment(id) =>
              \E payee \in Users : /\ payee = condPayment[id].recipient
                                   /\ Conditional!Settle(id, "Executed", payee)
         /\ \A u : Conditional!CancelPayment(u, id) =>
              \E payee \in Users : /\ payee = condPayment[id].payer
                                   /\ Conditional!Settle(id, "Cancelled", payee)
BY RecordFacts DEF Conditional!ExecutePayment, Conditional!CancelPayment

LEMMA ConditionalTypes ==
  ASSUME Conditional!ConditionalAssumption, Conditional!TypeOK,
         [Conditional!Next]_(Conditional!vars)
  PROVE  Conditional!TypeOK'
<1>1. CASE \E u \in Users : Conditional!Initialize(u)
  BY <1>1 DEF Conditional!Initialize, Conditional!TypeOK, Conditional!PaymentIds
<1>2. CASE \E o \in Offers : Conditional!CreatePayment(o)
  BY <1>2, CreateKeepsTypes
<1>3. CASE \E u \in Users, id \in Conditional!PaymentIds : Conditional!Approve(u, id)
  BY <1>3 DEF Conditional!Approve, Conditional!TypeOK, Conditional!PaymentIds
<1>4. CASE \E id \in Conditional!PaymentIds : Conditional!ExecutePayment(id)
  BY <1>4, SettlingFacts, SettleKeepsTypes
<1>5. CASE \E u \in Users, id \in Conditional!PaymentIds : Conditional!CancelPayment(u, id)
  BY <1>5, SettlingFacts, SettleKeepsTypes
<1>6. CASE \E u \in Users, n \in ConditionalAllowances : Conditional!SetAllowance(u, n)
  <2>1. PICK u \in Users, n \in Nat : Conditional!SetAllowance(u, n)
    BY <1>6 DEF Conditional!ConditionalAssumption
  <2>2. condAllowance' \in [Users -> Nat]
    BY <2>1 DEF Conditional!SetAllowance, Conditional!TypeOK
  <2>3. UNCHANGED <<condAdmin, condPayment, ApprovalStamp, condWallet, timestamp>>
    BY <2>1 DEF Conditional!SetAllowance
  <2> QED
    BY <2>2, <2>3 DEF Conditional!TypeOK, Conditional!PaymentIds
<1>7. CASE Conditional!CloseLedger
  <2>1. UNCHANGED <<condAdmin, condPayment, ApprovalStamp, condWallet, condAllowance>>
    BY <1>7 DEF Conditional!CloseLedger
  <2>2. timestamp' = timestamp + 1 /\ timestamp \in Nat
    BY <1>7 DEF Conditional!CloseLedger, Conditional!TypeOK
  <2>3. \A k \in Conditional!PaymentIds : condPayment[k].settled_at \in Nat
    BY RecordFacts DEF Conditional!PaymentRecord
  <2> QED
    BY <2>1, <2>2, <2>3 DEF Conditional!TypeOK, Conditional!PaymentIds
<1>8. CASE UNCHANGED Conditional!vars
  BY <1>8 DEF Conditional!vars, Conditional!TypeOK, Conditional!PaymentIds
<1> QED
  BY <1>1, <1>2, <1>3, <1>4, <1>5, <1>6, <1>7, <1>8 DEF Conditional!Next

\* Payments are well formed, on accounts that never go negative, whatever is offered.
THEOREM ConditionalTypeCorrect ==
  ASSUME Conditional!ConditionalAssumption
  PROVE  Conditional!Spec => []Conditional!TypeOK
<1>1. Conditional!Init => Conditional!TypeOK
  BY ConditionalInit
<1>2. Conditional!TypeOK /\ [Conditional!Next]_(Conditional!vars) => Conditional!TypeOK'
  BY ConditionalTypes
<1> QED
  BY <1>1, <1>2, PTL DEF Conditional!Spec

\* Of the n positions of a list, those in A name at most as many fewer different
\* values than there are positions in A as the list has repetitions.
LEMMA ValuesOfPositions ==
  ASSUME NEW T, NEW list \in Seq(T), NEW A \in SUBSET DOMAIN list
  PROVE  LET Named(P) == {list[k] : k \in P} IN
         /\ IsFiniteSet(Named(A))
         /\ Cardinality(Named(A)) >= Cardinality(A) - (Len(list) - Cardinality(Named(DOMAIN list)))
<1> DEFINE Named(P) == {list[k] : k \in P}
           D == DOMAIN list
<1>1. D = 1..Len(list) /\ Len(list) \in Nat
  OBVIOUS
<1>2. IsFiniteSet(D) /\ Cardinality(D) = Len(list)
  <2> DEFINE n == Len(list)
  <2>1. n \in Nat
    BY <1>1
  <2> HIDE DEF n
  <2>2. IsFiniteSet(1..n) /\ Cardinality(1..n) = n
    BY <2>1, FS_Interval
  <2> QED
    BY <1>1, <2>2 DEF n
<1>3. /\ IsFiniteSet(A) /\ Cardinality(A) \in Nat
      /\ IsFiniteSet(D \ A) /\ Cardinality(D \ A) = Len(list) - Cardinality(A)
  <2>1. IsFiniteSet(A) /\ D \cap A = A
    BY <1>2, FS_Subset
  <2>2. Cardinality(A) \in Nat
    BY <2>1, FS_CardinalityType
  <2> HIDE DEF D
  <2>3. IsFiniteSet(D \ A) /\ Cardinality(D \ A) = Cardinality(D) - Cardinality(D \cap A)
    BY <1>2, FS_Difference
  <2> QED
    BY <1>2, <2>1, <2>2, <2>3
<1>4. ASSUME NEW P \in SUBSET D, IsFiniteSet(P)
      PROVE  /\ IsFiniteSet(Named(P)) /\ Cardinality(Named(P)) \in Nat
             /\ Cardinality(Named(P)) <= Cardinality(P)
  <2> DEFINE f == [k \in P |-> list[k]]
  <2>1. f \in Surjection(P, Named(P))
    BY DEF Surjection
  <2> HIDE DEF f
  <2> QED
    BY <1>4, <2>1, FS_Surjection, FS_CardinalityType
<1>5. Named(D) = Named(A) \cup Named(D \ A)
  OBVIOUS
<1>6. Cardinality(Named(D)) <= Cardinality(Named(A)) + Cardinality(Named(D \ A))
  <2>1. /\ IsFiniteSet(Named(A)) /\ IsFiniteSet(Named(D \ A))
        /\ Cardinality(Named(A)) \in Nat /\ Cardinality(Named(D \ A)) \in Nat
    BY <1>3, <1>4
  <2>2. /\ IsFiniteSet(Named(A) \cap Named(D \ A))
        /\ Cardinality(Named(A) \cap Named(D \ A)) \in Nat
    BY <2>1, FS_Subset, FS_CardinalityType
  <2> HIDE DEF Named
  <2>3. Cardinality(Named(A) \cup Named(D \ A)) =
          Cardinality(Named(A)) + Cardinality(Named(D \ A)) - Cardinality(Named(A) \cap Named(D \ A))
    BY <2>1, FS_Union
  <2>4. \A x, y, z \in Nat : x + y - z <= x + y
    OBVIOUS
  <2> QED
    BY ONLY <1>5, <2>1, <2>2, <2>3, <2>4
<1>7. /\ Cardinality(Named(D \ A)) <= Len(list) - Cardinality(A)
      /\ Cardinality(Named(D \ A)) \in Nat /\ Cardinality(Named(A)) \in Nat
      /\ Cardinality(Named(D)) \in Nat /\ IsFiniteSet(Named(A))
  BY <1>2, <1>3, <1>4
<1> HIDE DEF Named, D
<1>8. Cardinality(Named(A)) >= Cardinality(A) - (Len(list) - Cardinality(Named(D)))
  BY <1>1, <1>3, <1>6, <1>7
<1> QED
  BY <1>7, <1>8 DEF Named, D

LEMMA SameConditionalCardinality == \A S : Conditional!Cardinality(S) = Cardinality(S)
BY DEF Conditional!Cardinality, Cardinality

\* What an executed payment's record says of condition c of payment id.
MetBy(c, id, at) ==
  /\ c.type = "TimeAfter" => at >= c.at
  /\ c.type = "TimeBefore" => at < c.at
  /\ c.type = "MultiSigApproved" =>
       \E S \in SUBSET Conditional!Signers(c) :
         /\ Cardinality(S) >= c.required - Conditional!Repeats(c)
         /\ \A s \in S : <<id, s>> \in ApprovalStamp

LEMMA AgreedIsMet ==
  Conditional!SettledAsAgreed <=>
    \A id \in Conditional!PaymentIds : condPayment[id].status = "Executed" =>
      \A i \in DOMAIN condPayment[id].conditions :
        MetBy(condPayment[id].conditions[i], id, condPayment[id].settled_at)
BY SameConditionalCardinality DEF Conditional!SettledAsAgreed, MetBy

\* A condition that holds is met by the present.
LEMMA HoldsIsMet ==
  ASSUME NEW c \in Conditional!Condition, NEW id, Conditional!Holds(id, c)
  PROVE  MetBy(c, id, timestamp)
<1>1. CASE c.type = "TimeAfter"
  BY <1>1 DEF Conditional!Holds, MetBy
<1>2. CASE c.type = "TimeBefore"
  BY <1>2 DEF Conditional!Holds, MetBy
<1>3. CASE c.type = "MultiSigApproved"
  <2>1. c.signers \in Seq(Users) /\ c.required \in Nat
    BY <1>3 DEF Conditional!Condition, Conditional!TimeCondition, Conditional!BalanceCondition,
                Conditional!MultiSigCondition
  <2> DEFINE A == {i \in DOMAIN c.signers : <<id, c.signers[i]>> \in ApprovalStamp}
  <2>2. Cardinality(A) >= c.required
    BY <1>3, SameConditionalCardinality DEF Conditional!Holds, Conditional!Approvals
  <2> DEFINE S == {c.signers[k] : k \in A}
  <2>3. Cardinality(S) >= Cardinality(A) - (Len(c.signers)
                            - Cardinality({c.signers[k] : k \in DOMAIN c.signers}))
    BY <2>1, ValuesOfPositions
  <2>4. Cardinality(S) >= Cardinality(A) - Conditional!Repeats(c)
    BY <2>3, SameConditionalCardinality DEF Conditional!Repeats, Conditional!Signers
  <2>5. Cardinality(S) >= c.required - Conditional!Repeats(c)
    <3>1. IsFiniteSet(DOMAIN c.signers) /\ A \subseteq DOMAIN c.signers
      BY <2>1, FS_Interval
    <3>2. /\ IsFiniteSet(A) /\ IsFiniteSet(S)
          /\ IsFiniteSet({c.signers[k] : k \in DOMAIN c.signers})
      <4>1. DOMAIN c.signers \in SUBSET DOMAIN c.signers
        OBVIOUS
      <4>2. IsFiniteSet({c.signers[k] : k \in DOMAIN c.signers})
        BY <2>1, <4>1, ValuesOfPositions
      <4>3. IsFiniteSet(A)
        BY <3>1, FS_Subset
      <4>4. A \in SUBSET DOMAIN c.signers
        OBVIOUS
      <4> HIDE DEF A
      <4>5. IsFiniteSet(S)
        BY <2>1, <4>4, ValuesOfPositions
      <4> QED
        BY <4>2, <4>3, <4>5
    <3>3. /\ Cardinality(A) \in Int /\ Cardinality(S) \in Int
          /\ Conditional!Repeats(c) \in Int
      <4> HIDE DEF A, S
      <4> QED
        BY <2>1, <3>2, FS_CardinalityType, SameConditionalCardinality
        DEF Conditional!Repeats, Conditional!Signers
    <3> HIDE DEF A, S
    <3> QED
      BY <2>1, <2>2, <2>4, <3>3
  <2>6. S \in SUBSET Conditional!Signers(c) /\ \A s \in S : <<id, s>> \in ApprovalStamp
    BY DEF Conditional!Signers
  <2> HIDE DEF S
  <2> QED
    BY <1>3, <2>5, <2>6 DEF MetBy
<1>4. CASE c.type \notin {"TimeAfter", "TimeBefore", "MultiSigApproved"}
  BY <1>4 DEF MetBy
<1> QED
  BY <1>1, <1>2, <1>3, <1>4

\* A step that keeps every executed record and every approval keeps the agreement.
LEMMA KeepsAgreement ==
  ASSUME Conditional!SettledAsAgreed, ApprovalStamp \subseteq ApprovalStamp',
         \A k \in Conditional!PaymentIds' : condPayment'[k].status = "Executed" =>
           \/ k \in Conditional!PaymentIds /\ condPayment'[k] = condPayment[k]
           \/ \A i \in DOMAIN condPayment'[k].conditions :
                MetBy(condPayment'[k].conditions[i], k, condPayment'[k].settled_at)
  PROVE  Conditional!SettledAsAgreed'
<1>1. PICK stamps : stamps = ApprovalStamp'
  OBVIOUS
<1> DEFINE Met(c, id, at) ==
             /\ c.type = "TimeAfter" => at >= c.at
             /\ c.type = "TimeBefore" => at < c.at
             /\ c.type = "MultiSigApproved" =>
                  \E S \in SUBSET Conditional!Signers(c) :
                    /\ Cardinality(S) >= c.required - Conditional!Repeats(c)
                    /\ \A s \in S : <<id, s>> \in stamps
<1>2. \A c, id, at : MetBy(c, id, at) => Met(c, id, at)
  BY <1>1 DEF MetBy
<1>3. ASSUME NEW k \in Conditional!PaymentIds', condPayment'[k].status = "Executed",
             NEW i \in DOMAIN condPayment'[k].conditions
      PROVE  MetBy(condPayment'[k].conditions[i], k, condPayment'[k].settled_at)
  BY <1>3, AgreedIsMet
<1> HIDE DEF Met
<1>4. \A k \in Conditional!PaymentIds' : condPayment'[k].status = "Executed" =>
        \A i \in DOMAIN condPayment'[k].conditions :
          Met(condPayment'[k].conditions[i], k, condPayment'[k].settled_at)
  BY <1>2, <1>3
<1> QED
  BY <1>1, <1>4, SameConditionalCardinality DEF Conditional!SettledAsAgreed, Met

LEMMA ConditionalAgreement ==
  ASSUME Conditional!ConditionalAssumption, Conditional!TypeOK, Conditional!SettledAsAgreed,
         [Conditional!Next]_(Conditional!vars)
  PROVE  Conditional!SettledAsAgreed'
<1>1. ASSUME UNCHANGED condPayment, ApprovalStamp \subseteq ApprovalStamp'
      PROVE  Conditional!SettledAsAgreed'
  BY <1>1, KeepsAgreement DEF Conditional!PaymentIds
<1>2. CASE \E u \in Users : Conditional!Initialize(u)
  BY <1>1, <1>2 DEF Conditional!Initialize
<1>3. ASSUME NEW o \in Offers, Conditional!CreatePayment(o)
      PROVE  Conditional!SettledAsAgreed'
  <2>1. ASSUME NEW k \in Conditional!PaymentIds', condPayment'[k].status = "Executed"
        PROVE  k \in Conditional!PaymentIds /\ condPayment'[k] = condPayment[k]
    <3>1. condPayment'[Len(condPayment) + 1].status = "Pending"
      <4>1. PICK t : t = condPayment'[Len(condPayment) + 1]
        OBVIOUS
      <4>2. t = [payer |-> o.payer, recipient |-> o.recipient, amount |-> o.amount,
                 conditions |-> o.conditions, status |-> "Pending", settled_at |-> 0]
        BY <1>3, <4>1, OfferEffect
      <4> QED
        BY <4>1, <4>2
    <3>2. k # Len(condPayment) + 1
      BY <2>1, <3>1
    <3>3. k \in Conditional!PaymentIds
      <4>1. k \in 1..(Len(condPayment) + 1)
        BY <1>3, OfferEffect
      <4> QED
        BY <3>2, <4>1, RecordFacts
    <3> QED
      BY <1>3, <3>3, OfferEffect
  <2>2. ApprovalStamp' = ApprovalStamp
    BY <1>3 DEF Conditional!CreatePayment
  <2> QED
    BY <2>1, <2>2, KeepsAgreement
<1>4. CASE \E u \in Users, id \in Conditional!PaymentIds : Conditional!Approve(u, id)
  BY <1>1, <1>4 DEF Conditional!Approve
<1>5. ASSUME NEW id \in Conditional!PaymentIds, NEW payee \in Users,
             NEW status \in {"Executed", "Cancelled"}, Conditional!Settle(id, status, payee),
             status = "Executed" => Conditional!AllHold(id)
      PROVE  Conditional!SettledAsAgreed'
  <2>1. ASSUME NEW i \in DOMAIN condPayment[id].conditions, status = "Executed"
        PROVE  MetBy(condPayment[id].conditions[i], id, timestamp)
    <3>1. condPayment[id].conditions[i] \in Conditional!Condition
      BY RecordFacts
    <3>2. Conditional!Holds(id, condPayment[id].conditions[i])
      BY <1>5, <2>1 DEF Conditional!AllHold
    <3> QED
      BY <3>1, <3>2, HoldsIsMet
  <2>2. /\ condPayment'[id].conditions = condPayment[id].conditions
        /\ condPayment'[id].settled_at = timestamp /\ condPayment'[id].status = status
        /\ Conditional!PaymentIds' = Conditional!PaymentIds
        /\ \A k \in Conditional!PaymentIds : k # id => condPayment'[k] = condPayment[k]
    BY <1>5, SettleEffect
  <2>3. ApprovalStamp' = ApprovalStamp
    BY <1>5 DEF Conditional!Settle
  <2> QED
    BY <2>1, <2>2, <2>3, KeepsAgreement
<1>6. CASE \E id \in Conditional!PaymentIds : Conditional!ExecutePayment(id)
  <2>1. PICK id \in Conditional!PaymentIds : Conditional!ExecutePayment(id)
    BY <1>6
  <2>2. Conditional!AllHold(id)
    BY <2>1 DEF Conditional!ExecutePayment
  <2> QED
    BY <1>5, <2>1, <2>2, SettlingFacts
<1>7. CASE \E u \in Users, id \in Conditional!PaymentIds : Conditional!CancelPayment(u, id)
  BY <1>5, <1>7, SettlingFacts
<1>8. CASE \/ \E u \in Users, n \in ConditionalAllowances : Conditional!SetAllowance(u, n)
           \/ Conditional!CloseLedger \/ UNCHANGED Conditional!vars
  BY <1>1, <1>8 DEF Conditional!SetAllowance, Conditional!CloseLedger, Conditional!vars
<1> QED
  BY <1>2, <1>3, <1>4, <1>6, <1>7, <1>8 DEF Conditional!Next

\* An executed payment was executed in its time and with the approvals of the different
\* signers its list of required approvals leaves it to ask for: as many as are required,
\* less the repetitions in the list.  Neither the record nor the approvals change after it.
THEOREM PaidAsAgreed ==
  ASSUME Conditional!ConditionalAssumption
  PROVE  Conditional!Spec => []Conditional!SettledAsAgreed
<1> DEFINE Inv == Conditional!TypeOK /\ Conditional!SettledAsAgreed
<1>1. Conditional!Init => Inv
  BY ConditionalInit
<1>2. Inv /\ [Conditional!Next]_(Conditional!vars) => Inv'
  BY ConditionalTypes, ConditionalAgreement
<1> QED
  BY <1>1, <1>2, PTL DEF Conditional!Spec

------------------------------------------------------------------------------
\* Conditional payments implement EscrowLedger.

LEMMA PromiseOperators ==
  /\ \A S : Conditional!Promise!Cardinality(S) = Cardinality(S)
  /\ \A f, n : Conditional!Promise!SumTo(f, n) = SumTo(f, n)
  /\ \A f, S : Conditional!Promise!Masked(f, S) = Masked(f, S)
BY DEF Conditional!Promise!Cardinality, Cardinality, Conditional!Promise!SumTo, SumTo,
       Conditional!Promise!Masked, Masked

PaymentAmounts == [id \in Conditional!PaymentIds |-> condPayment[id].amount]

LEMMA PaymentDeals ==
  ASSUME Conditional!TypeOK
  PROVE  /\ Conditional!Promise!DealIds = Conditional!PaymentIds
         /\ Cardinality(Conditional!PaymentIds) = Len(condPayment)
         /\ Conditional!Promise!Amounts = PaymentAmounts
         /\ PaymentAmounts \in [1..Len(condPayment) -> Nat]
         /\ \A id \in Conditional!PaymentIds :
              condPayment[id].status = "Pending" => id \in Conditional!Promise!OpenDeals
         /\ Conditional!Promise!Accounts = CondAccounts
<1>1. Conditional!PaymentIds = 1..Len(condPayment) /\ Len(condPayment) \in Nat
  BY RecordFacts
<1>2. Cardinality(Conditional!PaymentIds) = Len(condPayment)
  <2>1. PICK n \in Nat : n = Len(condPayment)
    BY <1>1
  <2>2. Cardinality(1..n) = n
    BY FS_Interval
  <2> QED
    BY <1>1, <2>1, <2>2
<1>3. Conditional!Promise!DealIds = Conditional!PaymentIds
  BY DEF Conditional!Promise!DealIds
<1>4. Conditional!Promise!Amounts = PaymentAmounts
  BY <1>3 DEF Conditional!Promise!Amounts, PaymentAmounts, Conditional!Deal
<1>5. PaymentAmounts \in [1..Len(condPayment) -> Nat]
  BY <1>1, RecordFacts DEF PaymentAmounts
<1>6. \A id \in Conditional!PaymentIds :
        condPayment[id].status = "Pending" => id \in Conditional!Promise!OpenDeals
  BY <1>3 DEF Conditional!Promise!OpenDeals, Conditional!OutcomeOf
<1>7. Conditional!Promise!Accounts = CondAccounts
  BY DEF Conditional!Promise!Accounts, CondAccounts
<1> QED
  BY <1>2, <1>3, <1>4, <1>5, <1>6, <1>7

\* A total over one payment is its amount, and over none it is nothing.
LEMMA OnePaymentTotal ==
  ASSUME Conditional!TypeOK, NEW id \in Conditional!PaymentIds
  PROVE  /\ SumTo(Masked(PaymentAmounts, {}), Len(condPayment)) = 0
         /\ SumTo(Masked(PaymentAmounts, {id}), Len(condPayment)) = condPayment[id].amount
<1>1. PICK n \in Nat : n = Len(condPayment)
  BY RecordFacts
<1>2. PICK f \in [1..n -> Int] : f = PaymentAmounts
  BY <1>1, PaymentDeals
<1>3. id \in 1..n /\ f[id] = condPayment[id].amount
  BY <1>1, <1>2, RecordFacts DEF PaymentAmounts
<1>4. \A i \in 1..n : Masked(f, {})[i] = 0
  BY DEF Masked
<1>5. SumTo(Masked(f, {}), n) = 0
  BY <1>4, SumOfZeros
<1> DEFINE R == {}
<1>6. R \cup {id} = {id} /\ id \in (1..n) \ R
  BY <1>3
<1> HIDE DEF R
<1>7. SumTo(Masked(f, R \cup {id}), n) = SumTo(Masked(f, R), n) + f[id]
  BY <1>6, MaskedJoin
<1>8. f[id] \in Int
  BY <1>3
<1> QED
  BY <1>1, <1>2, <1>3, <1>5, <1>6, <1>7, <1>8 DEF R

\* A settlement closes one deal in favour of its payee.
LEMMA SettleMaps ==
  ASSUME Conditional!ConditionalAssumption, Conditional!TypeOK,
         NEW id \in Conditional!PaymentIds, NEW status \in {"Executed", "Cancelled"},
         NEW payees \in [Conditional!PaymentIds -> Users],
         Conditional!Settle(id, status, payees[id]),
         NEW result, result = IF status = "Executed" THEN "paid" ELSE "refunded"
  PROVE  Conditional!Promise!Close({id}, result, payees)
<1> DEFINE payee == payees[id]
           Owed(S) == Conditional!Promise!SumTo(
                         Conditional!Promise!Masked(Conditional!Promise!Amounts, S),
                         Conditional!Promise!Cardinality(Conditional!Promise!DealIds))
<1>1. \A S : Owed(S) = SumTo(Masked(PaymentAmounts, S), Len(condPayment))
  BY PaymentDeals, PromiseOperators
<1>2. Owed({}) = 0 /\ Owed({id}) = condPayment[id].amount
  BY <1>1, OnePaymentTotal
<1>3. ASSUME NEW u
      PROVE  Owed({d \in {id} : payees[d] = u}) = IF u = payee THEN condPayment[id].amount ELSE 0
  <2>1. {d \in {id} : payees[d] = u} = IF u = payee THEN {id} ELSE {}
    OBVIOUS
  <2> HIDE DEF Owed, payee
  <2> QED
    BY <1>2, <2>1
<1>4. payee \in Users
  OBVIOUS
<1> HIDE DEF Owed
<1>5. condWallet' = [u \in CondAccounts |->
                   condWallet[u] + Owed({d \in {id} : payees[d] = u})
                             - (IF u = Contract THEN Owed({id}) ELSE 0)]
  <2>1. \A u \in CondAccounts :
          condWallet'[u] = condWallet[u] + (IF u = payee THEN condPayment[id].amount ELSE 0)
                                 - (IF u = Contract THEN condPayment[id].amount ELSE 0)
    BY <1>4, SettleEffect
  <2>2. condWallet' \in [CondAccounts -> Nat]
    BY <1>4, SettleEffect
  <2>3. \A u \in CondAccounts :
          condWallet'[u] = condWallet[u] + Owed({d \in {id} : payees[d] = u})
                                 - (IF u = Contract THEN Owed({id}) ELSE 0)
    <3> HIDE DEF payee
    <3> QED
      BY <1>2, <1>3, <2>1
  <2>4. condWallet' = [u \in CondAccounts |-> condWallet'[u]]
    BY <2>2
  <2> QED
    BY <2>3, <2>4
<1>6. /\ Conditional!PaymentIds' = Conditional!PaymentIds
      /\ \A k \in Conditional!PaymentIds :
           /\ Conditional!Deal(condPayment'[k]) = Conditional!Deal(condPayment[k])
           /\ Conditional!OutcomeOf(condPayment'[k])
                = IF k \in {id} THEN result ELSE Conditional!OutcomeOf(condPayment[k])
  BY <1>4, SettleEffect DEF Conditional!Deal, Conditional!OutcomeOf
<1>7. [k \in Conditional!PaymentIds |-> Conditional!Deal(condPayment[k])]'
        = [k \in Conditional!PaymentIds |-> Conditional!Deal(condPayment[k])]
  BY <1>6
<1>8. [k \in Conditional!PaymentIds |-> Conditional!OutcomeOf(condPayment[k])]'
        = [k \in Conditional!PaymentIds |->
             IF k \in {id} THEN result
             ELSE [d \in Conditional!PaymentIds |-> Conditional!OutcomeOf(condPayment[d])][k]]
  BY <1>6
<1> QED
  BY <1>5, <1>7, <1>8, PaymentDeals DEF Conditional!Promise!Close, Owed

\* A payment that is created is a deal that is opened.
LEMMA OfferMaps ==
  ASSUME Conditional!ConditionalAssumption, Conditional!TypeOK, NEW o \in Offers,
         Conditional!CreatePayment(o)
  PROVE  Conditional!Promise!Open(o.payer, o.recipient, o.amount)
<1>1. PICK n \in Nat : n = Len(condPayment) + 1 /\ n = Conditional!Promise!Cardinality(
                                                    Conditional!Promise!DealIds) + 1
  BY RecordFacts, PaymentDeals, PromiseOperators
<1>2. PICK t : t = [payer |-> o.payer, recipient |-> o.recipient, amount |-> o.amount,
                    conditions |-> o.conditions, status |-> "Pending", settled_at |-> 0]
  OBVIOUS
<1>3. /\ Conditional!PaymentIds' = 1..n /\ condPayment'[n] = t
      /\ \A k \in 1..n : k # n => k \in Conditional!PaymentIds /\ condPayment'[k] = condPayment[k]
  BY <1>1, <1>2, OfferEffect, RecordFacts
<1> DEFINE deal == [depositor |-> o.payer, recipient |-> o.recipient, amount |-> o.amount]
<1>4. Conditional!Deal(t) = deal /\ Conditional!OutcomeOf(t) = "open"
  BY <1>2 DEF Conditional!Deal, Conditional!OutcomeOf
<1> HIDE DEF deal
<1>5. \A k \in 1..n :
        /\ Conditional!Deal(condPayment'[k])
             = IF k = n THEN deal
               ELSE [d \in Conditional!PaymentIds |-> Conditional!Deal(condPayment[d])][k]
        /\ Conditional!OutcomeOf(condPayment'[k])
             = IF k = n THEN "open"
               ELSE [d \in Conditional!PaymentIds |-> Conditional!OutcomeOf(condPayment[d])][k]
  BY <1>3, <1>4
<1>6. [k \in Conditional!PaymentIds |-> Conditional!Deal(condPayment[k])]'
        = Conditional!Promise!Append1(
            [k \in Conditional!PaymentIds |-> Conditional!Deal(condPayment[k])], n, deal)
  BY <1>3, <1>5 DEF Conditional!Promise!Append1
<1>7. [k \in Conditional!PaymentIds |-> Conditional!OutcomeOf(condPayment[k])]'
        = Conditional!Promise!Append1(
            [k \in Conditional!PaymentIds |-> Conditional!OutcomeOf(condPayment[k])], n, "open")
  BY <1>3, <1>5 DEF Conditional!Promise!Append1
<1>8. /\ o.amount > 0 /\ condWallet[o.payer] >= o.amount
      /\ condWallet' = [condWallet EXCEPT ![o.payer] = @ - o.amount, ![Contract] = @ + o.amount]
  BY DEF Conditional!CreatePayment
<1> QED
  BY <1>1, <1>6, <1>7, <1>8 DEF Conditional!Promise!Open, deal

\* The payees of EscrowLedger are the recipients and the payers.
LEMMA PaymentPayees ==
  ASSUME Conditional!TypeOK, NEW S
  PROVE  /\ Conditional!Promise!Pay(S) <=>
              Conditional!Promise!Close(S, "paid",
                                        [k \in Conditional!PaymentIds |-> condPayment[k].recipient])
         /\ Conditional!Promise!Refund(S) <=>
              Conditional!Promise!Close(S, "refunded",
                                        [k \in Conditional!PaymentIds |-> condPayment[k].payer])
<1>1. /\ [d \in Conditional!Promise!DealIds |->
            [k \in Conditional!PaymentIds |-> Conditional!Deal(condPayment[k])][d].recipient]
           = [k \in Conditional!PaymentIds |-> condPayment[k].recipient]
      /\ [d \in Conditional!Promise!DealIds |->
            [k \in Conditional!PaymentIds |-> Conditional!Deal(condPayment[k])][d].depositor]
           = [k \in Conditional!PaymentIds |-> condPayment[k].payer]
  BY PaymentDeals DEF Conditional!Deal
<1> QED
  BY <1>1 DEF Conditional!Promise!Pay, Conditional!Promise!Refund

LEMMA ConditionalMaps ==
  ASSUME Conditional!ConditionalAssumption, Conditional!TypeOK,
         [Conditional!Next]_(Conditional!vars)
  PROVE  [Conditional!Promise!Next]_(Conditional!Promise!vars)
<1>1. ASSUME UNCHANGED <<condPayment, condWallet>> PROVE UNCHANGED Conditional!Promise!vars
  BY <1>1 DEF Conditional!Promise!vars, Conditional!PaymentIds
<1>2. CASE \/ \E u \in Users : Conditional!Initialize(u)
           \/ \E u \in Users, id \in Conditional!PaymentIds : Conditional!Approve(u, id)
           \/ \E u \in Users, n \in ConditionalAllowances : Conditional!SetAllowance(u, n)
           \/ Conditional!CloseLedger \/ UNCHANGED Conditional!vars
  BY <1>1, <1>2 DEF Conditional!Initialize, Conditional!Approve, Conditional!SetAllowance,
                    Conditional!CloseLedger, Conditional!vars
<1>3. ASSUME NEW o \in Offers, Conditional!CreatePayment(o) PROVE Conditional!Promise!Next
  <2>1. Conditional!Promise!Open(o.payer, o.recipient, o.amount)
    BY <1>3, OfferMaps
  <2>2. /\ o.payer \in Users /\ o.recipient \in Conditional!Promise!Accounts
        /\ o.amount \in 1..condWallet[o.payer]
    BY <1>3, OfferEffect, PaymentDeals DEF CondAccounts
  <2> QED
    BY <2>1, <2>2 DEF Conditional!Promise!Next
<1>4. ASSUME NEW id \in Conditional!PaymentIds, condPayment[id].status = "Pending",
             Conditional!Promise!Pay({id}) \/ Conditional!Promise!Refund({id})
      PROVE  Conditional!Promise!Next
  <2>1. {id} \in SUBSET Conditional!Promise!OpenDeals
    BY <1>4, PaymentDeals
  <2> QED
    BY <1>4, <2>1 DEF Conditional!Promise!Next
<1>5. ASSUME NEW id \in Conditional!PaymentIds, Conditional!ExecutePayment(id)
      PROVE  Conditional!Promise!Next
  <2> DEFINE payees == [k \in Conditional!PaymentIds |-> condPayment[k].recipient]
  <2>1. payees \in [Conditional!PaymentIds -> Users] /\ payees[id] = condPayment[id].recipient
    BY RecordFacts DEF Conditional!PaymentRecord
  <2>2. Conditional!Settle(id, "Executed", payees[id]) /\ condPayment[id].status = "Pending"
    BY <1>5, <2>1 DEF Conditional!ExecutePayment, Conditional!Open
  <2> HIDE DEF payees
  <2>3. Conditional!Promise!Close({id}, "paid", payees)
    BY <2>1, <2>2, SettleMaps
  <2> QED
    BY <1>4, <2>2, <2>3, PaymentPayees DEF payees
<1>6. ASSUME NEW u, NEW id \in Conditional!PaymentIds, Conditional!CancelPayment(u, id)
      PROVE  Conditional!Promise!Next
  <2> DEFINE payees == [k \in Conditional!PaymentIds |-> condPayment[k].payer]
  <2>1. payees \in [Conditional!PaymentIds -> Users] /\ payees[id] = condPayment[id].payer
    BY RecordFacts DEF Conditional!PaymentRecord
  <2>2. Conditional!Settle(id, "Cancelled", payees[id]) /\ condPayment[id].status = "Pending"
    BY <1>6, <2>1 DEF Conditional!CancelPayment, Conditional!Open
  <2> HIDE DEF payees
  <2>3. Conditional!Promise!Close({id}, "refunded", payees)
    BY <2>1, <2>2, SettleMaps
  <2> QED
    BY <1>4, <2>2, <2>3, PaymentPayees DEF payees
<1> QED
  BY <1>2, <1>3, <1>5, <1>6 DEF Conditional!Next

\* The conditional payments contract keeps the promise of the escrow contract: money that is
\* locked is paid to the recipient or refunded to the payer, once, in the full amount, and
\* moves on no other occasion.
THEOREM PaymentsImplementEscrow ==
  ASSUME Conditional!ConditionalAssumption
  PROVE  Conditional!Spec => Conditional!ImplementsEscrow
<1>1. Conditional!Init => Conditional!Promise!Init
  <2> SUFFICES ASSUME Conditional!Init PROVE Conditional!Promise!Init
    OBVIOUS
  <2>1. Conditional!PaymentIds = {} /\ condWallet = ConditionalOpening
    BY DEF Conditional!Init, Conditional!PaymentIds
  <2> QED
    BY <2>1 DEF Conditional!Promise!Init
<1>2. Conditional!Init => Conditional!TypeOK
  BY ConditionalInit
<1>3. Conditional!TypeOK /\ [Conditional!Next]_(Conditional!vars)
        => Conditional!TypeOK' /\ [Conditional!Promise!Next]_(Conditional!Promise!vars)
  BY ConditionalTypes, ConditionalMaps
<1> QED
  BY <1>1, <1>2, <1>3, PTL
  DEF Conditional!Spec, Conditional!ImplementsEscrow, Conditional!Promise!Spec

------------------------------------------------------------------------------
\* Approved savings withdrawals.

LEMMA SameWithdrawalCardinality == \A S : Withdrawals!Cardinality(S) = Cardinality(S)
BY DEF Withdrawals!Cardinality, Cardinality

\* The configuration in force, if there is one, is valid.
ValidSettings ==
  /\ Approvers \in Seq(Users)
  /\ Quorum = Unset <=> Approvers = << >>
  /\ Approvers # << >> => Withdrawals!ValidApproverConfig(Approvers, Quorum)
  /\ WithdrawalThreshold \in Nat \cup {Unset}

\* The requests are numbered 1..n, whatever the next number is after a repeated
\* initialisation.
Numbered(n) ==
  /\ Withdrawals!Ids = 1..n /\ NextWithdrawalId \in 0..n
  /\ WithdrawalRequest \in [1..n -> Withdrawals!RequestRecord]
  /\ WithdrawalStatus \in [1..n -> {"Pending", "Executed"}]
  /\ WithdrawalApproval \subseteq (1..n) \X Users

\* Every number's count is the number of addresses that approved under it.
CountsApprovers ==
  /\ WithdrawalApprovalCount \in [1..MaxWithdrawals -> Nat]
  /\ \A id \in 1..MaxWithdrawals :
       /\ IsFiniteSet(Withdrawals!ApprovedBy(id))
       /\ WithdrawalApprovalCount[id] = Cardinality(Withdrawals!ApprovedBy(id))

WithdrawalInv == /\ ValidSettings /\ CountsApprovers
                 /\ \E n \in 0..MaxWithdrawals : Numbered(n)

LEMMA WithdrawalInvIsSafe ==
  ASSUME Withdrawals!WithdrawalsAssumption, WithdrawalInv
  PROVE  /\ Withdrawals!TypeOK
         /\ \A id \in Withdrawals!Ids :
              WithdrawalApprovalCount[id] = Withdrawals!Cardinality(Withdrawals!ApprovedBy(id))
<1>1. PICK n \in 0..MaxWithdrawals : Numbered(n)
  BY DEF WithdrawalInv
<1>2. n \in Nat /\ MaxWithdrawals \in Nat
  BY DEF Withdrawals!WithdrawalsAssumption
<1>3. Cardinality(1..n) = n
  BY <1>2, FS_Interval
<1>4. Withdrawals!Cardinality(Withdrawals!Ids) = n
  BY <1>1, <1>3, SameWithdrawalCardinality DEF Numbered
<1>5. Withdrawals!TypeOK
  BY <1>1, <1>4 DEF Numbered, WithdrawalInv, ValidSettings, Withdrawals!TypeOK
<1>6. \A id \in Withdrawals!Ids : id \in 1..MaxWithdrawals
  BY <1>1, <1>2 DEF Numbered
<1> QED
  BY <1>5, <1>6, SameWithdrawalCardinality DEF WithdrawalInv, CountsApprovers

LEMMA WithdrawalInit ==
  ASSUME Withdrawals!WithdrawalsAssumption, Withdrawals!Init PROVE WithdrawalInv
<1>1. /\ Approvers = << >> /\ Quorum = Unset /\ WithdrawalThreshold = Unset
      /\ NextWithdrawalId = 0 /\ WithdrawalRequest = << >> /\ WithdrawalStatus = << >>
      /\ WithdrawalApproval = {}
      /\ WithdrawalApprovalCount = [i \in 1..MaxWithdrawals |-> 0]
  BY DEF Withdrawals!Init
<1>2. Numbered(0)
  <2>1. 1..0 = {}
    OBVIOUS
  <2> QED
    BY <1>1, <2>1 DEF Numbered, Withdrawals!Ids
<1>3. 0 \in 0..MaxWithdrawals
  BY DEF Withdrawals!WithdrawalsAssumption
<1>4. ValidSettings
  BY <1>1 DEF ValidSettings
<1>5. CountsApprovers
  <2>1. \A id : Withdrawals!ApprovedBy(id) = {}
    BY <1>1 DEF Withdrawals!ApprovedBy
  <2> QED
    BY <1>1, <2>1, FS_EmptySet DEF CountsApprovers
<1> QED
  BY <1>2, <1>3, <1>4, <1>5 DEF WithdrawalInv

\* A configuration that is accepted is valid.
LEMMA AcceptedConfig ==
  ASSUME Withdrawals!WithdrawalsAssumption, NEW list \in ApproverLists, NEW q,
         Withdrawals!ValidApproverConfig(list, q)
  PROVE  list \in Seq(Users) /\ list # << >> /\ q # Unset
<1>1. list \in Seq(Users) /\ Unset \notin Nat
  BY DEF Withdrawals!WithdrawalsAssumption
<1>2. PICK k \in Nat : k = Len(list)
  BY <1>1, LenProperties
<1>3. q \in 1..k
  BY <1>2 DEF Withdrawals!ValidApproverConfig
<1>4. q \in Nat /\ k # 0
  BY <1>3
<1>5. list # << >>
  BY <1>2, <1>4
<1> QED
  BY <1>1, <1>4, <1>5

\* A step that keeps requests, approvals and counts.
LEMMA KeepsRequests ==
  ASSUME WithdrawalInv, ValidSettings',
         UNCHANGED <<WithdrawalRequest, WithdrawalStatus, WithdrawalApproval,
                     WithdrawalApprovalCount>>,
         NextWithdrawalId' = NextWithdrawalId \/ NextWithdrawalId' = 0
  PROVE  WithdrawalInv'
<1>1. PICK n \in 0..MaxWithdrawals : Numbered(n)
  BY DEF WithdrawalInv
<1>2. NextWithdrawalId' \in 0..n
  BY <1>1 DEF Numbered
<1>3. Numbered(n)'
  BY <1>1, <1>2 DEF Numbered, Withdrawals!Ids
<1>4. CountsApprovers'
  BY DEF WithdrawalInv, CountsApprovers, Withdrawals!ApprovedBy
<1> QED
  BY <1>3, <1>4 DEF WithdrawalInv

LEMMA RequestKeepsCounts ==
  ASSUME Withdrawals!WithdrawalsAssumption, WithdrawalInv, NEW u \in Users,
         NEW a \in WithdrawalAmounts, Withdrawals!RequestWithdrawal(u, a)
  PROVE  WithdrawalInv'
<1>1. PICK n \in 0..MaxWithdrawals : Numbered(n)
  BY DEF WithdrawalInv
<1>2. PICK id : id = NextWithdrawalId + 1
  OBVIOUS
<1>3. PICK r : r = [requester |-> u, amount |-> a]
  OBVIOUS
<1>4. /\ id <= MaxWithdrawals /\ NextWithdrawalId' = id /\ a > 0
      /\ WithdrawalRequest' = Withdrawals!Put(WithdrawalRequest, id, r)
      /\ WithdrawalStatus' = Withdrawals!Put(WithdrawalStatus, id, "Pending")
      /\ UNCHANGED <<Withdrawals!settings, Withdrawals!approvals>>
  BY <1>2, <1>3 DEF Withdrawals!RequestWithdrawal
<1>5. r \in Withdrawals!RequestRecord
  <2>1. a \in Nat \ {0}
    BY <1>4 DEF Withdrawals!WithdrawalsAssumption
  <2> QED
    BY <1>3, <2>1 DEF Withdrawals!RequestRecord
<1>6. PICK m \in 0..MaxWithdrawals : m = IF id <= n THEN n ELSE id
  BY <1>1, <1>2, <1>4 DEF Numbered, Withdrawals!WithdrawalsAssumption
<1>7. 1..m = (1..n) \cup {id} /\ id \in 0..m /\ n \in 0..m
  BY <1>1, <1>2, <1>6 DEF Numbered
<1>8. /\ WithdrawalRequest \in [1..n -> Withdrawals!RequestRecord]
      /\ WithdrawalStatus \in [1..n -> {"Pending", "Executed"}]
  BY <1>1 DEF Numbered
<1>9. /\ WithdrawalRequest' \in [1..m -> Withdrawals!RequestRecord]
      /\ WithdrawalStatus' \in [1..m -> {"Pending", "Executed"}]
  BY <1>4, <1>5, <1>7, <1>8 DEF Withdrawals!Put
<1>10. WithdrawalApproval' \subseteq (1..m) \X Users
  BY <1>1, <1>4, <1>7 DEF Numbered, Withdrawals!approvals
<1>11. Numbered(m)'
  BY <1>4, <1>7, <1>9, <1>10 DEF Numbered, Withdrawals!Ids
<1>12. ValidSettings' /\ CountsApprovers'
  BY <1>4 DEF WithdrawalInv, ValidSettings, CountsApprovers, Withdrawals!settings,
              Withdrawals!approvals, Withdrawals!ApprovedBy
<1> QED
  BY <1>11, <1>12 DEF WithdrawalInv

\* An approval adds one address to those that approved under its number, and one to
\* the number's count.
LEMMA ApprovalCounts ==
  ASSUME Withdrawals!WithdrawalsAssumption, WithdrawalInv, NEW u \in Users,
         NEW id \in Withdrawals!Ids, Withdrawals!ApproveWithdrawal(u, id)
  PROVE  /\ CountsApprovers'
         /\ id \in 1..MaxWithdrawals
         /\ WithdrawalApprovalCount'[id] = WithdrawalApprovalCount[id] + 1
<1>1. PICK n \in 0..MaxWithdrawals : Numbered(n)
  BY DEF WithdrawalInv
<1>2. id \in 1..MaxWithdrawals
  BY <1>1 DEF Numbered, Withdrawals!WithdrawalsAssumption
<1>3. /\ WithdrawalApprovalCount \in [1..MaxWithdrawals -> Nat]
      /\ WithdrawalApprovalCount' = [WithdrawalApprovalCount EXCEPT
                                       ![id] = WithdrawalApprovalCount[id] + 1]
      /\ WithdrawalApproval' = WithdrawalApproval \cup {<<id, u>>}
      /\ <<id, u>> \notin WithdrawalApproval
  BY DEF WithdrawalInv, CountsApprovers, Withdrawals!ApproveWithdrawal, Withdrawals!NotApproved
<1>4. /\ WithdrawalApprovalCount' \in [1..MaxWithdrawals -> Nat]
      /\ WithdrawalApprovalCount'[id] = WithdrawalApprovalCount[id] + 1
      /\ \A k \in 1..MaxWithdrawals :
           k # id => WithdrawalApprovalCount'[k] = WithdrawalApprovalCount[k]
  BY <1>2, <1>3
<1>5. ASSUME NEW k \in 1..MaxWithdrawals
      PROVE  /\ IsFiniteSet(Withdrawals!ApprovedBy(k)')
             /\ WithdrawalApprovalCount'[k] = Cardinality(Withdrawals!ApprovedBy(k)')
  <2>1. /\ IsFiniteSet(Withdrawals!ApprovedBy(k))
        /\ WithdrawalApprovalCount[k] = Cardinality(Withdrawals!ApprovedBy(k))
    BY DEF WithdrawalInv, CountsApprovers
  <2>2. CASE k = id
    <3>1. /\ Withdrawals!ApprovedBy(k)' = Withdrawals!ApprovedBy(k) \cup {u}
          /\ u \notin Withdrawals!ApprovedBy(k)
      BY <1>3, <2>2 DEF Withdrawals!ApprovedBy
    <3>2. /\ IsFiniteSet(Withdrawals!ApprovedBy(k) \cup {u})
          /\ Cardinality(Withdrawals!ApprovedBy(k) \cup {u})
               = Cardinality(Withdrawals!ApprovedBy(k)) + 1
      BY <2>1, <3>1, FS_AddElement
    <3> QED
      BY <1>4, <2>1, <2>2, <3>1, <3>2
  <2>3. CASE k # id
    <3>1. Withdrawals!ApprovedBy(k)' = Withdrawals!ApprovedBy(k)
      BY <1>3, <2>3 DEF Withdrawals!ApprovedBy
    <3> QED
      BY <1>4, <2>1, <2>3, <3>1
  <2> QED
    BY <2>2, <2>3
<1> QED
  BY <1>2, <1>4, <1>5 DEF CountsApprovers

LEMMA ApprovalKeepsCounts ==
  ASSUME Withdrawals!WithdrawalsAssumption, WithdrawalInv, NEW u \in Users,
         NEW id \in Withdrawals!Ids, Withdrawals!ApproveWithdrawal(u, id)
  PROVE  WithdrawalInv'
<1>1. PICK n \in 0..MaxWithdrawals : Numbered(n)
  BY DEF WithdrawalInv
<1>2. /\ WithdrawalStatus \in [1..n -> {"Pending", "Executed"}]
      /\ \/ WithdrawalStatus' = [WithdrawalStatus EXCEPT ![id] = "Executed"]
         \/ WithdrawalStatus' = WithdrawalStatus
      /\ WithdrawalApproval' = WithdrawalApproval \cup {<<id, u>>}
      /\ UNCHANGED <<Approvers, Quorum, WithdrawalThreshold, NextWithdrawalId,
                     WithdrawalRequest>>
  BY <1>1 DEF Numbered, Withdrawals!ApproveWithdrawal, Withdrawals!settings
<1>3. WithdrawalStatus' \in [1..n -> {"Pending", "Executed"}]
  BY <1>2
<1>4. WithdrawalApproval' \subseteq (1..n) \X Users
  BY <1>1, <1>2 DEF Numbered
<1>5. Numbered(n)'
  BY <1>1, <1>2, <1>3, <1>4 DEF Numbered, Withdrawals!Ids
<1>6. ValidSettings'
  BY <1>2 DEF WithdrawalInv, ValidSettings
<1> QED
  BY <1>5, <1>6, ApprovalCounts DEF WithdrawalInv

LEMMA ExecutionKeepsCounts ==
  ASSUME WithdrawalInv, NEW id \in Withdrawals!Ids, Withdrawals!ExecuteWithdrawal(id)
  PROVE  WithdrawalInv'
<1>1. PICK n \in 0..MaxWithdrawals : Numbered(n)
  BY DEF WithdrawalInv
<1>2. /\ WithdrawalStatus \in [1..n -> {"Pending", "Executed"}]
      /\ WithdrawalStatus' = [WithdrawalStatus EXCEPT ![id] = "Executed"]
      /\ UNCHANGED <<Approvers, Quorum, WithdrawalThreshold, NextWithdrawalId,
                     WithdrawalRequest, WithdrawalApproval, WithdrawalApprovalCount>>
  BY <1>1 DEF Numbered, Withdrawals!ExecuteWithdrawal, Withdrawals!settings,
              Withdrawals!approvals
<1>3. WithdrawalStatus' \in [1..n -> {"Pending", "Executed"}]
  BY <1>2
<1>4. Numbered(n)'
  BY <1>1, <1>2, <1>3 DEF Numbered, Withdrawals!Ids
<1>5. ValidSettings' /\ CountsApprovers'
  BY <1>2 DEF WithdrawalInv, ValidSettings, CountsApprovers, Withdrawals!ApprovedBy
<1> QED
  BY <1>4, <1>5 DEF WithdrawalInv

LEMMA WithdrawalNext ==
  ASSUME Withdrawals!WithdrawalsAssumption, WithdrawalInv,
         [Withdrawals!Next]_(Withdrawals!vars)
  PROVE  WithdrawalInv'
<1>1. ASSUME NEW list \in ApproverLists, NEW q \in Quorums, NEW t \in WithdrawalThresholds,
             Withdrawals!InitializeWithdrawalConfig(list, q, t)
      PROVE  WithdrawalInv'
  <2>1. /\ Approvers' = list /\ Quorum' = q /\ WithdrawalThreshold' = t
        /\ Withdrawals!ValidApproverConfig(list, q) /\ t \in Nat
    BY <1>1 DEF Withdrawals!InitializeWithdrawalConfig, Withdrawals!WithdrawalsAssumption
  <2>2. ValidSettings'
    BY <2>1, AcceptedConfig DEF ValidSettings, Withdrawals!ValidApproverConfig
  <2> QED
    BY <1>1, <2>2, KeepsRequests DEF Withdrawals!InitializeWithdrawalConfig,
                                     Withdrawals!approvals
<1>2. ASSUME NEW t \in WithdrawalThresholds, Withdrawals!SetWithdrawalThreshold(t)
      PROVE  WithdrawalInv'
  <2>1. /\ WithdrawalThreshold' = t /\ t \in Nat
        /\ UNCHANGED <<Approvers, Quorum, Withdrawals!requests, Withdrawals!approvals>>
    BY <1>2 DEF Withdrawals!SetWithdrawalThreshold, Withdrawals!WithdrawalsAssumption
  <2>2. ValidSettings'
    BY <2>1 DEF WithdrawalInv, ValidSettings, Withdrawals!ValidApproverConfig
  <2> QED
    BY <2>1, <2>2, KeepsRequests DEF Withdrawals!requests, Withdrawals!approvals
<1>3. ASSUME NEW list \in ApproverLists, NEW q \in Quorums,
             Withdrawals!SetWithdrawalApprovers(list, q)
      PROVE  WithdrawalInv'
  <2>1. /\ Approvers' = list /\ Quorum' = q /\ Withdrawals!ValidApproverConfig(list, q)
        /\ UNCHANGED <<WithdrawalThreshold, Withdrawals!requests, Withdrawals!approvals>>
    BY <1>3 DEF Withdrawals!SetWithdrawalApprovers
  <2>2. ValidSettings'
    BY <2>1, AcceptedConfig DEF WithdrawalInv, ValidSettings, Withdrawals!ValidApproverConfig
  <2> QED
    BY <2>1, <2>2, KeepsRequests DEF Withdrawals!requests, Withdrawals!approvals
<1>4. CASE \E u \in Users, a \in WithdrawalAmounts : Withdrawals!RequestWithdrawal(u, a)
  BY <1>4, RequestKeepsCounts
<1>5. CASE \E u \in Users, id \in Withdrawals!Ids : Withdrawals!ApproveWithdrawal(u, id)
  BY <1>5, ApprovalKeepsCounts
<1>6. CASE \E id \in Withdrawals!Ids : Withdrawals!ExecuteWithdrawal(id)
  BY <1>6, ExecutionKeepsCounts
<1>7. CASE UNCHANGED Withdrawals!vars
  <2>1. ValidSettings'
    BY <1>7 DEF Withdrawals!vars, Withdrawals!settings, WithdrawalInv, ValidSettings
  <2> QED
    BY <1>7, <2>1, KeepsRequests DEF Withdrawals!vars, Withdrawals!requests,
                                     Withdrawals!approvals
<1> QED
  BY <1>1, <1>2, <1>3, <1>4, <1>5, <1>6, <1>7 DEF Withdrawals!Next

\* What a step may do to a waiting withdrawal.
ExecutedByQuorum ==
  \A id \in Withdrawals!Ids :
    WithdrawalStatus[id] = "Pending" /\ WithdrawalStatus'[id] = "Executed"
      => Withdrawals!Cardinality(Withdrawals!ApprovedBy(id)') >= Quorum

LEMMA OnlyQuorumExecutes ==
  ASSUME Withdrawals!WithdrawalsAssumption, WithdrawalInv,
         [Withdrawals!Next]_(Withdrawals!vars)
  PROVE  ExecutedByQuorum
<1>1. SUFFICES ASSUME NEW id \in Withdrawals!Ids,
                      WithdrawalStatus[id] = "Pending", WithdrawalStatus'[id] = "Executed"
               PROVE  Cardinality(Withdrawals!ApprovedBy(id)') >= Quorum
  BY SameWithdrawalCardinality DEF ExecutedByQuorum
<1>2. PICK n \in 0..MaxWithdrawals : Numbered(n)
  BY DEF WithdrawalInv
<1>3. /\ WithdrawalStatus \in [1..n -> {"Pending", "Executed"}] /\ id \in 1..n
      /\ id \in 1..MaxWithdrawals
  BY <1>2 DEF Numbered, Withdrawals!WithdrawalsAssumption
<1>4. WithdrawalApprovalCount'[id] = Cardinality(Withdrawals!ApprovedBy(id)')
  BY <1>3, WithdrawalNext DEF WithdrawalInv, CountsApprovers
<1>5. WithdrawalStatus' # WithdrawalStatus
  BY <1>1
<1>6. ~ \E u \in Users, a \in WithdrawalAmounts : Withdrawals!RequestWithdrawal(u, a)
  <2>1. ASSUME NEW u \in Users, NEW a \in WithdrawalAmounts, Withdrawals!RequestWithdrawal(u, a)
        PROVE  WithdrawalStatus'[id] # "Executed"
    <3>1. WithdrawalStatus' = Withdrawals!Put(WithdrawalStatus, NextWithdrawalId + 1, "Pending")
      BY <2>1 DEF Withdrawals!RequestWithdrawal
    <3>2. id \in DOMAIN WithdrawalStatus
      BY <1>3
    <3> QED
      BY <1>1, <3>1, <3>2 DEF Withdrawals!Put
  <2> QED
    BY <1>1, <2>1
<1>7. CASE \E u \in Users, k \in Withdrawals!Ids : Withdrawals!ApproveWithdrawal(u, k)
  <2>1. PICK u \in Users, k \in Withdrawals!Ids : Withdrawals!ApproveWithdrawal(u, k)
    BY <1>7
  <2>2. /\ k = id
        /\ Withdrawals!Reaches(WithdrawalApprovalCount[k] + 1)
    BY <1>1, <1>3, <2>1 DEF Withdrawals!ApproveWithdrawal
  <2>3. WithdrawalApprovalCount'[k] = WithdrawalApprovalCount[k] + 1
    BY <2>1, ApprovalCounts
  <2> QED
    BY <1>4, <2>2, <2>3 DEF Withdrawals!Reaches
<1>8. CASE \E k \in Withdrawals!Ids : Withdrawals!ExecuteWithdrawal(k)
  <2>1. PICK k \in Withdrawals!Ids : Withdrawals!ExecuteWithdrawal(k)
    BY <1>8
  <2>2. k = id /\ WithdrawalApprovalCount' = WithdrawalApprovalCount
    BY <1>1, <1>3, <2>1 DEF Withdrawals!ExecuteWithdrawal, Withdrawals!approvals
  <2>3. WithdrawalApprovalCount[k] >= Quorum
    BY <2>1 DEF Withdrawals!ExecuteWithdrawal, Withdrawals!Reaches
  <2> QED
    BY <1>4, <2>2, <2>3
<1>9. CASE \/ \E list \in ApproverLists, q \in Quorums, t \in WithdrawalThresholds :
                Withdrawals!InitializeWithdrawalConfig(list, q, t)
           \/ \E t \in WithdrawalThresholds : Withdrawals!SetWithdrawalThreshold(t)
           \/ \E list \in ApproverLists, q \in Quorums : Withdrawals!SetWithdrawalApprovers(list, q)
           \/ UNCHANGED Withdrawals!vars
  BY <1>5, <1>9 DEF Withdrawals!InitializeWithdrawalConfig, Withdrawals!SetWithdrawalThreshold,
                    Withdrawals!SetWithdrawalApprovers, Withdrawals!requests, Withdrawals!vars
<1> QED
  BY <1>6, <1>7, <1>8, <1>9 DEF Withdrawals!Next

\* Whoever the approvers become and however often the numbers start again, the count of a
\* number is the number of different addresses that approved under it, and no withdrawal is
\* executed by fewer than the quorum of the moment.
THEOREM QuorumsAreKept ==
  ASSUME Withdrawals!WithdrawalsAssumption
  PROVE  Withdrawals!Spec => []Withdrawals!TypeOK /\ Withdrawals!QuorumOfDifferentApprovers
<1>1. Withdrawals!Init => WithdrawalInv
  BY WithdrawalInit
<1>2. WithdrawalInv /\ [Withdrawals!Next]_(Withdrawals!vars)
        => WithdrawalInv' /\ [ExecutedByQuorum]_(Withdrawals!vars)
  BY WithdrawalNext, OnlyQuorumExecutes
<1>3. WithdrawalInv => /\ Withdrawals!TypeOK
                       /\ \A id \in Withdrawals!Ids :
                            WithdrawalApprovalCount[id]
                              = Withdrawals!Cardinality(Withdrawals!ApprovedBy(id))
  BY WithdrawalInvIsSafe
<1> QED
  BY <1>1, <1>2, <1>3, PTL
  DEF Withdrawals!Spec, Withdrawals!QuorumOfDifferentApprovers, ExecutedByQuorum

------------------------------------------------------------------------------
\* Recurring payments and income streams.

LEMMA DivisionFacts ==
  ASSUME NEW x \in Nat, NEW d \in Nat \ {0}
  PROVE  /\ x \div d \in Nat /\ x % d \in 0..(d - 1)
         /\ x = d * (x \div d) + (x % d)
OBVIOUS

LEMMA MultiplesHaveNoRest ==
  ASSUME NEW k \in Nat, NEW d \in Nat \ {0}
  PROVE  (k * d) % d = 0
OBVIOUS

\* The first of the instants n, n + d, ... that lies in the future is found by rounding down.
LEMMA FirstInFuture ==
  ASSUME NEW n \in Nat, NEW d \in Nat \ {0}, NEW now \in Nat, n <= now,
         NEW to, to = n + ((now - n) \div d + 1) * d
  PROVE  /\ now < to /\ to <= now + d /\ to \in Nat
         /\ (to - n) % d = 0 /\ (to - (n - d)) % d = 0
<1>1. PICK x \in Nat : x = now - n
  OBVIOUS
<1>2. PICK q \in Nat : q = x \div d
  BY DivisionFacts
<1>3. PICK r \in 0..(d - 1) : x = d * q + r
  BY <1>2, DivisionFacts
<1>4. (q + 1) * d = d * q + d
  OBVIOUS
<1>5. to = n + (q + 1) * d
  BY <1>1, <1>2
<1>6. now < to /\ to <= now + d /\ to \in Nat
  BY <1>1, <1>3, <1>4, <1>5
<1>7. PICK k \in Nat, m \in Nat : k = q + 1 /\ m = q + 2
  OBVIOUS
<1>8. k * d = d * q + d /\ m * d = d * q + 2 * d
  BY <1>7
<1>9. to - n = k * d /\ to - (n - d) = m * d
  BY <1>4, <1>5, <1>8
<1> QED
  BY <1>6, <1>9, MultiplesHaveNoRest

\* The next instant is one interval on, or the first in the future if that has passed.
LEMMA AdvancedIsNext ==
  ASSUME timestamp \in Nat, NEW from \in Nat, NEW d \in Nat \ {0}, from <= timestamp
  PROVE  /\ Recurring!NextInstant(from, Recurring!Advanced(from, d), d)
         /\ Recurring!Advanced(from, d) \in Nat
<1>1. PICK n \in Nat : n = from + d
  OBVIOUS
<1>2. CASE n <= timestamp
  <2>1. PICK to : to = n + ((timestamp - n) \div d + 1) * d
    OBVIOUS
  <2>2. timestamp < to /\ to <= timestamp + d /\ to \in Nat /\ (to - (n - d)) % d = 0
    <3>1. PICK now \in Nat : now = timestamp
      OBVIOUS
    <3>2. n <= now
      BY <1>2, <3>1
    <3>3. to = n + ((now - n) \div d + 1) * d
      BY <2>1, <3>1
    <3>4. now < to /\ to <= now + d /\ to \in Nat
      BY <3>2, <3>3, FirstInFuture
    <3>5. (to - (n - d)) % d = 0
      BY <3>2, <3>3, FirstInFuture
    <3> QED
      BY <3>1, <3>4, <3>5
  <2>3. from = n - d
    BY <1>1
  <2>4. Recurring!Advanced(from, d) = to
    BY <1>1, <1>2, <2>1 DEF Recurring!Advanced
  <2> QED
    BY <2>2, <2>3, <2>4 DEF Recurring!NextInstant
<1>3. CASE ~ (n <= timestamp)
  <2>1. Recurring!Advanced(from, d) = n
    BY <1>1, <1>3 DEF Recurring!Advanced
  <2>2. n - from = 1 * d /\ timestamp < n /\ n <= timestamp + d
    BY <1>1, <1>3
  <2>3. (n - from) % d = 0
    BY <2>2, MultiplesHaveNoRest
  <2> QED
    BY <2>1, <2>2, <2>3 DEF Recurring!NextInstant
<1> QED
  BY <1>2, <1>3

\* What the schedules need of the state.
RecurringInv == /\ recurPayment \in Seq(Recurring!PaymentRecord)
                /\ IncomeStream \in Seq(Recurring!StreamRecord)
                /\ recurWallet \in [Users -> Nat]
                /\ timestamp \in Nat

\* A run uses up one instant and pays once; a stream's payout moves to the first
\* instant in the future.
OnInstants ==
  /\ \A i \in DOMAIN recurPayment :
       /\ Recurring!RunsOnce(recurPayment[i], recurPayment'[i])
       /\ recurPayment'[i].execution_count # recurPayment[i].execution_count =>
            Recurring!Pays(recurPayment[i])
  /\ recurWallet' # recurWallet =>
       \E i \in DOMAIN recurPayment :
         recurPayment'[i].execution_count # recurPayment[i].execution_count
  /\ \A i \in DOMAIN IncomeStream :
       IncomeStream'[i].next_payout # IncomeStream[i].next_payout =>
         Recurring!NextInstant(IncomeStream[i].next_payout, IncomeStream'[i].next_payout,
                               IncomeStream[i].interval)

\* A record that is rewritten keeps the sequence's type, and the others stay.
LEMMA Rewritten ==
  ASSUME NEW R, NEW s \in Seq(R), NEW i \in DOMAIN s, NEW r \in R, NEW t, t = [s EXCEPT ![i] = r]
  PROVE  /\ t \in Seq(R) /\ DOMAIN t = DOMAIN s /\ t[i] = r
         /\ \A k \in DOMAIN s : k # i => t[k] = s[k]
OBVIOUS

LEMMA Appended ==
  ASSUME NEW R, NEW s \in Seq(R), NEW r \in R, NEW t, t = Append(s, r)
  PROVE  t \in Seq(R) /\ \A k \in DOMAIN s : t[k] = s[k]
OBVIOUS

\* A payment that is left alone is not run.
LEMMA LeftAlone ==
  ASSUME NEW p, NEW q, q.next_execution = p.next_execution,
         q.execution_count = p.execution_count, q.missed_count = p.missed_count
  PROVE  Recurring!RunsOnce(p, q)
BY DEF Recurring!RunsOnce

LEMMA AllLeftAlone ==
  ASSUME recurPayment' = recurPayment
  PROVE  \A i \in DOMAIN recurPayment : Recurring!RunsOnce(recurPayment[i], recurPayment'[i])
BY LeftAlone

\* A run advances one payment: it is missed and moves nothing, or it pays.
LEMMA RunAdvances ==
  ASSUME RecurringInv, NEW i \in DOMAIN recurPayment, NEW r \in Recurring!PaymentRecord,
         Recurring!Due(recurPayment[i]), recurPayment' = [recurPayment EXCEPT ![i] = r],
         r.next_execution = Recurring!Advanced(recurPayment[i].next_execution,
                                               recurPayment[i].interval),
         \/ /\ r.execution_count = recurPayment[i].execution_count
            /\ r.missed_count = recurPayment[i].missed_count + 1
            /\ recurWallet' = recurWallet
         \/ /\ r.execution_count = recurPayment[i].execution_count + 1
            /\ r.missed_count = 0
            /\ Recurring!Pays(recurPayment[i]),
         IncomeStream' = IncomeStream, timestamp' = timestamp, recurWallet' \in [Users -> Nat]
  PROVE  RecurringInv' /\ OnInstants
<1>1. /\ recurPayment' \in Seq(Recurring!PaymentRecord) /\ recurPayment'[i] = r
      /\ \A k \in DOMAIN recurPayment : k # i => recurPayment'[k] = recurPayment[k]
  BY Rewritten DEF RecurringInv
<1>2. recurPayment[i] \in Recurring!PaymentRecord
  BY DEF RecurringInv
<1>3. /\ recurPayment[i].next_execution \in Nat /\ recurPayment[i].interval \in Nat \ {0}
      /\ recurPayment[i].next_execution <= timestamp
      /\ recurPayment[i].execution_count \in Nat
  BY <1>2 DEF Recurring!PaymentRecord, Recurring!Due, RecurringInv
<1>4. Recurring!NextInstant(recurPayment[i].next_execution, r.next_execution,
                            recurPayment[i].interval)
  BY <1>3, AdvancedIsNext DEF RecurringInv
<1>5. Recurring!RunsOnce(recurPayment[i], recurPayment'[i])
  BY <1>1, <1>4 DEF Recurring!RunsOnce
<1>6. recurPayment'[i].execution_count # recurPayment[i].execution_count =>
        Recurring!Pays(recurPayment[i])
  BY <1>1
<1>7. recurWallet' # recurWallet =>
        recurPayment'[i].execution_count # recurPayment[i].execution_count
  BY <1>1, <1>3
<1>8. \A k \in DOMAIN recurPayment : k # i => Recurring!RunsOnce(recurPayment[k], recurPayment'[k])
  BY <1>1, LeftAlone
<1> QED
  BY <1>1, <1>5, <1>6, <1>7, <1>8 DEF RecurringInv, OnInstants

\* A change of one payment that leaves its next instant and its counts.
LEMMA ChangeKeepsInstants ==
  ASSUME RecurringInv, NEW i \in DOMAIN recurPayment, NEW r \in Recurring!PaymentRecord,
         recurPayment' = [recurPayment EXCEPT ![i] = r],
         r.next_execution = recurPayment[i].next_execution,
         r.execution_count = recurPayment[i].execution_count,
         r.missed_count = recurPayment[i].missed_count,
         UNCHANGED <<IncomeStream, recurWallet, timestamp>>
  PROVE  RecurringInv' /\ OnInstants
<1>1. /\ recurPayment' \in Seq(Recurring!PaymentRecord) /\ recurPayment'[i] = r
      /\ \A k \in DOMAIN recurPayment : k # i => recurPayment'[k] = recurPayment[k]
  BY Rewritten DEF RecurringInv
<1>2. \A k \in DOMAIN recurPayment :
        /\ Recurring!RunsOnce(recurPayment[k], recurPayment'[k])
        /\ recurPayment'[k].execution_count = recurPayment[k].execution_count
  BY <1>1, LeftAlone
<1> QED
  BY <1>1, <1>2 DEF RecurringInv, OnInstants

LEMMA MissKeepsInstants ==
  ASSUME RecurringInv, NEW i \in DOMAIN recurPayment, Recurring!MissPayment(i)
  PROVE  RecurringInv' /\ OnInstants
<1>1. PICK p \in Recurring!PaymentRecord : p = recurPayment[i]
  BY DEF RecurringInv
<1>2. PICK to : to = Recurring!Advanced(p.next_execution, p.interval)
  OBVIOUS
<1>3. PICK r : r = [p EXCEPT !.missed_count = @ + 1, !.last_missed_at = timestamp,
                             !.next_execution = to]
  OBVIOUS
<1>4. /\ Recurring!Due(p) /\ recurPayment' = [recurPayment EXCEPT ![i] = r]
      /\ IncomeStream' = IncomeStream /\ recurWallet' = recurWallet /\ timestamp' = timestamp
  BY <1>1, <1>2, <1>3 DEF Recurring!MissPayment
<1>5. to \in Nat
  BY <1>2, <1>4, AdvancedIsNext DEF Recurring!PaymentRecord, Recurring!Due, RecurringInv
<1>6. /\ r \in Recurring!PaymentRecord /\ r.next_execution = to
      /\ r.execution_count = p.execution_count /\ r.missed_count = p.missed_count + 1
  <2>1. PICK c \in Nat : c = p.missed_count + 1
    BY DEF Recurring!PaymentRecord
  <2>2. PICK r1 : r1 = [p EXCEPT !.missed_count = c]
    OBVIOUS
  <2>3. PICK r2 : r2 = [r1 EXCEPT !.last_missed_at = timestamp]
    OBVIOUS
  <2>4. r1 \in Recurring!PaymentRecord
    BY <2>2 DEF Recurring!PaymentRecord
  <2>5. r2 \in Recurring!PaymentRecord
    BY <2>3, <2>4 DEF Recurring!PaymentRecord, RecurringInv
  <2>6. r = [r2 EXCEPT !.next_execution = to]
    BY <1>3, <2>1, <2>2, <2>3 DEF Recurring!PaymentRecord
  <2>7. r1.execution_count = p.execution_count /\ r1.missed_count = c
    BY <2>2 DEF Recurring!PaymentRecord
  <2>8. r2.execution_count = r1.execution_count /\ r2.missed_count = r1.missed_count
    BY <2>3, <2>4 DEF Recurring!PaymentRecord
  <2>9. /\ r \in Recurring!PaymentRecord /\ r.next_execution = to
        /\ r.execution_count = r2.execution_count /\ r.missed_count = r2.missed_count
    BY <1>5, <2>5, <2>6 DEF Recurring!PaymentRecord
  <2> QED
    BY <2>1, <2>7, <2>8, <2>9
<1> QED
  BY <1>1, <1>2, <1>4, <1>6, RunAdvances DEF RecurringInv

LEMMA ExecutionKeepsInstants ==
  ASSUME RecurringInv, NEW i \in DOMAIN recurPayment, Recurring!ExecutePayment(i)
  PROVE  RecurringInv' /\ OnInstants
<1>1. PICK p \in Recurring!PaymentRecord : p = recurPayment[i]
  BY DEF RecurringInv
<1>2. PICK to : to = Recurring!Advanced(p.next_execution, p.interval)
  OBVIOUS
<1>3. PICK r : r = [p EXCEPT !.missed_count = 0, !.last_missed_at = 0,
                             !.execution_count = @ + 1, !.next_execution = to]
  OBVIOUS
<1>4. /\ Recurring!Due(p) /\ recurPayment' = [recurPayment EXCEPT ![i] = r]
      /\ IncomeStream' = IncomeStream /\ timestamp' = timestamp
      /\ recurWallet[p.sender] >= p.amount
      /\ \/ p.sender = p.recipient /\ recurWallet' = recurWallet
         \/ /\ p.sender # p.recipient
            /\ recurWallet' = [recurWallet EXCEPT ![p.sender] = @ - p.amount,
                                                  ![p.recipient] = @ + p.amount]
  BY <1>1, <1>2, <1>3 DEF Recurring!ExecutePayment
<1>5. to \in Nat
  BY <1>2, <1>4, AdvancedIsNext DEF Recurring!PaymentRecord, Recurring!Due, RecurringInv
<1>6. /\ r \in Recurring!PaymentRecord /\ r.next_execution = to
      /\ r.execution_count = p.execution_count + 1 /\ r.missed_count = 0
  <2>1. PICK c \in Nat : c = p.execution_count + 1
    BY DEF Recurring!PaymentRecord
  <2>2. PICK r1 : r1 = [p EXCEPT !.missed_count = 0, !.last_missed_at = 0]
    OBVIOUS
  <2>3. PICK r2 : r2 = [r1 EXCEPT !.execution_count = c]
    OBVIOUS
  <2>4. r1 \in Recurring!PaymentRecord /\ r1.execution_count = p.execution_count /\ r1.missed_count = 0
    BY <2>2 DEF Recurring!PaymentRecord
  <2>5. r2 \in Recurring!PaymentRecord
    BY <2>3, <2>4 DEF Recurring!PaymentRecord
  <2>6. r = [r2 EXCEPT !.next_execution = to]
    BY <1>3, <2>1, <2>2, <2>3 DEF Recurring!PaymentRecord
  <2> QED
    BY <1>5, <2>1, <2>3, <2>4, <2>5, <2>6 DEF Recurring!PaymentRecord
<1>7. recurWallet' \in [Users -> Nat] /\ Recurring!Pays(p)
  <2>1. PICK n \in Nat : n = p.amount
    BY DEF Recurring!PaymentRecord
  <2>2. /\ recurWallet \in [Users -> Nat] /\ p.sender \in Users /\ p.recipient \in Users
    BY DEF Recurring!PaymentRecord, RecurringInv
  <2>3. recurWallet[p.sender] - n \in Nat /\ recurWallet[p.recipient] + n \in Nat
    BY <1>4, <2>1, <2>2
  <2>4. recurWallet' \in [Users -> Nat]
    BY <1>4, <2>1, <2>2, <2>3
  <2>5. ASSUME NEW u \in Users
        PROVE  recurWallet'[u] = recurWallet[u] + (IF u = p.recipient THEN p.amount ELSE 0)
                                                - (IF u = p.sender THEN p.amount ELSE 0)
    BY <1>4, <2>1, <2>2, <2>3
  <2> QED
    BY <2>4, <2>5 DEF Recurring!Pays
<1> QED
  BY <1>1, <1>2, <1>4, <1>6, <1>7, RunAdvances DEF RecurringInv

\* Cancelling, pausing and resuming.
LEMMA SwitchKeepsInstants ==
  ASSUME RecurringInv, NEW i \in DOMAIN recurPayment,
         \/ Recurring!CancelPayment(i) \/ Recurring!PausePayment(i)
         \/ Recurring!ResumePayment(i)
  PROVE  RecurringInv' /\ OnInstants
<1>1. PICK p \in Recurring!PaymentRecord : p = recurPayment[i]
  BY DEF RecurringInv
<1>2. PICK r : /\ r \in {[p EXCEPT !.active = FALSE], [p EXCEPT !.paused = TRUE],
                         [p EXCEPT !.paused = FALSE]}
               /\ recurPayment' = [recurPayment EXCEPT ![i] = r]
  BY <1>1 DEF Recurring!CancelPayment, Recurring!PausePayment, Recurring!ResumePayment
<1>3. /\ r \in Recurring!PaymentRecord /\ r.next_execution = p.next_execution
      /\ r.execution_count = p.execution_count /\ r.missed_count = p.missed_count
  BY <1>2 DEF Recurring!PaymentRecord
<1>4. UNCHANGED <<IncomeStream, recurWallet, timestamp>>
  BY DEF Recurring!CancelPayment, Recurring!PausePayment, Recurring!ResumePayment
<1> QED
  BY <1>1, <1>2, <1>3, <1>4, ChangeKeepsInstants

LEMMA CreationKeepsInstants ==
  ASSUME Recurring!RecurringAssumption, RecurringInv, NEW o \in PaymentOffers,
         Recurring!CreatePayment(o)
  PROVE  RecurringInv' /\ OnInstants
<1>1. PICK r : r = [sender |-> o.sender, recipient |-> o.recipient, amount |-> o.amount,
                    interval |-> o.interval, next_execution |-> o.start, active |-> TRUE,
                    paused |-> FALSE, execution_count |-> 0, missed_count |-> 0,
                    last_missed_at |-> 0]
  OBVIOUS
<1>2. /\ recurPayment' = Append(recurPayment, r) /\ o.amount > 0 /\ o.interval > 0
      /\ IncomeStream' = IncomeStream /\ recurWallet' = recurWallet /\ timestamp' = timestamp
  BY <1>1 DEF Recurring!CreatePayment
<1>3. /\ o.sender \in Users /\ o.recipient \in Users /\ o.amount \in Nat \ {0}
      /\ o.interval \in Nat \ {0} /\ o.start \in Nat
  BY <1>2 DEF Recurring!RecurringAssumption
<1>4. r \in Recurring!PaymentRecord
  BY <1>1, <1>3 DEF Recurring!PaymentRecord
<1>5. /\ recurPayment' \in Seq(Recurring!PaymentRecord)
      /\ \A k \in DOMAIN recurPayment : recurPayment'[k] = recurPayment[k]
  BY <1>2, <1>4, Appended DEF RecurringInv
<1>6. \A k \in DOMAIN recurPayment : Recurring!RunsOnce(recurPayment[k], recurPayment'[k])
  BY <1>5, LeftAlone
<1> QED
  BY <1>2, <1>5, <1>6 DEF RecurringInv, OnInstants

LEMMA StreamCreationKeepsInstants ==
  ASSUME Recurring!RecurringAssumption, RecurringInv, NEW o \in StreamOffers,
         Recurring!CreateIncomeStream(o)
  PROVE  RecurringInv' /\ OnInstants
<1>1. PICK r : r = [recipient |-> o.recipient, amount |-> o.amount, interval |-> o.interval,
                    active |-> TRUE, next_payout |-> timestamp + o.interval]
  OBVIOUS
<1>2. /\ IncomeStream' = Append(IncomeStream, r) /\ o.amount > 0 /\ o.interval > 0
      /\ recurPayment' = recurPayment /\ recurWallet' = recurWallet /\ timestamp' = timestamp
  BY <1>1 DEF Recurring!CreateIncomeStream
<1>3. /\ o.recipient \in Users /\ o.amount \in Nat \ {0} /\ o.interval \in Nat \ {0}
  BY <1>2 DEF Recurring!RecurringAssumption
<1>4. r \in Recurring!StreamRecord
  BY <1>1, <1>3 DEF Recurring!StreamRecord, RecurringInv
<1>5. /\ IncomeStream' \in Seq(Recurring!StreamRecord)
      /\ \A k \in DOMAIN IncomeStream : IncomeStream'[k] = IncomeStream[k]
  BY <1>2, <1>4, Appended DEF RecurringInv
<1> QED
  BY <1>2, <1>5, AllLeftAlone DEF RecurringInv, OnInstants

LEMMA StreamsKeepInstants ==
  ASSUME RecurringInv, NEW i \in DOMAIN IncomeStream,
         Recurring!ProcessIncome(i) \/ Recurring!CancelIncomeStream(i)
  PROVE  RecurringInv' /\ OnInstants
<1>1. PICK s \in Recurring!StreamRecord : s = IncomeStream[i]
  BY DEF RecurringInv
<1>2. PICK from \in Nat, d \in Nat \ {0}, now \in Nat :
        from = s.next_payout /\ d = s.interval /\ now = timestamp
  BY DEF Recurring!StreamRecord, RecurringInv
<1>3. \E r : /\ IncomeStream' = [IncomeStream EXCEPT ![i] = r] /\ r \in Recurring!StreamRecord
             /\ r.next_payout # from => Recurring!NextInstant(from, r.next_payout, d)
  <2>1. CASE Recurring!ProcessIncome(i)
    <3>1. PICK to : to = from + ((now - from) \div d + 1) * d
      OBVIOUS
    <3>2. from <= now
      BY <1>1, <1>2, <2>1 DEF Recurring!ProcessIncome
    <3>3. now < to /\ to <= now + d /\ (to - from) % d = 0 /\ to \in Nat
      BY <3>1, <3>2, FirstInFuture
    <3>4. from + Recurring!CyclesDue(s) * d = to
      <4>1. PICK q \in Nat : q = (now - from) \div d
        <5>1. now - from \in Nat
          BY <3>2
        <5> QED
          BY <5>1, DivisionFacts
      <4>2. Recurring!CyclesDue(s) = q + 1
        BY <1>2, <4>1 DEF Recurring!CyclesDue
      <4> QED
        BY <3>1, <4>1, <4>2
    <3>5. PICK r : r = [s EXCEPT !.next_payout = to]
      OBVIOUS
    <3>6. IncomeStream' = [IncomeStream EXCEPT ![i].next_payout =
                             IF to <= now THEN now + d ELSE to]
      BY <1>1, <1>2, <2>1, <3>4 DEF Recurring!ProcessIncome
    <3>7. IncomeStream' = [IncomeStream EXCEPT ![i] = r]
      <4>1. ~ (to <= now)
        BY <3>3
      <4>2. IncomeStream' = [IncomeStream EXCEPT ![i].next_payout = to]
        BY <3>6, <4>1
      <4> QED
        BY <1>1, <3>5, <4>2
    <3>8. r \in Recurring!StreamRecord /\ r.next_payout = to
      BY <3>3, <3>5 DEF Recurring!StreamRecord
    <3> QED
      BY <1>2, <3>2, <3>3, <3>7, <3>8 DEF Recurring!NextInstant
  <2>2. CASE Recurring!CancelIncomeStream(i)
    <3>1. PICK r : r = [s EXCEPT !.active = FALSE]
      OBVIOUS
    <3>2. r \in Recurring!StreamRecord /\ r.next_payout = from
      BY <1>2, <3>1 DEF Recurring!StreamRecord
    <3>3. IncomeStream' = [IncomeStream EXCEPT ![i] = r]
      BY <1>1, <2>2, <3>1 DEF Recurring!CancelIncomeStream
    <3> QED
      BY <3>2, <3>3
  <2> QED
    BY <2>1, <2>2
<1>4. PICK r \in Recurring!StreamRecord :
        /\ IncomeStream' = [IncomeStream EXCEPT ![i] = r]
        /\ r.next_payout # from => Recurring!NextInstant(from, r.next_payout, d)
  BY <1>3
<1>5. /\ IncomeStream' \in Seq(Recurring!StreamRecord) /\ IncomeStream'[i] = r
      /\ \A k \in DOMAIN IncomeStream : k # i => IncomeStream'[k] = IncomeStream[k]
  BY <1>4, Rewritten DEF RecurringInv
<1>6. UNCHANGED <<recurPayment, recurWallet, timestamp>>
  BY DEF Recurring!ProcessIncome, Recurring!CancelIncomeStream
<1>7. RecurringInv'
  BY <1>5, <1>6 DEF RecurringInv
<1>8. OnInstants
  BY <1>1, <1>2, <1>4, <1>5, <1>6, AllLeftAlone DEF OnInstants
<1> QED
  BY <1>7, <1>8

LEMMA RecurringNext ==
  ASSUME Recurring!RecurringAssumption, RecurringInv, [Recurring!Next]_(Recurring!vars)
  PROVE  RecurringInv' /\ OnInstants
<1>1. CASE \E o \in PaymentOffers : Recurring!CreatePayment(o)
  BY <1>1, CreationKeepsInstants
<1>2. CASE \E i \in DOMAIN recurPayment : Recurring!MissPayment(i) \/ Recurring!ExecutePayment(i)
  BY <1>2, MissKeepsInstants, ExecutionKeepsInstants
<1>3. CASE \E i \in DOMAIN recurPayment :
             \/ Recurring!CancelPayment(i) \/ Recurring!PausePayment(i)
             \/ Recurring!ResumePayment(i)
  BY <1>3, SwitchKeepsInstants
<1>4. CASE \E o \in StreamOffers : Recurring!CreateIncomeStream(o)
  BY <1>4, StreamCreationKeepsInstants
<1>5. CASE \E i \in DOMAIN IncomeStream :
             Recurring!ProcessIncome(i) \/ Recurring!CancelIncomeStream(i)
  BY <1>5, StreamsKeepInstants
<1>6. CASE Recurring!CloseLedger \/ UNCHANGED Recurring!vars
  <2>1. UNCHANGED <<recurPayment, IncomeStream, recurWallet>>
    BY <1>6 DEF Recurring!CloseLedger, Recurring!vars
  <2>2. timestamp' \in Nat
    BY <1>6 DEF Recurring!CloseLedger, Recurring!vars, RecurringInv
  <2> QED
    BY <2>1, <2>2, AllLeftAlone DEF RecurringInv, OnInstants
<1> QED
  BY <1>1, <1>2, <1>3, <1>4, <1>5, <1>6 DEF Recurring!Next

\* The streams on the list of a recipient, in the order of their creation.
StreamsListed ==
  /\ UserIncomeStreams \in [Users -> Seq(Nat)]
  /\ \A u \in Users :
       /\ {UserIncomeStreams[u][k] : k \in DOMAIN UserIncomeStreams[u]}
            = {i \in DOMAIN IncomeStream : IncomeStream[i].recipient = u}
       /\ \A j, k \in DOMAIN UserIncomeStreams[u] :
            j < k => UserIncomeStreams[u][j] < UserIncomeStreams[u][k]

LEMMA RecurringTypes == ASSUME RecurringInv, StreamsListed PROVE Recurring!TypeOK
BY DEF RecurringInv, StreamsListed, Recurring!TypeOK

LEMMA StreamCreationKeepsLists ==
  ASSUME Recurring!RecurringAssumption, RecurringInv, StreamsListed, NEW o \in StreamOffers,
         Recurring!CreateIncomeStream(o)
  PROVE  StreamsListed'
<1>1. PICK w \in Users : w = o.recipient
  BY DEF Recurring!RecurringAssumption
<1>2. PICK s \in Seq(Recurring!StreamRecord), l \in Seq(Nat) :
        s = IncomeStream /\ l = UserIncomeStreams[w]
  BY DEF RecurringInv, StreamsListed
<1>3. PICK n \in Nat : n = Len(s) + 1
  BY <1>2
<1>4. PICK r : r = [recipient |-> o.recipient, amount |-> o.amount, interval |-> o.interval,
                    active |-> TRUE, next_payout |-> timestamp + o.interval]
  OBVIOUS
<1>5. PICK t, m : t = Append(s, r) /\ m = Append(l, n)
  OBVIOUS
<1>6. r.recipient = w
  BY <1>1, <1>4
<1>7. /\ IncomeStream' = t
      /\ UserIncomeStreams' = [UserIncomeStreams EXCEPT ![w] = m]
  BY <1>1, <1>2, <1>3, <1>4, <1>5 DEF Recurring!CreateIncomeStream
<1>8. /\ DOMAIN s = 1..(n - 1) /\ DOMAIN t = DOMAIN s \cup {n} /\ t[n] = r
      /\ \A k \in DOMAIN s : t[k] = s[k]
  BY <1>2, <1>3, <1>5
<1>9. /\ m \in Seq(Nat) /\ DOMAIN l = 1..Len(l) /\ Len(l) \in Nat
      /\ DOMAIN m = DOMAIN l \cup {Len(l) + 1} /\ m[Len(l) + 1] = n
      /\ \A k \in DOMAIN l : m[k] = l[k] /\ l[k] \in Nat
  BY <1>2, <1>3, <1>5
<1>10. /\ UserIncomeStreams' \in [Users -> Seq(Nat)] /\ UserIncomeStreams'[w] = m
       /\ \A v \in Users : v # w => UserIncomeStreams'[v] = UserIncomeStreams[v]
  BY <1>7, <1>9 DEF StreamsListed
<1>11. /\ {l[k] : k \in DOMAIN l} = {i \in DOMAIN s : s[i].recipient = w}
       /\ \A j, k \in DOMAIN l : j < k => l[j] < l[k]
  BY <1>2 DEF StreamsListed
<1>12. \A k \in DOMAIN l : l[k] < n
  <2> SUFFICES ASSUME NEW k \in DOMAIN l PROVE l[k] < n
    OBVIOUS
  <2>1. l[k] \in DOMAIN s
    BY <1>11
  <2> QED
    BY <1>8, <2>1
<1>13. \A j, k \in DOMAIN m : j < k => m[j] < m[k]
  BY <1>9, <1>11, <1>12
<1>14. {m[k] : k \in DOMAIN m} = {i \in DOMAIN t : t[i].recipient = w}
  <2>1. {m[k] : k \in DOMAIN m} = {l[k] : k \in DOMAIN l} \cup {n}
    BY <1>9
  <2>2. {i \in DOMAIN t : t[i].recipient = w} = {i \in DOMAIN s : s[i].recipient = w} \cup {n}
    BY <1>6, <1>8
  <2> QED
    BY <1>11, <2>1, <2>2
<1>15. \A v \in Users : v # w =>
         {i \in DOMAIN t : t[i].recipient = v} = {i \in DOMAIN s : s[i].recipient = v}
  BY <1>6, <1>8
<1>16. ASSUME NEW v \in Users
       PROVE  /\ {UserIncomeStreams'[v][k] : k \in DOMAIN UserIncomeStreams'[v]}
                   = {i \in DOMAIN t : t[i].recipient = v}
              /\ \A j, k \in DOMAIN UserIncomeStreams'[v] :
                   j < k => UserIncomeStreams'[v][j] < UserIncomeStreams'[v][k]
  <2>1. CASE v = w
    BY <1>10, <1>13, <1>14, <2>1
  <2>2. CASE v # w
    <3>1. PICK p : p = UserIncomeStreams[v] /\ p = UserIncomeStreams'[v]
      BY <1>10, <2>2
    <3>2. /\ {p[k] : k \in DOMAIN p} = {i \in DOMAIN s : s[i].recipient = v}
          /\ \A j, k \in DOMAIN p : j < k => p[j] < p[k]
      <4>1. /\ {UserIncomeStreams[v][k] : k \in DOMAIN UserIncomeStreams[v]}
                 = {i \in DOMAIN IncomeStream : IncomeStream[i].recipient = v}
            /\ \A j, k \in DOMAIN UserIncomeStreams[v] :
                 j < k => UserIncomeStreams[v][j] < UserIncomeStreams[v][k]
        BY DEF StreamsListed
      <4> QED
        BY <1>2, <3>1, <4>1
    <3> QED
      BY <1>15, <2>2, <3>1, <3>2
  <2> QED
    BY <2>1, <2>2
<1> QED
  BY <1>7, <1>10, <1>16 DEF StreamsListed

LEMMA ListsKept ==
  ASSUME Recurring!RecurringAssumption, RecurringInv, StreamsListed,
         [Recurring!Next]_(Recurring!vars) \/ UNCHANGED recurVars
  PROVE  StreamsListed'
<1>1. CASE \E o \in StreamOffers : Recurring!CreateIncomeStream(o)
  BY <1>1, StreamCreationKeepsLists
<1>2. ASSUME UNCHANGED UserIncomeStreams, DOMAIN IncomeStream' = DOMAIN IncomeStream,
             \A i \in DOMAIN IncomeStream : IncomeStream'[i].recipient = IncomeStream[i].recipient
      PROVE  StreamsListed'
  <2>1. \A v : {i \in DOMAIN IncomeStream' : IncomeStream'[i].recipient = v}
                 = {i \in DOMAIN IncomeStream : IncomeStream[i].recipient = v}
    BY <1>2
  <2> QED
    BY <1>2, <2>1 DEF StreamsListed
<1>3. ASSUME NEW i \in DOMAIN IncomeStream,
             Recurring!ProcessIncome(i) \/ Recurring!CancelIncomeStream(i)
      PROVE  StreamsListed'
  <2>1. PICK s \in Recurring!StreamRecord : s = IncomeStream[i]
    BY DEF RecurringInv
  <2>2. PICK r, y : /\ r = [s EXCEPT !.next_payout = y] \/ r = [s EXCEPT !.active = FALSE]
                    /\ IncomeStream' = [IncomeStream EXCEPT ![i] = r]
    BY <1>3, <2>1 DEF Recurring!ProcessIncome, Recurring!CancelIncomeStream
  <2>3. r.recipient = s.recipient
    BY <2>2 DEF Recurring!StreamRecord
  <2>4. UNCHANGED UserIncomeStreams
    BY <1>3 DEF Recurring!ProcessIncome, Recurring!CancelIncomeStream
  <2>5. /\ DOMAIN IncomeStream' = DOMAIN IncomeStream
        /\ \A k \in DOMAIN IncomeStream : IncomeStream'[k].recipient = IncomeStream[k].recipient
    BY <2>1, <2>2, <2>3 DEF RecurringInv
  <2> QED
    BY <1>2, <2>4, <2>5
<1>4. CASE UNCHANGED <<IncomeStream, UserIncomeStreams>>
  BY <1>4, <1>2
<1> QED
  BY <1>1, <1>3, <1>4 DEF Recurring!Next, Recurring!CreatePayment, Recurring!MissPayment,
    Recurring!ExecutePayment, Recurring!CancelPayment, Recurring!PausePayment,
    Recurring!ResumePayment, Recurring!CloseLedger, Recurring!vars, recurVars

LEMMA StreamsInit == ASSUME Recurring!Init PROVE StreamsListed
BY DEF Recurring!Init, StreamsListed

LEMMA RecurringInit ==
  ASSUME Recurring!RecurringAssumption, Recurring!Init PROVE RecurringInv
BY DEF Recurring!RecurringAssumption, Recurring!Init, RecurringInv

\* However late it is run and however often it was paused or missed, a schedule stays on the
\* instants it was created with; a run pays once and moves it past every instant up to now, and
\* no money moves without one.
THEOREM OncePerInstant ==
  ASSUME Recurring!RecurringAssumption
  PROVE  Recurring!Spec => Recurring!OneRunPerInstant
<1>1. Recurring!Init => RecurringInv
  BY RecurringInit
<1>2. RecurringInv /\ [Recurring!Next]_(Recurring!vars)
        => RecurringInv' /\ [OnInstants]_(Recurring!vars)
  BY RecurringNext
<1> QED
  BY <1>1, <1>2, PTL DEF Recurring!Spec, Recurring!OneRunPerInstant, OnInstants

------------------------------------------------------------------------------
\* Refunds.

LEMMA RefundSums == \A f, n : Refunds!SumTo(f, n) = SumTo(f, n)
BY DEF Refunds!SumTo, SumTo

\* What each of the requests in s has credited to u, and the total.
Credits(s, u) ==
  [i \in DOMAIN s |-> IF s[i].requester = u /\ s[i].status = "Processed"
                      THEN s[i].amount ELSE 0]
CreditsTo(s, u) == SumTo(Credits(s, u), Len(s))

RefundsInv == /\ Refunds!TypeOK
              /\ \A u \in Users : Balance[u] = CreditsTo(RefundRequest, u)

LEMMA SameCredits ==
  Refunds!CreditsMatch <=> \A u \in Users : Balance[u] = CreditsTo(RefundRequest, u)
BY RefundSums DEF Refunds!CreditsMatch, Refunds!RefundIds, CreditsTo, Credits

LEMMA RequestFacts ==
  ASSUME NEW s \in Seq(Refunds!Request), NEW u
  PROVE  /\ Len(s) \in Nat /\ DOMAIN s = 1..Len(s)
         /\ \A i \in DOMAIN s : s[i] \in Refunds!Request
         /\ \A i \in 1..Len(s) : Credits(s, u)[i] \in Int
<1>1. /\ Len(s) \in Nat /\ DOMAIN s = 1..Len(s)
      /\ \A i \in DOMAIN s : s[i] \in Refunds!Request
  OBVIOUS
<1> QED
  BY <1>1 DEF Credits, Refunds!Request

\* A new request has credited nothing yet.
LEMMA NewRequestCredits ==
  ASSUME NEW s \in Seq(Refunds!Request), NEW r \in Refunds!Request, r.status # "Processed",
         NEW t, t = Append(s, r), NEW u
  PROVE  CreditsTo(t, u) = CreditsTo(s, u)
<1>1. /\ t \in Seq(Refunds!Request) /\ Len(t) = Len(s) + 1 /\ t[Len(s) + 1] = r
      /\ \A i \in 1..Len(s) : t[i] = s[i]
  OBVIOUS
<1>2. \A i \in 1..Len(s) : Credits(t, u)[i] = Credits(s, u)[i]
  BY <1>1, RequestFacts DEF Credits
<1>3. Credits(t, u)[Len(s) + 1] = 0
  BY <1>1, RequestFacts DEF Credits
<1>4. SumTo(Credits(t, u), Len(s) + 1) = SumTo(Credits(t, u), Len(s)) + 0
  BY <1>1, <1>3, RequestFacts, SumStep
<1>5. SumTo(Credits(t, u), Len(s)) = SumTo(Credits(s, u), Len(s))
  <2>1. \A i \in 1..Len(s) : Credits(t, u)[i] \in Int
    BY <1>2, RequestFacts
  <2> QED
    BY <1>2, <2>1, RequestFacts, SumCongruence
<1>6. SumTo(Credits(s, u), Len(s)) \in Int
  BY RequestFacts, SumType
<1> QED
  BY <1>1, <1>4, <1>5, <1>6 DEF CreditsTo

\* A mark changes the credits of its requester by what it pays out.
LEMMA MarkCredits ==
  ASSUME NEW s \in Seq(Refunds!Request), NEW j \in DOMAIN s, s[j].status # "Processed",
         NEW t \in Seq(Refunds!Request), Len(t) = Len(s),
         t[j].requester = s[j].requester, t[j].amount = s[j].amount,
         \A i \in DOMAIN s : i # j => t[i] = s[i], NEW u
  PROVE  /\ u = s[j].requester /\ t[j].status = "Processed"
              => CreditsTo(t, u) = CreditsTo(s, u) + s[j].amount
         /\ u # s[j].requester \/ t[j].status # "Processed" => CreditsTo(t, u) = CreditsTo(s, u)
<1>1. DOMAIN s = 1..Len(s) /\ DOMAIN t = 1..Len(s) /\ j \in 1..Len(s)
  BY RequestFacts
<1>2. /\ Credits(s, u)[j] = 0
      /\ Credits(t, u)[j] = IF u = s[j].requester /\ t[j].status = "Processed"
                            THEN s[j].amount ELSE 0
  BY <1>1 DEF Credits
<1>3. \A i \in 1..Len(s) : i # j => Credits(s, u)[i] = Credits(t, u)[i]
  BY <1>1, RequestFacts DEF Credits
<1>4. \A i \in 1..Len(s) : Credits(s, u)[i] \in Int /\ Credits(t, u)[i] \in Int
  BY <1>1, RequestFacts
<1>5. SumTo(Credits(t, u), Len(s)) = SumTo(Credits(s, u), Len(s)) + Credits(t, u)[j]
                                       - Credits(s, u)[j]
  BY <1>3, <1>4, RequestFacts, SumPoint
<1>6. SumTo(Credits(s, u), Len(s)) \in Int /\ Credits(t, u)[j] \in Int
  BY <1>4, RequestFacts, SumType
<1> QED
  BY <1>1, <1>2, <1>5, <1>6 DEF CreditsTo

LEMMA RefundsInit == ASSUME Refunds!RefundsAssumption, Refunds!Init PROVE RefundsInv
<1>1. /\ RefundRequest = << >> /\ ProcessedRefund = {} /\ Balance = [u \in Users |-> 0]
      /\ refundsAdmin = Unset /\ Config = Unset /\ timestamp = 0
  BY DEF Refunds!Init
<1>2. \A u \in Users : CreditsTo(RefundRequest, u) = 0
  BY <1>1, SumZero DEF CreditsTo
<1>3. Refunds!TypeOK
  BY <1>1 DEF Refunds!TypeOK, Refunds!RefundIds, Refunds!RefundsAssumption
<1> QED
  BY <1>1, <1>2, <1>3 DEF RefundsInv

LEMMA RefundSettingsKeep ==
  ASSUME Refunds!RefundsAssumption, RefundsInv,
         \/ \E u \in Users : Refunds!Initialize(u)
         \/ \E u \in Users, c \in RefundConfigs : Refunds!SetConfig(u, c)
         \/ Refunds!CloseLedger \/ UNCHANGED Refunds!vars
         \/ UNCHANGED refundsVars /\ TimePasses
  PROVE  RefundsInv'
<1>1. UNCHANGED <<RefundRequest, ProcessedRefund, Balance>>
  BY DEF Refunds!Initialize, Refunds!SetConfig, Refunds!CloseLedger, Refunds!vars, refundsVars
<1>2. /\ refundsAdmin' \in Users \cup {Unset} /\ (Config' = Unset <=> refundsAdmin' = Unset)
      /\ Config' # Unset => Config' \in Refunds!Configuration
  BY DEF Refunds!Initialize, Refunds!SetConfig, Refunds!CloseLedger, Refunds!vars, refundsVars,
         Refunds!RequireAdmin, Refunds!RefundsAssumption, RefundsInv, Refunds!TypeOK
<1>3. timestamp' \in Nat
  BY DEF Refunds!Initialize, Refunds!SetConfig, Refunds!CloseLedger, Refunds!vars, TimePasses,
         RefundsInv, Refunds!TypeOK
<1> QED
  BY <1>1, <1>2, <1>3 DEF RefundsInv, Refunds!TypeOK, Refunds!RefundIds

LEMMA RequestKeepsCredits ==
  ASSUME Refunds!RefundsAssumption, RefundsInv, NEW u \in Users, NEW x \in RefundTransactions,
         NEW a \in RefundAmounts, NEW n, Refunds!RequestRefund(u, x, a, n)
  PROVE  RefundsInv'
<1>1. PICK r : r = [transaction |-> x, requester |-> u, amount |-> a,
                    status |-> Refunds!FirstStatus(a), created_at |-> timestamp,
                    processed_at |-> Unset, processed_by |-> Unset]
  OBVIOUS
<1>2. /\ RefundRequest' = Append(RefundRequest, r) /\ a > 0
      /\ UNCHANGED <<refundsAdmin, Config, ProcessedRefund, Balance, timestamp>>
  BY <1>1 DEF Refunds!RequestRefund
<1>3. r \in Refunds!Request /\ r.status # "Processed"
  BY <1>1, <1>2 DEF Refunds!Request, Refunds!FirstStatus, Refunds!RefundsAssumption, RefundsInv,
                    Refunds!TypeOK
<1>4. RefundRequest \in Seq(Refunds!Request)
  BY DEF RefundsInv, Refunds!TypeOK
<1>5. \A v \in Users : CreditsTo(RefundRequest', v) = CreditsTo(RefundRequest, v)
  BY <1>2, <1>3, <1>4, NewRequestCredits
<1>6. /\ RefundRequest' \in Seq(Refunds!Request)
      /\ DOMAIN RefundRequest' = DOMAIN RefundRequest \cup {Len(RefundRequest) + 1}
      /\ RefundRequest'[Len(RefundRequest) + 1] = r
      /\ \A i \in DOMAIN RefundRequest : RefundRequest'[i] = RefundRequest[i]
  BY <1>2, <1>3, <1>4
<1>7. ProcessedRefund' = {i \in DOMAIN RefundRequest' : RefundRequest'[i].status = "Processed"}
  BY <1>2, <1>3, <1>6 DEF RefundsInv, Refunds!TypeOK, Refunds!RefundIds
<1> QED
  BY <1>2, <1>5, <1>6, <1>7 DEF RefundsInv, Refunds!TypeOK, Refunds!RefundIds

\* The mark of an approval, a rejection or a payment.
LEMMA MarkedRequest ==
  ASSUME RefundsInv, NEW u \in Users, NEW j \in Refunds!RefundIds,
         NEW status \in {"Approved", "Rejected", "Processed"},
         RefundRequest' = Refunds!Marked(j, status, u), RefundRequest[j].status # "Processed"
  PROVE  /\ RefundRequest' \in Seq(Refunds!Request) /\ DOMAIN RefundRequest' = DOMAIN RefundRequest
         /\ RefundRequest'[j].status = status
         /\ \A i \in DOMAIN RefundRequest : i # j => RefundRequest'[i] = RefundRequest[i]
         /\ \A v : /\ v = RefundRequest[j].requester /\ status = "Processed"
                      => CreditsTo(RefundRequest', v)
                           = CreditsTo(RefundRequest, v) + RefundRequest[j].amount
                   /\ v # RefundRequest[j].requester \/ status # "Processed"
                      => CreditsTo(RefundRequest', v) = CreditsTo(RefundRequest, v)
<1>1. RefundRequest \in Seq(Refunds!Request) /\ j \in DOMAIN RefundRequest /\ timestamp \in Nat
  BY DEF RefundsInv, Refunds!TypeOK, Refunds!RefundIds
<1>2. PICK p \in Refunds!Request : p = RefundRequest[j]
  BY <1>1
<1>3. PICK r : r = [p EXCEPT !.status = status, !.processed_at = timestamp, !.processed_by = u]
  OBVIOUS
<1>4. r \in Refunds!Request /\ r.requester = p.requester /\ r.amount = p.amount
      /\ r.status = status
  BY <1>1, <1>3 DEF Refunds!Request
<1>5. RefundRequest' = [RefundRequest EXCEPT ![j] = r]
  BY <1>1, <1>2, <1>3 DEF Refunds!Marked
<1>6. /\ RefundRequest' \in Seq(Refunds!Request) /\ DOMAIN RefundRequest' = DOMAIN RefundRequest
      /\ Len(RefundRequest') = Len(RefundRequest) /\ RefundRequest'[j] = r
      /\ \A i \in DOMAIN RefundRequest : i # j => RefundRequest'[i] = RefundRequest[i]
  BY <1>1, <1>4, <1>5
<1>7. ASSUME NEW v
      PROVE  /\ v = p.requester /\ status = "Processed"
                => CreditsTo(RefundRequest', v) = CreditsTo(RefundRequest, v) + p.amount
             /\ v # p.requester \/ status # "Processed"
                => CreditsTo(RefundRequest', v) = CreditsTo(RefundRequest, v)
  <2>1. PICK t : t = RefundRequest'
    OBVIOUS
  <2>2. PICK s \in Seq(Refunds!Request) : s = RefundRequest
    BY <1>1
  <2>3. /\ t \in Seq(Refunds!Request) /\ Len(t) = Len(s) /\ j \in DOMAIN s
        /\ t[j].requester = s[j].requester /\ t[j].amount = s[j].amount
        /\ t[j].status = status /\ s[j].status # "Processed"
        /\ \A i \in DOMAIN s : i # j => t[i] = s[i]
    BY <1>1, <1>2, <1>4, <1>6, <2>1, <2>2
  <2>4. /\ v = s[j].requester /\ t[j].status = "Processed"
              => CreditsTo(t, v) = CreditsTo(s, v) + s[j].amount
        /\ v # s[j].requester \/ t[j].status # "Processed" => CreditsTo(t, v) = CreditsTo(s, v)
    BY <2>3, MarkCredits
  <2> QED
    BY <1>2, <2>1, <2>2, <2>3, <2>4
<1> QED
  BY <1>2, <1>4, <1>6, <1>7

LEMMA DecisionKeepsCredits ==
  ASSUME RefundsInv, NEW u \in Users, NEW j \in Refunds!RefundIds,
         Refunds!ApproveRefund(u, j) \/ Refunds!RejectRefund(u, j)
  PROVE  RefundsInv'
<1>1. PICK status \in {"Approved", "Rejected"} : RefundRequest' = Refunds!Marked(j, status, u)
  BY DEF Refunds!ApproveRefund, Refunds!RejectRefund
<1>2. /\ RefundRequest[j].status # "Processed"
      /\ UNCHANGED <<refundsAdmin, Config, ProcessedRefund, Balance, timestamp>>
  BY DEF Refunds!ApproveRefund, Refunds!RejectRefund
<1>3. /\ RefundRequest' \in Seq(Refunds!Request) /\ DOMAIN RefundRequest' = DOMAIN RefundRequest
      /\ RefundRequest'[j].status = status
      /\ \A i \in DOMAIN RefundRequest : i # j => RefundRequest'[i] = RefundRequest[i]
      /\ \A v : CreditsTo(RefundRequest', v) = CreditsTo(RefundRequest, v)
  BY <1>1, <1>2, MarkedRequest
<1>4. ProcessedRefund' = {i \in DOMAIN RefundRequest' : RefundRequest'[i].status = "Processed"}
  BY <1>2, <1>3 DEF RefundsInv, Refunds!TypeOK, Refunds!RefundIds
<1> QED
  BY <1>2, <1>3, <1>4 DEF RefundsInv, Refunds!TypeOK, Refunds!RefundIds

LEMMA PaymentKeepsCredits ==
  ASSUME Refunds!RefundsAssumption, RefundsInv, NEW u \in Users, NEW j \in Refunds!RefundIds,
         Refunds!ProcessRefund(u, j)
  PROVE  RefundsInv'
<1>1. PICK p \in Refunds!Request : p = RefundRequest[j]
  BY DEF RefundsInv, Refunds!TypeOK, Refunds!RefundIds
<1>2. PICK v \in Users, n \in Nat : v = p.requester /\ n = p.amount
  BY DEF Refunds!Request
<1>3. /\ p.status = "Approved" /\ Balance[v] + n <= I128_MAX
      /\ Balance' = [Balance EXCEPT ![v] = Balance[v] + n]
      /\ RefundRequest' = Refunds!Marked(j, "Processed", u)
      /\ ProcessedRefund' = ProcessedRefund \cup {j}
      /\ UNCHANGED <<refundsAdmin, Config, timestamp>>
  BY <1>1, <1>2 DEF Refunds!ProcessRefund, Refunds!Credited
<1>4. /\ RefundRequest' \in Seq(Refunds!Request) /\ DOMAIN RefundRequest' = DOMAIN RefundRequest
      /\ RefundRequest'[j].status = "Processed"
      /\ \A i \in DOMAIN RefundRequest : i # j => RefundRequest'[i] = RefundRequest[i]
      /\ CreditsTo(RefundRequest', v) = CreditsTo(RefundRequest, v) + n
      /\ \A w : w # v => CreditsTo(RefundRequest', w) = CreditsTo(RefundRequest, w)
  BY <1>1, <1>2, <1>3, MarkedRequest
<1>5. Balance \in [Users -> 0..I128_MAX] /\ I128_MAX \in Nat
  BY DEF RefundsInv, Refunds!TypeOK, Refunds!RefundsAssumption
<1>6. Balance' \in [Users -> 0..I128_MAX]
  BY <1>3, <1>5
<1>7. \A w \in Users : Balance'[w] = CreditsTo(RefundRequest', w)
  <2>1. \A w \in Users : Balance[w] = CreditsTo(RefundRequest, w) /\ Balance[w] \in Int
    BY <1>5 DEF RefundsInv
  <2>2. Balance'[v] = Balance[v] + n /\ \A w \in Users : w # v => Balance'[w] = Balance[w]
    BY <1>3, <1>5
  <2> QED
    BY <1>4, <2>1, <2>2
<1>8. ProcessedRefund' = {i \in DOMAIN RefundRequest' : RefundRequest'[i].status = "Processed"}
  BY <1>3, <1>4 DEF RefundsInv, Refunds!TypeOK, Refunds!RefundIds
<1> QED
  BY <1>3, <1>4, <1>6, <1>7, <1>8 DEF RefundsInv, Refunds!TypeOK, Refunds!RefundIds

LEMMA RefundsNext ==
  ASSUME Refunds!RefundsAssumption, RefundsInv,
         [Refunds!Next]_(Refunds!vars) \/ (UNCHANGED refundsVars /\ TimePasses)
  PROVE  RefundsInv'
BY RefundSettingsKeep, RequestKeepsCredits, DecisionKeepsCredits, PaymentKeepsCredits
   DEF Refunds!Next

\* Every user has been credited exactly the refunds of the user's requests that were processed,
\* each once, by whoever and in whatever order they were processed (`refunds.rs`).
THEOREM CreditsAlwaysMatch ==
  ASSUME Refunds!RefundsAssumption
  PROVE  Refunds!Spec => [](Refunds!TypeOK /\ Refunds!CreditsMatch)
<1>1. Refunds!Init => RefundsInv
  BY RefundsInit
<1>2. ASSUME RefundsInv, [Refunds!Next]_(Refunds!vars) PROVE RefundsInv'
  BY <1>2, RefundsNext
<1>3. RefundsInv => Refunds!TypeOK /\ Refunds!CreditsMatch
  BY SameCredits DEF RefundsInv
<1> QED
  BY <1>1, <1>2, <1>3, PTL DEF Refunds!Spec

------------------------------------------------------------------------------
\* Recurring savings.

LEMMA SavingsSums == \A f, n : Savings!SumTo(f, n) = SumTo(f, n)
BY DEF Savings!SumTo, SumTo

\* What the runs of a schedule have taken from u (side is "out") or brought u, and the total
\* over the schedules in s.
Moved(r, u, side) ==
  IF u = (IF side = "out" THEN r.owner ELSE r.goal)
  THEN r.amount * r.executions_completed ELSE 0
Moves(s, u, side) == [i \in DOMAIN s |-> Moved(s[i], u, side)]
MovedBy(s, u, side) == SumTo(Moves(s, u, side), Len(s))

\* A schedule is on its cadence.
Cadence(r, now) ==
  /\ r.next_execution_at = r.created_at + (r.executions_completed + 1) * r.interval
  /\ r.created_at + r.executions_completed * r.interval <= now
  /\ r.status = "Exhausted" <=> (r.max > 0 /\ r.executions_completed = r.max)
  /\ r.max > 0 => r.executions_completed <= r.max

SavingsInv ==
  /\ Savings!TypeOK
  /\ \A i \in DOMAIN Schedule : Cadence(Schedule[i], timestamp)
  /\ \A u \in Users : savingsWallet[u] = SavingsOpening[u] + MovedBy(Schedule, u, "in")
                                                           - MovedBy(Schedule, u, "out")

LEMMA SavingsInvIsSafe == ASSUME SavingsInv PROVE Savings!OnCadence
<1>1. \A u : Savings!Received(u) = MovedBy(Schedule, u, "in")
  <2>1. \A u : [i \in Savings!Ids |-> IF Schedule[i].goal = u
                   THEN Schedule[i].amount * Schedule[i].executions_completed ELSE 0]
               = Moves(Schedule, u, "in")
    BY DEF Moves, Moved, Savings!Ids
  <2> QED
    BY <2>1, SavingsSums DEF Savings!Received, MovedBy
<1>2. \A u : Savings!Contributed(u) = MovedBy(Schedule, u, "out")
  <2>1. \A u : [i \in Savings!Ids |-> IF Schedule[i].owner = u
                   THEN Schedule[i].amount * Schedule[i].executions_completed ELSE 0]
               = Moves(Schedule, u, "out")
    BY DEF Moves, Moved, Savings!Ids
  <2> QED
    BY <2>1, SavingsSums DEF Savings!Contributed, MovedBy
<1>3. \A i \in DOMAIN Schedule : Cadence(Schedule[i], timestamp)
  BY DEF SavingsInv
<1>4. \A u \in Users : savingsWallet[u] = SavingsOpening[u] + Savings!Received(u)
                                            - Savings!Contributed(u)
  BY <1>1, <1>2 DEF SavingsInv
<1> QED
  BY <1>3, <1>4 DEF Savings!OnCadence, Savings!Ids, Cadence

LEMMA ScheduleFacts ==
  ASSUME NEW s \in Seq(Savings!RecurringSchedule), NEW u \in Users, NEW side \in {"in", "out"}
  PROVE  /\ Len(s) \in Nat /\ DOMAIN s = 1..Len(s)
         /\ \A i \in DOMAIN s : s[i] \in Savings!RecurringSchedule
         /\ \A i \in 1..Len(s) : Moves(s, u, side)[i] \in Int /\ Moved(s[i], u, side) \in Int
         /\ MovedBy(s, u, side) \in Int
<1>1. /\ Len(s) \in Nat /\ DOMAIN s = 1..Len(s)
      /\ \A i \in DOMAIN s : s[i] \in Savings!RecurringSchedule
  OBVIOUS
<1>2. ASSUME NEW i \in DOMAIN s PROVE Moved(s[i], u, side) \in Int
  <2>1. PICK a \in Nat, c \in Nat : a = s[i].amount /\ c = s[i].executions_completed
    BY <1>1 DEF Savings!RecurringSchedule
  <2>2. a * c \in Int
    OBVIOUS
  <2> QED
    BY <2>1, <2>2 DEF Moved
<1>3. \A i \in 1..Len(s) : Moves(s, u, side)[i] \in Int
  BY <1>1, <1>2 DEF Moves
<1>4. MovedBy(s, u, side) \in Int
  BY <1>1, <1>3, SumType DEF MovedBy
<1> QED
  BY <1>1, <1>2, <1>3, <1>4

\* A new schedule has moved nothing yet.
LEMMA NewScheduleMoves ==
  ASSUME NEW s \in Seq(Savings!RecurringSchedule), NEW r \in Savings!RecurringSchedule,
         r.executions_completed = 0, NEW t, t = Append(s, r), NEW u \in Users, NEW side \in {"in", "out"}
  PROVE  MovedBy(t, u, side) = MovedBy(s, u, side)
<1>1. /\ t \in Seq(Savings!RecurringSchedule) /\ Len(t) = Len(s) + 1 /\ t[Len(s) + 1] = r
      /\ \A i \in 1..Len(s) : t[i] = s[i]
  OBVIOUS
<1>2. \A i \in 1..Len(s) : Moves(t, u, side)[i] = Moves(s, u, side)[i]
  BY <1>1, ScheduleFacts DEF Moves
<1>3. Moves(t, u, side)[Len(s) + 1] = 0
  <2>1. PICK a \in Nat : a = r.amount
    BY DEF Savings!RecurringSchedule
  <2>2. a * 0 = 0
    OBVIOUS
  <2>3. Moved(r, u, side) = 0
    BY <2>1, <2>2 DEF Moved
  <2> QED
    BY <1>1, <2>3, ScheduleFacts DEF Moves
<1>4. SumTo(Moves(t, u, side), Len(s) + 1) = SumTo(Moves(t, u, side), Len(s)) + 0
  <2>1. \A i \in 1..(Len(s) + 1) : Moves(t, u, side)[i] \in Int
    BY <1>1, ScheduleFacts
  <2>2. Len(s) \in Nat
    BY ScheduleFacts
  <2> QED
    BY <1>3, <2>1, <2>2, SumStep
<1>5. SumTo(Moves(t, u, side), Len(s)) = SumTo(Moves(s, u, side), Len(s))
  <2>1. \A i \in 1..Len(s) : Moves(t, u, side)[i] \in Int
    BY <1>2, ScheduleFacts
  <2> QED
    BY <1>2, <2>1, ScheduleFacts, SumCongruence
<1>6. SumTo(Moves(s, u, side), Len(s)) \in Int
  BY ScheduleFacts, SumType
<1> QED
  BY <1>1, <1>4, <1>5, <1>6 DEF MovedBy

\* A change of one schedule changes the totals by what it changes of that schedule.
LEMMA ScheduleChangeMoves ==
  ASSUME NEW s \in Seq(Savings!RecurringSchedule), NEW j \in DOMAIN s,
         NEW t \in Seq(Savings!RecurringSchedule), Len(t) = Len(s),
         \A i \in DOMAIN s : i # j => t[i] = s[i], NEW u \in Users, NEW side \in {"in", "out"}
  PROVE  MovedBy(t, u, side)
           = MovedBy(s, u, side) + Moved(t[j], u, side) - Moved(s[j], u, side)
<1>1. DOMAIN s = 1..Len(s) /\ DOMAIN t = 1..Len(s) /\ j \in 1..Len(s) /\ Len(s) \in Nat
  BY ScheduleFacts
<1>2. Moves(s, u, side)[j] = Moved(s[j], u, side) /\ Moves(t, u, side)[j] = Moved(t[j], u, side)
  BY <1>1 DEF Moves
<1>3. \A i \in 1..Len(s) : i # j => Moves(s, u, side)[i] = Moves(t, u, side)[i]
  BY <1>1 DEF Moves
<1>4. \A i \in 1..Len(s) : Moves(s, u, side)[i] \in Int /\ Moves(t, u, side)[i] \in Int
  BY ScheduleFacts
<1>5. SumTo(Moves(t, u, side), Len(s)) = SumTo(Moves(s, u, side), Len(s))
                                           + Moves(t, u, side)[j] - Moves(s, u, side)[j]
  BY <1>1, <1>3, <1>4, SumPoint
<1> QED
  BY <1>2, <1>5 DEF MovedBy

LEMMA SavingsInit == ASSUME Savings!SavingsAssumption, Savings!Init PROVE SavingsInv
<1>1. /\ savingsAdmin = Unset /\ Schedule = << >> /\ savingsWallet = SavingsOpening
      /\ savingsAllowance = [u \in Users |-> 0] /\ timestamp = 0
  BY DEF Savings!Init
<1>2. \A u \in Users, side \in {"in", "out"} : MovedBy(Schedule, u, side) = 0
  BY <1>1, SumZero DEF MovedBy
<1>3. Savings!TypeOK
  BY <1>1 DEF Savings!TypeOK, Savings!Ids, Savings!SavingsAssumption
<1>4. \A u \in Users : SavingsOpening[u] \in Nat
  BY DEF Savings!SavingsAssumption
<1>5. \A u \in Users : savingsWallet[u] = SavingsOpening[u] + MovedBy(Schedule, u, "in")
                                                            - MovedBy(Schedule, u, "out")
  BY <1>1, <1>2, <1>4
<1> QED
  BY <1>1, <1>3, <1>5 DEF SavingsInv

\* What is no schedule: the administrator, the token's allowances and time.
LEMMA SavingsAround ==
  ASSUME Savings!SavingsAssumption, SavingsInv,
         \/ \E u \in Users : Savings!Initialize(u)
         \/ \E u \in Users, n \in SavingsLimits : Savings!SetAllowance(u, n)
         \/ Savings!CloseLedger \/ UNCHANGED Savings!vars
         \/ (UNCHANGED savingsVars /\ TimePasses)
  PROVE  SavingsInv'
<1>1. UNCHANGED <<Schedule, savingsWallet>>
  BY DEF Savings!Initialize, Savings!SetAllowance, Savings!CloseLedger, Savings!vars, savingsVars
<1>2. savingsAdmin' \in Users \cup {Unset} /\ savingsAllowance' \in [Users -> Nat]
  BY DEF Savings!Initialize, Savings!SetAllowance, Savings!CloseLedger, Savings!vars, savingsVars,
         Savings!SavingsAssumption, SavingsInv, Savings!TypeOK
<1>3. timestamp' \in Nat /\ timestamp \in Nat /\ timestamp' >= timestamp
  BY DEF Savings!Initialize, Savings!SetAllowance, Savings!CloseLedger, Savings!vars, TimePasses,
         SavingsInv, Savings!TypeOK
<1>4. ASSUME NEW i \in DOMAIN Schedule PROVE Cadence(Schedule[i], timestamp')
  <2>5. Schedule[i] \in Savings!RecurringSchedule
    BY DEF SavingsInv, Savings!TypeOK
  <2>1. PICK c \in Nat, x \in Nat, d \in Nat :
          c = Schedule[i].created_at /\ x = Schedule[i].executions_completed
          /\ d = Schedule[i].interval
    BY <2>5 DEF Savings!RecurringSchedule
  <2>2. x * d \in Nat
    OBVIOUS
  <2>3. c + x * d <= timestamp
    BY <2>1 DEF SavingsInv, Cadence
  <2>4. c + x * d <= timestamp'
    BY <1>3, <2>2, <2>3
  <2> QED
    BY <2>1, <2>4 DEF SavingsInv, Cadence
<1> QED
  BY <1>1, <1>2, <1>3, <1>4 DEF SavingsInv, Savings!TypeOK, Savings!Ids

LEMMA CreationKeepsCadence ==
  ASSUME Savings!SavingsAssumption, SavingsInv, NEW o \in ScheduleOffers,
         Savings!CreateSchedule(o)
  PROVE  SavingsInv'
<1>1. PICK r : r = [owner |-> o.owner, goal |-> o.goal, amount |-> o.amount,
                    interval |-> o.interval, next_execution_at |-> timestamp + o.interval,
                    executions_completed |-> 0, max |-> o.max, status |-> "Active",
                    created_at |-> timestamp]
  OBVIOUS
<1>2. /\ Schedule' = Append(Schedule, r) /\ o.amount > 0 /\ o.interval >= MIN_INTERVAL_SECS
      /\ o.goal # o.owner
      /\ UNCHANGED <<savingsAdmin, savingsWallet, savingsAllowance, timestamp>>
  BY <1>1 DEF Savings!CreateSchedule
<1>3. /\ o.owner \in Users /\ o.goal \in Users /\ o.amount \in Nat \ {0}
      /\ o.interval \in Nat \ {0} /\ o.max \in Nat /\ timestamp \in Nat
  BY <1>2 DEF Savings!SavingsAssumption, SavingsInv, Savings!TypeOK
<1>4. r \in Savings!RecurringSchedule /\ r.owner # r.goal /\ r.executions_completed = 0
  BY <1>1, <1>2, <1>3 DEF Savings!RecurringSchedule
<1>5. Cadence(r, timestamp)
  <2>1. PICK d \in Nat : d = o.interval
    BY <1>3
  <2>2. (0 + 1) * d = d /\ 0 * d = 0
    OBVIOUS
  <2> QED
    BY <1>1, <1>3, <2>1, <2>2 DEF Cadence
<1>6. Schedule \in Seq(Savings!RecurringSchedule)
  BY DEF SavingsInv, Savings!TypeOK
<1>7. /\ Schedule' \in Seq(Savings!RecurringSchedule)
      /\ DOMAIN Schedule' = DOMAIN Schedule \cup {Len(Schedule) + 1}
      /\ Schedule'[Len(Schedule) + 1] = r
      /\ \A i \in DOMAIN Schedule : Schedule'[i] = Schedule[i]
  BY <1>2, <1>4, <1>6
<1>8. ASSUME NEW u \in Users, NEW side \in {"in", "out"}
      PROVE  MovedBy(Schedule', u, side) = MovedBy(Schedule, u, side)
  <2>1. PICK t : t = Schedule'
    OBVIOUS
  <2>2. t = Append(Schedule, r)
    BY <1>2, <2>1
  <2>3. MovedBy(t, u, side) = MovedBy(Schedule, u, side)
    BY <1>4, <1>6, <2>2, NewScheduleMoves
  <2> QED
    BY <2>1, <2>3
<1>9. Savings!TypeOK'
  BY <1>2, <1>4, <1>7 DEF SavingsInv, Savings!TypeOK, Savings!Ids
<1>10. \A i \in DOMAIN Schedule' : Cadence(Schedule'[i], timestamp')
  BY <1>2, <1>5, <1>7 DEF SavingsInv
<1> QED
  BY <1>2, <1>8, <1>9, <1>10 DEF SavingsInv

\* A run, a cancellation: one schedule changes, and the tokens follow its count of runs.
LEMMA ScheduleChanges ==
  ASSUME Savings!SavingsAssumption, SavingsInv, NEW j \in DOMAIN Schedule,
         NEW r \in Savings!RecurringSchedule,
         Schedule' = [Schedule EXCEPT ![j] = r], r.owner = Schedule[j].owner,
         r.goal = Schedule[j].goal, Cadence(r, timestamp),
         UNCHANGED <<savingsAdmin, timestamp>>,
         savingsWallet' \in [Users -> Nat], savingsAllowance' \in [Users -> Nat],
         \A u \in Users : savingsWallet'[u]
           = savingsWallet[u] + (Moved(r, u, "in") - Moved(Schedule[j], u, "in"))
                              - (Moved(r, u, "out") - Moved(Schedule[j], u, "out"))
  PROVE  SavingsInv'
<1>1. Schedule \in Seq(Savings!RecurringSchedule) /\ Schedule[j] \in Savings!RecurringSchedule
  BY DEF SavingsInv, Savings!TypeOK
<1>2. /\ Schedule' \in Seq(Savings!RecurringSchedule) /\ DOMAIN Schedule' = DOMAIN Schedule
      /\ Len(Schedule') = Len(Schedule) /\ Schedule'[j] = r
      /\ \A i \in DOMAIN Schedule : i # j => Schedule'[i] = Schedule[i]
  BY <1>1
<1>3. Savings!TypeOK'
  BY <1>2 DEF SavingsInv, Savings!TypeOK, Savings!Ids
<1>4. \A i \in DOMAIN Schedule' : Cadence(Schedule'[i], timestamp')
  BY <1>2 DEF SavingsInv
<1>5. ASSUME NEW u \in Users, NEW side \in {"in", "out"}
      PROVE  /\ MovedBy(Schedule', u, side) = MovedBy(Schedule, u, side) + Moved(r, u, side)
                                                - Moved(Schedule[j], u, side)
             /\ MovedBy(Schedule, u, side) \in Int
             /\ Moved(r, u, side) \in Int /\ Moved(Schedule[j], u, side) \in Int
  <2>1. PICK t : t = Schedule'
    OBVIOUS
  <2>2. /\ t \in Seq(Savings!RecurringSchedule) /\ Len(t) = Len(Schedule) /\ t[j] = r
        /\ \A i \in DOMAIN Schedule : i # j => t[i] = Schedule[i]
    BY <1>2, <2>1
  <2>3. MovedBy(t, u, side) = MovedBy(Schedule, u, side) + Moved(t[j], u, side)
                                - Moved(Schedule[j], u, side)
    BY <1>1, <2>2, ScheduleChangeMoves
  <2>4. MovedBy(Schedule, u, side) \in Int /\ Moved(Schedule[j], u, side) \in Int
    BY <1>1, ScheduleFacts
  <2>5. Moved(t[j], u, side) \in Int
    BY <1>1, <2>2, ScheduleFacts
  <2> QED
    BY <2>1, <2>2, <2>3, <2>4, <2>5
<1>6. ASSUME NEW u \in Users
      PROVE  savingsWallet'[u] = SavingsOpening[u] + MovedBy(Schedule', u, "in")
                                                   - MovedBy(Schedule', u, "out")
  <2>1. savingsWallet[u] = SavingsOpening[u] + MovedBy(Schedule, u, "in")
                                             - MovedBy(Schedule, u, "out")
    BY DEF SavingsInv
  <2>2. SavingsOpening[u] \in Int /\ savingsWallet[u] \in Int
    BY DEF Savings!SavingsAssumption, SavingsInv, Savings!TypeOK
  <2>3. PICK in \in Int, out \in Int, toIn \in Int, toOut \in Int :
          /\ in = MovedBy(Schedule, u, "in") /\ out = MovedBy(Schedule, u, "out")
          /\ toIn = Moved(r, u, "in") - Moved(Schedule[j], u, "in")
          /\ toOut = Moved(r, u, "out") - Moved(Schedule[j], u, "out")
    BY <1>5
  <2>4. /\ MovedBy(Schedule', u, "in") = in + toIn /\ MovedBy(Schedule', u, "out") = out + toOut
    BY <1>5, <2>3
  <2>5. savingsWallet'[u] = savingsWallet[u] + toIn - toOut
    BY <2>3
  <2> QED
    BY <2>1, <2>2, <2>3, <2>4, <2>5
<1> QED
  BY <1>3, <1>4, <1>6 DEF SavingsInv

LEMMA RunMoves ==
  ASSUME NEW p \in Savings!RecurringSchedule, NEW r \in Savings!RecurringSchedule,
         r.owner = p.owner, r.goal = p.goal, r.amount = p.amount,
         r.executions_completed = p.executions_completed + 1, NEW u \in Users, NEW side \in {"in", "out"}
  PROVE  Moved(r, u, side) - Moved(p, u, side)
           = IF u = (IF side = "out" THEN p.owner ELSE p.goal) THEN p.amount ELSE 0
<1>1. PICK a \in Nat, c \in Nat : a = p.amount /\ c = p.executions_completed
  BY DEF Savings!RecurringSchedule
<1>2. a * (c + 1) = a * c + a /\ a * c \in Nat
  OBVIOUS
<1> QED
  BY <1>1, <1>2 DEF Moved

LEMMA ContributionKeepsCadence ==
  ASSUME Savings!SavingsAssumption, SavingsInv, NEW j \in DOMAIN Schedule,
         Savings!ExecuteContribution(j)
  PROVE  SavingsInv'
<1>1. PICK p \in Savings!RecurringSchedule : p = Schedule[j]
  BY DEF SavingsInv, Savings!TypeOK
<1>2. PICK a \in Nat, x \in Nat, d \in Nat, c \in Nat, next \in Nat, m \in Nat :
        /\ a = p.amount /\ x = p.executions_completed /\ d = p.interval
        /\ c = p.created_at /\ next = p.next_execution_at /\ m = p.max
  BY DEF Savings!RecurringSchedule
<1>3. PICK status : status = IF Savings!IsExhausted(p, x + 1) THEN "Exhausted" ELSE p.status
  OBVIOUS
<1>4. PICK r : r = [p EXCEPT !.executions_completed = x + 1, !.next_execution_at = next + d,
                             !.status = status]
  OBVIOUS
<1>5. /\ p.status = "Active" /\ timestamp >= next
      /\ savingsWallet[p.owner] >= a /\ savingsAllowance[p.owner] >= a
      /\ UNCHANGED <<savingsAdmin, timestamp>>
      /\ savingsWallet' = [savingsWallet EXCEPT ![p.owner] = @ - a, ![p.goal] = @ + a]
      /\ savingsAllowance' = [savingsAllowance EXCEPT ![p.owner] = @ - a]
  BY <1>1, <1>2 DEF Savings!ExecuteContribution, Savings!Due, Savings!CanPay
<1>6. Schedule' = [Schedule EXCEPT ![j] = r]
  BY <1>1, <1>2, <1>3, <1>4 DEF Savings!ExecuteContribution, Savings!NextExecution
<1>7. status \in {"Active", "Exhausted"} /\ (status = "Exhausted" <=> (m > 0 /\ x + 1 >= m))
  BY <1>2, <1>3, <1>5 DEF Savings!IsExhausted
<1>8. /\ r \in Savings!RecurringSchedule /\ r.owner = p.owner /\ r.goal = p.goal
      /\ r.amount = p.amount /\ r.executions_completed = x + 1
      /\ r.next_execution_at = next + d /\ r.status = status /\ r.created_at = c
      /\ r.interval = d /\ r.max = m
  <2>1. PICK y \in Nat, to \in Nat : y = x + 1 /\ to = next + d
    OBVIOUS
  <2>2. PICK r1 : r1 = [p EXCEPT !.executions_completed = y, !.next_execution_at = to]
    OBVIOUS
  <2>3. /\ r1 \in Savings!RecurringSchedule /\ r1.owner = p.owner /\ r1.goal = p.goal
        /\ r1.amount = p.amount /\ r1.executions_completed = y /\ r1.next_execution_at = to
        /\ r1.created_at = c /\ r1.interval = d /\ r1.max = m
    BY <1>2, <2>2 DEF Savings!RecurringSchedule
  <2>4. r = [r1 EXCEPT !.status = status]
    BY <1>4, <2>1, <2>2
  <2> QED
    BY <1>7, <2>1, <2>3, <2>4 DEF Savings!RecurringSchedule
<1>9. Cadence(r, timestamp)
  <2>1. /\ next = c + (x + 1) * d
        /\ p.status = "Exhausted" <=> (m > 0 /\ x = m)
        /\ m > 0 => x <= m
    BY <1>1, <1>2 DEF SavingsInv, Cadence
  <2>2. m > 0 => x + 1 <= m
    BY <1>5, <2>1
  <2>3. (x + 1) * d \in Nat /\ (x + 1 + 1) * d = (x + 1) * d + d
    OBVIOUS
  <2>4. c + (x + 1) * d <= timestamp
    BY <1>5, <2>1 DEF SavingsInv, Savings!TypeOK
  <2>5. next + d = c + (x + 1 + 1) * d
    BY <2>1, <2>3
  <2>6. status = "Exhausted" <=> (m > 0 /\ x + 1 = m)
    BY <1>7, <2>2
  <2> QED
    BY <1>8, <2>2, <2>4, <2>5, <2>6 DEF Cadence
<1>10. /\ p.owner \in Users /\ p.goal \in Users /\ p.owner # p.goal
       /\ savingsWallet \in [Users -> Nat] /\ savingsAllowance \in [Users -> Nat]
  BY <1>1 DEF SavingsInv, Savings!TypeOK, Savings!Ids, Savings!RecurringSchedule
<1>11. /\ savingsWallet' \in [Users -> Nat] /\ savingsAllowance' \in [Users -> Nat]
       /\ savingsWallet'[p.owner] = savingsWallet[p.owner] - a
       /\ savingsWallet'[p.goal] = savingsWallet[p.goal] + a
       /\ \A u \in Users \ {p.owner, p.goal} : savingsWallet'[u] = savingsWallet[u]
  <2>1. savingsWallet[p.owner] - a \in Nat /\ savingsAllowance[p.owner] - a \in Nat
        /\ savingsWallet[p.goal] + a \in Nat
    BY <1>5, <1>10
  <2> QED
    BY <1>5, <1>10, <2>1
<1>12. ASSUME NEW u \in Users
       PROVE  savingsWallet'[u] = savingsWallet[u] + (Moved(r, u, "in") - Moved(p, u, "in"))
                                                   - (Moved(r, u, "out") - Moved(p, u, "out"))
  <2>1. /\ Moved(r, u, "in") - Moved(p, u, "in") = IF u = p.goal THEN a ELSE 0
        /\ Moved(r, u, "out") - Moved(p, u, "out") = IF u = p.owner THEN a ELSE 0
    BY <1>2, <1>8, RunMoves
  <2>2. savingsWallet[u] \in Nat
    BY <1>10
  <2> QED
    BY <1>10, <1>11, <2>1, <2>2
<1> QED
  BY <1>1, <1>5, <1>6, <1>8, <1>9, <1>11, <1>12, ScheduleChanges

LEMMA CancellationKeepsCadence ==
  ASSUME Savings!SavingsAssumption, SavingsInv, NEW u, NEW j \in DOMAIN Schedule,
         Savings!CancelSchedule(u, j)
  PROVE  SavingsInv'
<1>1. PICK p \in Savings!RecurringSchedule : p = Schedule[j]
  BY DEF SavingsInv, Savings!TypeOK
<1>2. PICK r : r = [p EXCEPT !.status = "Cancelled"]
  OBVIOUS
<1>3. /\ r \in Savings!RecurringSchedule /\ r.owner = p.owner /\ r.goal = p.goal
      /\ r.amount = p.amount /\ r.executions_completed = p.executions_completed
      /\ r.next_execution_at = p.next_execution_at /\ r.status = "Cancelled"
      /\ r.created_at = p.created_at /\ r.interval = p.interval /\ r.max = p.max
  BY <1>2 DEF Savings!RecurringSchedule
<1>4. /\ Schedule' = [Schedule EXCEPT ![j] = r] /\ p.status = "Active"
      /\ UNCHANGED <<savingsAdmin, savingsWallet, savingsAllowance, timestamp>>
  BY <1>1, <1>2 DEF Savings!CancelSchedule
<1>5. Cadence(r, timestamp)
  BY <1>1, <1>3, <1>4 DEF SavingsInv, Cadence
<1>6. ASSUME NEW v \in Users
      PROVE  savingsWallet'[v] = savingsWallet[v] + (Moved(r, v, "in") - Moved(p, v, "in"))
                                                  - (Moved(r, v, "out") - Moved(p, v, "out"))
  <2>1. Moved(r, v, "in") = Moved(p, v, "in") /\ Moved(r, v, "out") = Moved(p, v, "out")
    BY <1>3 DEF Moved
  <2>2. Moved(p, v, "in") \in Int /\ Moved(p, v, "out") \in Int /\ savingsWallet[v] \in Int
    <3>1. Schedule \in Seq(Savings!RecurringSchedule) /\ savingsWallet[v] \in Int
      BY DEF SavingsInv, Savings!TypeOK
    <3>2. /\ j \in 1..Len(Schedule) /\ Moved(Schedule[j], v, "in") \in Int
          /\ Moved(Schedule[j], v, "out") \in Int
      BY <3>1, ScheduleFacts
    <3> QED
      BY <1>1, <3>1, <3>2
  <2> QED
    BY <1>4, <2>1, <2>2
<1>7. savingsWallet' \in [Users -> Nat] /\ savingsAllowance' \in [Users -> Nat]
  BY <1>4 DEF SavingsInv, Savings!TypeOK
<1> QED
  BY <1>1, <1>3, <1>4, <1>5, <1>6, <1>7, ScheduleChanges

LEMMA SavingsNext ==
  ASSUME Savings!SavingsAssumption, SavingsInv,
         [Savings!Next]_(Savings!vars) \/ (UNCHANGED savingsVars /\ TimePasses)
  PROVE  SavingsInv'
BY SavingsAround, CreationKeepsCadence, ContributionKeepsCadence, CancellationKeepsCadence
   DEF Savings!Next, Savings!Ids

\* However late and in whatever order the schedules are run, each is exactly on the cadence it
\* was created with, ends when and only when its maximum is reached, and what has left an owner
\* is what the counts of its schedules say (`recurring_savings.rs`).
THEOREM SchedulesStayOnCadence ==
  ASSUME Savings!SavingsAssumption
  PROVE  Savings!Spec => [](Savings!TypeOK /\ Savings!OnCadence)
<1>1. Savings!Init => SavingsInv
  BY SavingsInit
<1>2. ASSUME SavingsInv, [Savings!Next]_(Savings!vars) PROVE SavingsInv'
  BY <1>2, SavingsNext
<1>3. SavingsInv => Savings!TypeOK /\ Savings!OnCadence
  BY SavingsInvIsSafe DEF SavingsInv
<1> QED
  BY <1>1, <1>2, <1>3, PTL DEF Savings!Spec

------------------------------------------------------------------------------
\* Allowances: lists of ids.

OnceEach(s) == \A j, k \in DOMAIN s : s[j] = s[k] => j = k

LEMMA ListedAppend ==
  ASSUME NEW s \in Seq(Nat), NEW x \in Nat
  PROVE  /\ Append(s, x) \in Seq(Nat)
         /\ Allowances!Listed(Append(s, x)) = Allowances!Listed(s) \cup {x}
         /\ OnceEach(s) /\ x \notin Allowances!Listed(s) => OnceEach(Append(s, x))
<1>1. PICK t : t = Append(s, x)
  OBVIOUS
<1>2. /\ t \in Seq(Nat) /\ Len(t) = Len(s) + 1 /\ t[Len(s) + 1] = x /\ DOMAIN t = 1..(Len(s) + 1)
      /\ \A k \in 1..Len(s) : t[k] = s[k]
      /\ DOMAIN s = 1..Len(s) /\ Len(s) \in Nat
  BY <1>1
<1>3. DOMAIN t = DOMAIN s \cup {Len(s) + 1}
  BY <1>2
<1>4. Allowances!Listed(t) = Allowances!Listed(s) \cup {x}
  BY <1>2, <1>3 DEF Allowances!Listed
<1>5. OnceEach(s) /\ x \notin Allowances!Listed(s) => OnceEach(t)
  BY <1>2, <1>3 DEF Allowances!Listed, OnceEach
<1> QED
  BY <1>1, <1>2, <1>4, <1>5

\* g is the function the recursion in Without(list, x) describes.
IsKept(g, list, x, n) ==
  g = [k \in 0..n |-> IF k = 0 THEN << >>
                      ELSE IF list[k] = x THEN g[k - 1] ELSE Append(g[k - 1], list[k])]

LEMMA KeptExists ==
  ASSUME NEW list \in Seq(Nat), NEW x
  PROVE  \E g : IsKept(g, list, x, Len(list))
<1> DEFINE S == {n \in Nat : \E g : IsKept(g, list, x, n)}
<1>1. 0 \in S
  <2> DEFINE g == [i \in 0..0 |-> << >>]
  <2>1. IsKept(g, list, x, 0)
    BY DEF IsKept
  <2> QED
    BY <2>1
<1>2. ASSUME NEW n \in Nat, n \in S PROVE n + 1 \in S
  <2>1. PICK h : IsKept(h, list, x, n)
    BY <1>2
  <2> DEFINE new == IF list[n + 1] = x THEN h[n] ELSE Append(h[n], list[n + 1])
             g == [i \in 0..(n + 1) |-> IF i = n + 1 THEN new ELSE h[i]]
  <2>2. ASSUME NEW i \in 0..(n + 1)
        PROVE  g[i] = IF i = 0 THEN << >>
                      ELSE IF list[i] = x THEN g[i - 1] ELSE Append(g[i - 1], list[i])
    <3>1. CASE i = n + 1
      BY <3>1
    <3>2. CASE i # n + 1 /\ i # 0
      <4>1. i \in 0..n /\ i - 1 \in 0..n /\ i # 0
        BY <3>2
      <4>2. h[i] = IF list[i] = x THEN h[i - 1] ELSE Append(h[i - 1], list[i])
        BY <2>1, <4>1 DEF IsKept
      <4>3. g[i] = h[i] /\ g[i - 1] = h[i - 1]
        BY <3>2, <4>1
      <4> QED
        BY <4>1, <4>2, <4>3
    <3>3. CASE i = 0
      BY <3>3, <2>1 DEF IsKept
    <3> QED
      BY <3>1, <3>2, <3>3
  <2>3. IsKept(g, list, x, n + 1)
    <3> HIDE DEF new
    <3> QED
      BY <2>2 DEF IsKept
  <2> QED
    BY <2>3
<1> HIDE DEF S
<1>3. Len(list) \in S
  BY <1>1, <1>2, NatSetInduction
<1> QED
  BY <1>3 DEF S

\* An id is taken off a list, and the others stay, each as often as before.
LEMMA WithoutOne ==
  ASSUME NEW list \in Seq(Nat), OnceEach(list), NEW x \in Nat
  PROVE  /\ Allowances!Without(list, x) \in Seq(Nat)
         /\ Allowances!Listed(Allowances!Without(list, x)) = Allowances!Listed(list) \ {x}
         /\ OnceEach(Allowances!Without(list, x))
<1> DEFINE g == CHOOSE h : IsKept(h, list, x, Len(list))
<1>1. IsKept(g, list, x, Len(list))
  BY KeptExists
<1>2. Allowances!Without(list, x) = g[Len(list)]
  BY DEF Allowances!Without, IsKept
<1> HIDE DEF g
<1>3. Len(list) \in Nat /\ DOMAIN list = 1..Len(list) /\ \A i \in 1..Len(list) : list[i] \in Nat
  OBVIOUS
<1> DEFINE First(n) == {list[i] : i \in 1..n} \ {x}
           S == {n \in Nat : n <= Len(list) =>
                   g[n] \in Seq(Nat) /\ Allowances!Listed(g[n]) = First(n) /\ OnceEach(g[n])}
<1>4. 0 \in S
  <2>1. g[0] = << >>
    BY <1>1, <1>3 DEF IsKept
  <2>2. PICK empty : empty = << >>
    OBVIOUS
  <2>3. empty \in Seq(Nat) /\ Allowances!Listed(empty) = {} /\ OnceEach(empty)
    BY <2>2 DEF Allowances!Listed, OnceEach
  <2>4. First(0) = {}
    <3>1. 1..0 = {}
      OBVIOUS
    <3> QED
      BY <3>1
  <2> QED
    BY <2>1, <2>2, <2>3, <2>4
<1>5. ASSUME NEW n \in Nat, n \in S PROVE n + 1 \in S
  <2>1. SUFFICES ASSUME n + 1 <= Len(list)
                 PROVE  /\ g[n + 1] \in Seq(Nat) /\ Allowances!Listed(g[n + 1]) = First(n + 1)
                        /\ OnceEach(g[n + 1])
    OBVIOUS
  <2>2. g[n] \in Seq(Nat) /\ Allowances!Listed(g[n]) = First(n) /\ OnceEach(g[n])
    BY <1>3, <1>5, <2>1
  <2>3. g[n + 1] = IF list[n + 1] = x THEN g[n] ELSE Append(g[n], list[n + 1])
    <3>1. n + 1 \in 0..Len(list) /\ n + 1 # 0 /\ (n + 1) - 1 = n
      BY <1>3, <2>1
    <3> QED
      BY <1>1, <3>1 DEF IsKept
  <2>4. 1..(n + 1) = (1..n) \cup {n + 1} /\ n + 1 \in 1..Len(list)
    BY <1>3, <2>1
  <2>5. First(n + 1) = (First(n) \cup {list[n + 1]}) \ {x}
    BY <2>4
  <2>6. list[n + 1] \notin First(n)
    BY <1>3, <2>1, <2>4 DEF OnceEach
  <2>7. list[n + 1] \in Nat
    BY <1>3, <2>4
  <2>8. x \notin First(n)
    OBVIOUS
  <2> HIDE DEF First
  <2>9. CASE list[n + 1] = x
    BY <2>2, <2>3, <2>5, <2>8, <2>9
  <2>10. CASE list[n + 1] # x
    <3>1. PICK old \in Seq(Nat), y \in Nat : old = g[n] /\ y = list[n + 1]
      BY <2>2, <2>7
    <3>2. Allowances!Listed(old) = First(n) /\ OnceEach(old) /\ y \notin First(n) /\ y # x
      BY <2>2, <2>6, <2>10, <3>1
    <3>3. /\ Append(old, y) \in Seq(Nat) /\ OnceEach(Append(old, y))
          /\ Allowances!Listed(Append(old, y)) = First(n) \cup {y}
      BY <3>2, ListedAppend
    <3>4. g[n + 1] = Append(old, y) /\ First(n + 1) = First(n) \cup {y}
      BY <2>3, <2>5, <2>8, <2>10, <3>1, <3>2
    <3> QED
      BY <3>3, <3>4
  <2> QED
    BY <2>9, <2>10
<1>6. \A n \in Nat : n \in S
  <2> HIDE DEF S
  <2> QED
    BY <1>4, <1>5, NatSetInduction
<1>7. First(Len(list)) = Allowances!Listed(list) \ {x}
  BY <1>3 DEF Allowances!Listed
<1>8. /\ g[Len(list)] \in Seq(Nat) /\ Allowances!Listed(g[Len(list)]) = First(Len(list))
      /\ OnceEach(g[Len(list)])
  <2> HIDE DEF First
  <2> QED
    BY <1>3, <1>6
<1> QED
  BY <1>2, <1>7, <1>8

------------------------------------------------------------------------------
\* Allowances: the instants that payments settle.

\* The last instant before the next is in slot -1, whatever is more than an interval earlier in
\* a slot before.
LEMMA LatestSlot ==
  ASSUME NEW d \in Nat \ {0}, NEW x \in Int
  PROVE  /\ x < 0 /\ x >= -d => x \div d = -1
         /\ x < -d => x \div d < -1
<1>1. PICK p \in Int, r \in 0..(d - 1) : p = x \div d /\ x = d * p + r
  BY IntDivision
<1>2. p >= 0 => d * p >= 0
  OBVIOUS
<1>3. p <= -2 => d * p <= -2 * d
  OBVIOUS
<1>4. p = -1 => d * p = -d
  OBVIOUS
<1>5. p >= 0 \/ p = -1 \/ p <= -2
  OBVIOUS
<1> QED
  BY <1>1, <1>2, <1>3, <1>4, <1>5

PaymentEntry == [amount : Nat, timestamp : Nat, recipient : Users]

Slot(t, next, d) == (t - next) \div d

\* The books of one allowance.
Ledgered(a, paid) ==
  /\ Len(paid) = a.distribution_count
  /\ a.interval = 0 => /\ Len(paid) <= 1
                       /\ a.active \/ a.pending_approval => Len(paid) = 0
  /\ a.interval # 0 =>
       /\ \A k \in DOMAIN paid : paid[k].timestamp < a.next_distribution
       /\ \A j, k \in DOMAIN paid : j < k =>
            Slot(paid[j].timestamp, a.next_distribution, a.interval)
              < Slot(paid[k].timestamp, a.next_distribution, a.interval)

\* An instalment that is due settles a slot after all those that are settled.
LEMMA InstalmentLedgered ==
  ASSUME timestamp \in Nat, NEW a \in Allowances!Record, NEW paid \in Seq(PaymentEntry),
         Ledgered(a, paid), a.active, ~ a.pending_approval, timestamp >= a.next_distribution,
         NEW e \in PaymentEntry, e.timestamp = timestamp
  PROVE  /\ Ledgered(Allowances!Distributed(a), Append(paid, e))
         /\ Allowances!Distributed(a) \in Allowances!Record
<1>1. PICK from \in Nat, d \in Nat, c \in Nat, now \in Nat :
        from = a.next_distribution /\ d = a.interval /\ c = a.distribution_count
        /\ now = timestamp
  BY DEF Allowances!Record
<1>2. PICK t : t = Append(paid, e)
  OBVIOUS
<1>3. /\ t \in Seq(PaymentEntry) /\ Len(t) = Len(paid) + 1 /\ t[Len(paid) + 1] = e
      /\ DOMAIN t = DOMAIN paid \cup {Len(paid) + 1} /\ DOMAIN paid = 1..Len(paid)
      /\ Len(paid) \in Nat /\ \A k \in DOMAIN paid : t[k] = paid[k]
      /\ \A k \in DOMAIN paid : paid[k] \in PaymentEntry
  BY <1>2
<1>4. c = Len(paid)
  BY <1>1 DEF Ledgered
<1>5. CASE d = 0
  <2>1. Len(paid) = 0
    BY <1>1, <1>5 DEF Ledgered
  <2>2. PICK r : r = [a EXCEPT !.distribution_count = c + 1, !.active = FALSE,
                               !.next_distribution = 0]
    OBVIOUS
  <2>3. Allowances!Distributed(a) = r
    BY <1>1, <1>5, <2>2 DEF Allowances!Distributed
  <2>4. c + 1 = 1
    BY <1>4, <2>1
  <2>5. PICK b \in Allowances!Record : b = [a EXCEPT !.distribution_count = 1]
    BY DEF Allowances!Record
  <2>6. PICK g \in Allowances!Record : g = [b EXCEPT !.active = FALSE]
    BY DEF Allowances!Record
  <2>7. r = [g EXCEPT !.next_distribution = 0]
    BY <2>2, <2>4, <2>5, <2>6 DEF Allowances!Record
  <2>8. r \in Allowances!Record
    BY <2>7 DEF Allowances!Record
  <2>9. /\ r.distribution_count = 1 /\ r.active = FALSE /\ r.interval = a.interval
        /\ r.pending_approval = a.pending_approval
    BY <2>5, <2>6, <2>7 DEF Allowances!Record
  <2>10. ~ a.pending_approval
    OBVIOUS
  <2>11. Len(t) = 1
    BY <1>3, <2>1
  <2>12. r.interval = 0 /\ ~ r.active /\ ~ r.pending_approval
    BY <1>1, <1>5, <2>9, <2>10
  <2>13. Len(t) <= 1 /\ Len(t) = r.distribution_count
    BY <2>9, <2>11
  <2>14. Ledgered(r, t)
    BY <2>12, <2>13 DEF Ledgered
  <2> QED
    BY <1>2, <2>3, <2>8, <2>14
<1>6. CASE d # 0
  <2>1. PICK to : to = Recurring!Advanced(from, d)
    OBVIOUS
  <2>2. to \in Nat /\ now < to /\ to <= now + d /\ (to - from) % d = 0
    BY <1>1, <1>6, <2>1, AdvancedIsNext DEF Recurring!NextInstant
  <2>gap. PICK gap \in Int : gap = to - from /\ gap % d = 0
    BY <2>2
  <2>m. PICK m \in Int : m = gap \div d
    BY <1>6, IntDivision
  <2>3. to - from = d * m /\ m >= 1
    <3>1. gap = d * m + (gap % d)
      BY <1>6, <2>m, IntDivision
    <3>2. PICK w \in Int : w = d * m
      OBVIOUS
    <3>3. gap = w
      BY <2>gap, <3>1, <3>2
    <3>4. gap > 0
      BY <1>1, <2>2, <2>gap
    <3>5. m <= 0 => w <= 0
      BY <3>2
    <3> QED
      BY <2>gap, <3>2, <3>3, <3>4, <3>5
  <2>far. to >= from + d
    <3>1. PICK w \in Int : w = d * m
      OBVIOUS
    <3>2. w >= d
      BY <2>3, <3>1
    <3> QED
      BY <2>2, <2>3, <3>1, <3>2
  <2>4. PICK y \in Nat : y = c + 1
    OBVIOUS
  <2>5. PICK r : r = [a EXCEPT !.distribution_count = y, !.next_distribution = to]
    OBVIOUS
  <2>6. Allowances!Distributed(a) = r
    <3>1. to = IF from + d > timestamp THEN from + d
               ELSE from + d + ((timestamp - (from + d)) \div d + 1) * d
      BY <1>1, <2>1 DEF Recurring!Advanced
    <3> QED
      BY <1>1, <1>6, <2>4, <2>5, <3>1 DEF Allowances!Distributed
  <2>7. /\ r \in Allowances!Record /\ r.distribution_count = y /\ r.interval = d
        /\ r.next_distribution = to
    BY <1>1, <2>2, <2>5 DEF Allowances!Record
  <2>8. ASSUME NEW k \in DOMAIN paid
        PROVE  /\ paid[k].timestamp \in Nat /\ paid[k].timestamp < from
               /\ Slot(paid[k].timestamp, to, d) = Slot(paid[k].timestamp, from, d) - m
               /\ Slot(paid[k].timestamp, from, d) \in Int
               /\ Slot(paid[k].timestamp, to, d) < -1
    <3>1. PICK s \in Nat : s = paid[k].timestamp
      BY <1>3 DEF PaymentEntry
    <3>2. s < from
      BY <1>1, <1>6, <3>1 DEF Ledgered
    <3>3. PICK x \in Int, z \in Int : x = s - from /\ z = s - to
      BY <2>2
    <3>w. PICK w \in Int : w = d * m
      OBVIOUS
    <3>4. z = x - w
      <4>1. to - from = w
        BY <2>3, <3>w
      <4> QED
        BY <2>2, <3>3, <4>1
    <3>d. d \in Nat \ {0}
      BY <1>6
    <3>5. z \div d = (x \div d) - m
      <4>1. PICK p \in Int, v \in 0..(d - 1) : p = x \div d /\ x = d * p + v
        BY <3>d, IntDivision
      <4>2. PICK q \in Int : q = p - m
        OBVIOUS
      <4>3. d * q = d * p - d * m
        BY <4>2
      <4>4. PICK u \in Int : u = d * p
        OBVIOUS
      <4>5. d * q = u - w
        BY <3>w, <4>3, <4>4
      <4>6. z = d * q + v
        BY <3>4, <4>1, <4>4, <4>5
      <4>7. z \div d = q
        BY <3>d, <4>6, QuotientUnique
      <4> QED
        BY <4>1, <4>2, <4>7
    <3>int. x \div d \in Int
      BY <1>6
    <3>6. z < -d
      BY <2>2, <2>far, <3>2, <3>3
    <3>7. z \div d < -1
      BY <1>6, <3>6, LatestSlot
    <3> QED
      BY <3>1, <3>2, <3>3, <3>5, <3>int, <3>7 DEF Slot
  <2>9. Slot(e.timestamp, to, d) = -1
    <3>1. PICK z \in Int : z = now - to
      BY <2>2
    <3>2. z < 0 /\ z >= -d
      BY <2>2, <3>1
    <3>3. z \div d = -1
      BY <1>6, <3>2, LatestSlot
    <3> QED
      BY <1>1, <3>1, <3>3 DEF Slot
  <2>10. ASSUME NEW k \in DOMAIN t PROVE t[k].timestamp < to
    <3>1. CASE k \in DOMAIN paid
      <4>1. PICK x \in Nat : x = paid[k].timestamp /\ x < from
        BY <2>8, <3>1
      <4>2. x < to
        BY <2>2, <2>far, <4>1
      <4> QED
        BY <1>3, <3>1, <4>1, <4>2
    <3>2. CASE k = Len(paid) + 1
      BY <1>1, <1>3, <2>2, <3>2
    <3> QED
      BY <1>3, <3>1, <3>2
  <2>11. ASSUME NEW j \in DOMAIN t, NEW k \in DOMAIN t, j < k
         PROVE  Slot(t[j].timestamp, to, d) < Slot(t[k].timestamp, to, d)
    <3>1. j \in DOMAIN paid
      BY <1>3, <2>11
    <3>2. CASE k \in DOMAIN paid
      <4>1. Slot(paid[j].timestamp, from, d) < Slot(paid[k].timestamp, from, d)
        BY <1>1, <1>6, <2>11, <3>1, <3>2 DEF Ledgered
      <4> QED
        BY <1>3, <2>8, <3>1, <3>2, <4>1
    <3>3. CASE k = Len(paid) + 1
      BY <1>3, <2>8, <2>9, <3>1, <3>3
    <3> QED
      BY <1>3, <3>2, <3>3
  <2>12. Ledgered(r, t)
    BY <1>3, <1>4, <1>6, <2>4, <2>7, <2>10, <2>11 DEF Ledgered
  <2> QED
    BY <1>2, <2>6, <2>7, <2>12
<1> QED
  BY <1>5, <1>6

\* Who is paid, and whose list an allowance is on.
PaidTo(paid, u) == \E k \in DOMAIN paid : paid[k].recipient = u

AllowanceBooks ==
  /\ Allowances!TypeOK
  /\ AllowanceHistory \in Seq(Seq(PaymentEntry))
  /\ Approver \in Users \cup {Unset} /\ ApprovalThreshold \in Int \cup {Unset}
  /\ ApprovalThreshold # Unset => Approver # Unset
  /\ \A i \in DOMAIN Allowance : Ledgered(Allowance[i], AllowanceHistory[i])

OwnersListed ==
  /\ OwnerAllowances \in [Users -> Seq(Nat)]
  /\ \A u \in Users :
       /\ Allowances!Listed(OwnerAllowances[u]) = {i \in DOMAIN Allowance : Allowance[i].owner = u}
       /\ OnceEach(OwnerAllowances[u])

RecipientsListed ==
  /\ RecipientAllowances \in [Users -> Seq(Nat)]
  /\ \A u \in Users, i \in DOMAIN Allowance :
       Allowance[i].recipient = u \/ PaidTo(AllowanceHistory[i], u)
         => i \in Allowances!Listed(RecipientAllowances[u])

AllowancesInv == AllowanceBooks /\ OwnersListed /\ RecipientsListed

LEMMA AllowancesInvIsSafe ==
  ASSUME AllowancesInv
  PROVE  Allowances!TypeOK /\ Allowances!ListsAgree /\ Allowances!PaidOncePerSlot
<1>1. Allowances!ListsAgree
  BY DEF AllowancesInv, OwnersListed, RecipientsListed, PaidTo, OnceEach, Allowances!ListsAgree
<1>2. Allowances!PaidOncePerSlot
  <2> SUFFICES ASSUME NEW i \in DOMAIN Allowance
               PROVE  LET a == Allowance[i]
                          paid == AllowanceHistory[i]
                      IN  /\ Len(paid) = a.distribution_count
                          /\ IF a.interval = 0 THEN Len(paid) <= 1
                             ELSE \A j, k \in DOMAIN paid :
                                    j < k => Allowances!SlotOf(a, paid[j].timestamp)
                                               < Allowances!SlotOf(a, paid[k].timestamp)
    BY DEF Allowances!PaidOncePerSlot
  <2>1. Ledgered(Allowance[i], AllowanceHistory[i])
    BY DEF AllowancesInv, AllowanceBooks
  <2> QED
    BY <2>1 DEF Ledgered, Slot, Allowances!SlotOf
<1> QED
  BY <1>1, <1>2 DEF AllowancesInv, AllowanceBooks

LEMMA AllowancesInit ==
  ASSUME Allowances!AllowancesAssumption, Allowances!Init PROVE AllowancesInv
<1>1. /\ Allowance = << >> /\ AllowanceHistory = << >> /\ Approver = Unset
      /\ ApprovalThreshold = Unset /\ allowWallet = AllowanceOpening /\ timestamp = 0
      /\ OwnerAllowances = [u \in Users |-> << >>] /\ RecipientAllowances = [u \in Users |-> << >>]
  BY DEF Allowances!Init
<1>2. DOMAIN Allowance = {} /\ DOMAIN AllowanceHistory = {}
  BY <1>1
<1>3. Allowance \in Seq(Allowances!Record) /\ AllowanceHistory \in Seq(Seq(PaymentEntry))
  BY <1>1
<1>4. allowWallet \in [Users -> Nat] /\ timestamp \in Nat
  BY <1>1 DEF Allowances!AllowancesAssumption
<1>5. AllowanceBooks
  BY <1>1, <1>2, <1>3, <1>4 DEF AllowanceBooks, Allowances!TypeOK
<1>6. << >> \in Seq(Nat) /\ Allowances!Listed(<< >>) = {} /\ OnceEach(<< >>)
  BY DEF Allowances!Listed, OnceEach
<1>7. OwnersListed
  BY <1>1, <1>2, <1>6 DEF OwnersListed
<1>8. RecipientsListed
  BY <1>1, <1>2, <1>6 DEF RecipientsListed
<1> QED
  BY <1>5, <1>7, <1>8 DEF AllowancesInv

\* A change of an allowance that its books do not see.
SameBooks(b, a) ==
  /\ b \in Allowances!Record
  /\ b.interval = a.interval /\ b.next_distribution = a.next_distribution
  /\ b.distribution_count = a.distribution_count
  /\ b.active \/ b.pending_approval => a.active \/ a.pending_approval
  /\ b.pending_approval => ~ b.active /\ a.pending_approval

LEMMA BooksStand ==
  ASSUME NEW a, NEW b, NEW paid, Ledgered(a, paid), SameBooks(b, a) PROVE Ledgered(b, paid)
BY DEF Ledgered, SameBooks

LEMMA AllowanceRewritten ==
  ASSUME AllowanceBooks, NEW i \in DOMAIN Allowance, NEW b, SameBooks(b, Allowance[i]),
         Allowance' = [Allowance EXCEPT ![i] = b],
         UNCHANGED <<AllowanceHistory, Approver, ApprovalThreshold, allowWallet, timestamp>>
  PROVE  AllowanceBooks'
<1>1. PICK s, t, h : s = Allowance /\ t = Allowance' /\ h = AllowanceHistory
  OBVIOUS
<1>2. s \in Seq(Allowances!Record) /\ DOMAIN h = DOMAIN s
  BY <1>1 DEF AllowanceBooks, Allowances!TypeOK
<1>3. /\ t \in Seq(Allowances!Record) /\ DOMAIN t = DOMAIN s /\ t[i] = b
      /\ \A j \in DOMAIN s : j # i => t[j] = s[j]
  BY <1>1, <1>2 DEF SameBooks
<1>4. \A j \in DOMAIN t : Ledgered(t[j], h[j])
  BY <1>1, <1>3, BooksStand DEF AllowanceBooks
<1>5. \A j \in DOMAIN t : t[j].pending_approval => ~ t[j].active /\ Approver # Unset
  BY <1>1, <1>3 DEF AllowanceBooks, Allowances!TypeOK, SameBooks
<1>6. Allowances!TypeOK'
  BY <1>1, <1>2, <1>3, <1>5 DEF AllowanceBooks, Allowances!TypeOK
<1> QED
  BY <1>1, <1>3, <1>4, <1>6 DEF AllowanceBooks

LEMMA OwnersStand ==
  ASSUME OwnersListed, UNCHANGED OwnerAllowances, DOMAIN Allowance' = DOMAIN Allowance,
         \A i \in DOMAIN Allowance : Allowance'[i].owner = Allowance[i].owner
  PROVE  OwnersListed'
<1>1. \A u : {i \in DOMAIN Allowance' : Allowance'[i].owner = u}
               = {i \in DOMAIN Allowance : Allowance[i].owner = u}
  OBVIOUS
<1> QED
  BY <1>1 DEF OwnersListed

LEMMA RecipientsStand ==
  ASSUME RecipientsListed, UNCHANGED <<RecipientAllowances, AllowanceHistory>>,
         DOMAIN Allowance' = DOMAIN Allowance,
         \A i \in DOMAIN Allowance : Allowance'[i].recipient = Allowance[i].recipient
  PROVE  RecipientsListed'
BY DEF RecipientsListed

\* One allowance changes, its owner and its recipient stay.
LEMMA AllowanceChanges ==
  ASSUME AllowancesInv, NEW i \in DOMAIN Allowance, NEW b, SameBooks(b, Allowance[i]),
         b.owner = Allowance[i].owner, b.recipient = Allowance[i].recipient,
         Allowance' = [Allowance EXCEPT ![i] = b],
         UNCHANGED <<AllowanceHistory, Approver, ApprovalThreshold, allowWallet, timestamp,
                     OwnerAllowances, RecipientAllowances>>
  PROVE  AllowancesInv'
<1>1. AllowanceBooks'
  BY AllowanceRewritten DEF AllowancesInv
<1>2. /\ DOMAIN Allowance' = DOMAIN Allowance
      /\ \A j \in DOMAIN Allowance : /\ Allowance'[j].owner = Allowance[j].owner
                                     /\ Allowance'[j].recipient = Allowance[j].recipient
  OBVIOUS
<1>3. OwnersListed' /\ RecipientsListed'
  BY <1>2, OwnersStand, RecipientsStand DEF AllowancesInv
<1> QED
  BY <1>1, <1>3 DEF AllowancesInv

\* An active allowance waits for nobody.
LEMMA ActiveFacts ==
  ASSUME AllowancesInv, NEW i \in DOMAIN Allowance
  PROVE  /\ Allowance[i] \in Allowances!Record /\ i \in Nat
         /\ Allowance[i].active => ~ Allowance[i].pending_approval
BY DEF AllowancesInv, AllowanceBooks, Allowances!TypeOK

LEMMA ChangesKeepAllowances ==
  ASSUME Allowances!AllowancesAssumption, AllowancesInv, NEW i \in DOMAIN Allowance,
         \/ Allowances!PauseAllowance(i) \/ Allowances!ResumeAllowance(i)
         \/ Allowances!CancelAllowance(i)
         \/ \E limit \in AllowanceLimits : Allowances!SetSpendingLimit(i, limit)
         \/ \E end \in EndDates : Allowances!SetExpiration(i, end)
  PROVE  AllowancesInv'
<1> DEFINE a == Allowance[i]
<1>1. a.active /\ a \in Allowances!Record /\ ~ a.pending_approval
  BY ActiveFacts DEF Allowances!PauseAllowance, Allowances!ResumeAllowance,
    Allowances!CancelAllowance, Allowances!SetSpendingLimit, Allowances!SetExpiration,
    Allowances!Change
<1>2. \E b : /\ SameBooks(b, a) /\ b.owner = a.owner /\ b.recipient = a.recipient
             /\ Allowance' = [Allowance EXCEPT ![i] = b]
  <2>1. CASE Allowances!PauseAllowance(i)
    <3>1. PICK b : b = [a EXCEPT !.paused = TRUE]
      OBVIOUS
    <3>2. Allowance' = [Allowance EXCEPT ![i] = b]
      BY <2>1, <3>1 DEF Allowances!PauseAllowance, Allowances!Change
    <3>3. SameBooks(b, a) /\ b.owner = a.owner /\ b.recipient = a.recipient
      BY <1>1, <3>1 DEF Allowances!Record, SameBooks
    <3> QED
      BY <3>2, <3>3
  <2>2. CASE Allowances!ResumeAllowance(i)
    <3>1. PICK b : b = [a EXCEPT !.paused = FALSE]
      OBVIOUS
    <3>2. Allowance' = [Allowance EXCEPT ![i] = b]
      BY <2>2, <3>1 DEF Allowances!ResumeAllowance, Allowances!Change
    <3>3. SameBooks(b, a) /\ b.owner = a.owner /\ b.recipient = a.recipient
      BY <1>1, <3>1 DEF Allowances!Record, SameBooks
    <3> QED
      BY <3>2, <3>3
  <2>3. CASE Allowances!CancelAllowance(i)
    <3>1. PICK b : b = [a EXCEPT !.active = FALSE]
      OBVIOUS
    <3>2. Allowance' = [Allowance EXCEPT ![i] = b]
      BY <2>3, <3>1 DEF Allowances!CancelAllowance, Allowances!Change
    <3>3. SameBooks(b, a) /\ b.owner = a.owner /\ b.recipient = a.recipient
      BY <1>1, <3>1 DEF Allowances!Record, SameBooks
    <3> QED
      BY <3>2, <3>3
  <2>4. CASE \E limit \in AllowanceLimits : Allowances!SetSpendingLimit(i, limit)
    <3>1. PICK limit \in AllowanceLimits : Allowances!SetSpendingLimit(i, limit)
      BY <2>4
    <3>2. limit \in Nat
      BY <3>1 DEF Allowances!SetSpendingLimit, Allowances!AllowancesAssumption
    <3>3. PICK b : b = [a EXCEPT !.spending_limit = limit]
      OBVIOUS
    <3>4. Allowance' = [Allowance EXCEPT ![i] = b]
      BY <3>1, <3>3 DEF Allowances!SetSpendingLimit, Allowances!Change
    <3>5. SameBooks(b, a) /\ b.owner = a.owner /\ b.recipient = a.recipient
      BY <1>1, <3>2, <3>3 DEF Allowances!Record, SameBooks
    <3> QED
      BY <3>4, <3>5
  <2>5. CASE \E end \in EndDates : Allowances!SetExpiration(i, end)
    <3>1. PICK end \in EndDates : Allowances!SetExpiration(i, end)
      BY <2>5
    <3>2. end \in Nat
      BY <3>1 DEF Allowances!AllowancesAssumption
    <3>3. PICK b : b = [a EXCEPT !.end_date = end]
      OBVIOUS
    <3>4. Allowance' = [Allowance EXCEPT ![i] = b]
      BY <3>1, <3>3 DEF Allowances!SetExpiration, Allowances!Change
    <3>5. SameBooks(b, a) /\ b.owner = a.owner /\ b.recipient = a.recipient
      BY <1>1, <3>2, <3>3 DEF Allowances!Record, SameBooks
    <3> QED
      BY <3>4, <3>5
  <2> QED
    BY <2>1, <2>2, <2>3, <2>4, <2>5
<1>3. UNCHANGED <<AllowanceHistory, Approver, ApprovalThreshold, allowWallet, timestamp,
                  OwnerAllowances, RecipientAllowances>>
  BY DEF Allowances!PauseAllowance, Allowances!ResumeAllowance, Allowances!CancelAllowance,
    Allowances!SetSpendingLimit, Allowances!SetExpiration, Allowances!Change,
    Allowances!approval, Allowances!indexes
<1> QED
  BY <1>2, <1>3, AllowanceChanges

LEMMA ApprovalKeepsAllowances ==
  ASSUME AllowancesInv, NEW i \in DOMAIN Allowance, NEW u \in Users,
         Allowances!ApproveAllowance(i, u)
  PROVE  AllowancesInv'
<1>1. PICK a \in Allowances!Record : a = Allowance[i] /\ a.pending_approval
  BY ActiveFacts DEF Allowances!ApproveAllowance
<1>2. PICK b : b = [[a EXCEPT !.pending_approval = FALSE] EXCEPT !.active = TRUE]
  OBVIOUS
<1>3. SameBooks(b, a) /\ b.owner = a.owner /\ b.recipient = a.recipient
  BY <1>1, <1>2 DEF Allowances!Record, SameBooks
<1>4. Allowance' = [Allowance EXCEPT ![i] = b]
  BY <1>1, <1>2 DEF Allowances!ApproveAllowance
<1> QED
  BY <1>1, <1>3, <1>4, AllowanceChanges
     DEF Allowances!ApproveAllowance, Allowances!approval, Allowances!indexes

\* The new recipient finds the allowance on its list.
LEMMA BeneficiaryKeepsAllowances ==
  ASSUME AllowancesInv, NEW i \in DOMAIN Allowance, NEW u \in Users,
         Allowances!UpdateBeneficiary(i, u)
  PROVE  AllowancesInv'
<1>1. PICK a \in Allowances!Record : a = Allowance[i] /\ a.active /\ ~ a.pending_approval
  BY ActiveFacts DEF Allowances!UpdateBeneficiary, Allowances!Change
<1>2. PICK b : b = [a EXCEPT !.recipient = u]
  OBVIOUS
<1>3. SameBooks(b, a) /\ b.owner = a.owner /\ b.recipient = u
  BY <1>1, <1>2 DEF Allowances!Record, SameBooks
<1>4. /\ Allowance' = [Allowance EXCEPT ![i] = b]
      /\ UNCHANGED <<AllowanceHistory, Approver, ApprovalThreshold, allowWallet, timestamp,
                     OwnerAllowances>>
      /\ RecipientAllowances' = [RecipientAllowances EXCEPT ![u] = Append(RecipientAllowances[u], i)]
  BY <1>1, <1>2 DEF Allowances!UpdateBeneficiary, Allowances!Change, Allowances!approval
<1>5. AllowanceBooks'
  BY <1>1, <1>3, <1>4, AllowanceRewritten DEF AllowancesInv
<1>6. /\ DOMAIN Allowance' = DOMAIN Allowance
      /\ \A j \in DOMAIN Allowance : Allowance'[j].owner = Allowance[j].owner
  BY <1>1, <1>3, <1>4
<1>7. OwnersListed'
  BY <1>4, <1>6, OwnersStand DEF AllowancesInv
<1>8. RecipientsListed'
  <2>1. PICK l \in Seq(Nat) : l = RecipientAllowances[u]
    BY DEF AllowancesInv, RecipientsListed
  <2>2. i \in Nat
    BY ActiveFacts
  <2>3. PICK m \in Seq(Nat) :
          m = Append(l, i) /\ Allowances!Listed(m) = Allowances!Listed(l) \cup {i}
    BY <2>1, <2>2, ListedAppend
  <2>4. RecipientAllowances' = [RecipientAllowances EXCEPT ![u] = m]
    BY <1>4, <2>1, <2>3
  <2>5. RecipientAllowances' \in [Users -> Seq(Nat)]
    BY <2>4 DEF AllowancesInv, RecipientsListed
  <2>6. ASSUME NEW v \in Users, NEW j \in DOMAIN Allowance,
               Allowance'[j].recipient = v \/ PaidTo(AllowanceHistory[j], v)
        PROVE  j \in Allowances!Listed(RecipientAllowances'[v])
    <3>1. v # u => RecipientAllowances'[v] = RecipientAllowances[v]
      BY <2>4 DEF AllowancesInv, RecipientsListed
    <3>2. RecipientAllowances'[u] = m
      BY <2>4 DEF AllowancesInv, RecipientsListed
    <3>3. CASE j = i /\ v = u
      BY <2>3, <3>2, <3>3
    <3>4. CASE j # i \/ v # u
      <4>1. Allowance[j].recipient = v \/ PaidTo(AllowanceHistory[j], v)
        BY <1>3, <1>4, <2>6, <3>4
      <4>2. j \in Allowances!Listed(RecipientAllowances[v])
        BY <4>1 DEF AllowancesInv, RecipientsListed
      <4> QED
        BY <2>1, <2>3, <3>1, <3>2, <4>2
    <3> QED
      BY <3>3, <3>4
  <2> QED
    BY <1>4, <1>6, <2>5, <2>6 DEF RecipientsListed
<1> QED
  BY <1>5, <1>7, <1>8 DEF AllowancesInv

\* The old owner's list loses the allowance, the new owner's holds it once.
LEMMA TransferKeepsAllowances ==
  ASSUME AllowancesInv, NEW i \in DOMAIN Allowance, NEW u \in Users,
         Allowances!TransferOwnership(i, u)
  PROVE  AllowancesInv'
<1>1. PICK a \in Allowances!Record : a = Allowance[i] /\ a.active /\ ~ a.pending_approval
  BY ActiveFacts DEF Allowances!TransferOwnership, Allowances!Change
<1>2. PICK b : b = [a EXCEPT !.owner = u]
  OBVIOUS
<1>3. SameBooks(b, a) /\ b.owner = u /\ b.recipient = a.recipient
  BY <1>1, <1>2 DEF Allowances!Record, SameBooks
<1>4. PICK w \in Users : w = a.owner
  BY DEF Allowances!Record
<1>5. PICK left : left = [OwnerAllowances EXCEPT ![w] = Allowances!Without(OwnerAllowances[w], i)]
  OBVIOUS
<1>6. /\ Allowance' = [Allowance EXCEPT ![i] = b]
      /\ UNCHANGED <<AllowanceHistory, Approver, ApprovalThreshold, allowWallet, timestamp,
                     RecipientAllowances>>
      /\ OwnerAllowances' = [left EXCEPT ![u] = Append(left[u], i)]
  BY <1>1, <1>2, <1>4, <1>5 DEF Allowances!TransferOwnership, Allowances!Change,
     Allowances!Reowned, Allowances!approval
<1>7. AllowanceBooks'
  BY <1>1, <1>3, <1>6, AllowanceRewritten DEF AllowancesInv
<1>8. /\ DOMAIN Allowance' = DOMAIN Allowance
      /\ \A j \in DOMAIN Allowance : Allowance'[j].recipient = Allowance[j].recipient
      /\ \A j \in DOMAIN Allowance : j # i => Allowance'[j].owner = Allowance[j].owner
      /\ Allowance'[i].owner = u
  BY <1>1, <1>3, <1>6
<1>9. RecipientsListed'
  BY <1>6, <1>8, RecipientsStand DEF AllowancesInv
<1>10. OwnersListed'
  <2> DEFINE Owned(v) == {j \in DOMAIN Allowance : Allowance[j].owner = v}
  <2>1. i \in Nat
    BY ActiveFacts
  <2>2. /\ left \in [Users -> Seq(Nat)]
        /\ \A v \in Users : /\ Allowances!Listed(left[v]) = Owned(v) \ {i}
                            /\ OnceEach(left[v])
    <3>1. PICK l \in Seq(Nat) : l = OwnerAllowances[w]
      BY DEF AllowancesInv, OwnersListed
    <3>2. Allowances!Listed(l) = Owned(w) /\ OnceEach(l)
      BY <3>1 DEF AllowancesInv, OwnersListed
    <3>3. PICK m : m = Allowances!Without(l, i)
      OBVIOUS
    <3>4. m \in Seq(Nat) /\ Allowances!Listed(m) = Owned(w) \ {i} /\ OnceEach(m)
      BY <2>1, <3>2, <3>3, WithoutOne
    <3>5. left = [OwnerAllowances EXCEPT ![w] = m]
      BY <1>5, <3>1, <3>3
    <3>6. left \in [Users -> Seq(Nat)] /\ left[w] = m
          /\ \A v \in Users : v # w => left[v] = OwnerAllowances[v]
      BY <3>4, <3>5 DEF AllowancesInv, OwnersListed
    <3>7. \A v \in Users : v # w => i \notin Owned(v)
      BY <1>1, <1>4
    <3>8. ASSUME NEW v \in Users
          PROVE  Allowances!Listed(left[v]) = Owned(v) \ {i} /\ OnceEach(left[v])
      <4>1. CASE v = w
        BY <3>4, <3>6, <4>1
      <4>2. CASE v # w
        <5>1. Allowances!Listed(OwnerAllowances[v]) = Owned(v) /\ OnceEach(OwnerAllowances[v])
          BY DEF AllowancesInv, OwnersListed
        <5>2. Owned(v) = Owned(v) \ {i}
          BY <3>7, <4>2
        <5> QED
          BY <3>6, <4>2, <5>1, <5>2
      <4> QED
        BY <4>1, <4>2
    <3> QED
      BY <3>6, <3>8
  <2>3. PICK l \in Seq(Nat) : l = left[u]
    BY <2>2
  <2>4. PICK m : m = Append(l, i)
    OBVIOUS
  <2>5. m \in Seq(Nat) /\ Allowances!Listed(m) = Owned(u) \cup {i} /\ OnceEach(m)
    <3>1. Allowances!Listed(l) = Owned(u) \ {i} /\ OnceEach(l)
      BY <2>2, <2>3
    <3>2. i \notin Allowances!Listed(l)
      BY <3>1
    <3>3. m \in Seq(Nat) /\ Allowances!Listed(m) = Allowances!Listed(l) \cup {i} /\ OnceEach(m)
      BY <2>1, <2>4, <3>1, <3>2, ListedAppend
    <3> QED
      BY <3>1, <3>3
  <2>6. OwnerAllowances' = [left EXCEPT ![u] = m]
    BY <1>6, <2>3, <2>4
  <2>7. OwnerAllowances' \in [Users -> Seq(Nat)] /\ OwnerAllowances'[u] = m
        /\ \A v \in Users : v # u => OwnerAllowances'[v] = left[v]
    BY <2>2, <2>5, <2>6
  <2>8. ASSUME NEW v \in Users
        PROVE  /\ Allowances!Listed(OwnerAllowances'[v])
                    = {j \in DOMAIN Allowance' : Allowance'[j].owner = v}
               /\ OnceEach(OwnerAllowances'[v])
    <3>1. CASE v = u
      <4>1. {j \in DOMAIN Allowance' : Allowance'[j].owner = u} = Owned(u) \cup {i}
        BY <1>8
      <4> QED
        BY <2>5, <2>7, <3>1, <4>1
    <3>2. CASE v # u
      <4>1. {j \in DOMAIN Allowance' : Allowance'[j].owner = v} = Owned(v) \ {i}
        BY <1>8, <3>2
      <4> QED
        BY <2>2, <2>7, <3>2, <4>1
    <3> QED
      BY <3>1, <3>2
  <2> QED
    BY <2>7, <2>8 DEF OwnersListed
<1> QED
  BY <1>7, <1>9, <1>10 DEF AllowancesInv

\* An instalment is on the books of its allowance, and goes to one whose list holds it.
LEMMA DistributionKeepsAllowances ==
  ASSUME AllowancesInv, NEW i \in DOMAIN Allowance, Allowances!Distribute(i)
  PROVE  AllowancesInv'
<1>1. PICK a \in Allowances!Record : a = Allowance[i]
  BY ActiveFacts
<1>2. PICK e : e = [amount |-> a.amount, timestamp |-> timestamp, recipient |-> a.recipient]
  OBVIOUS
<1>3. e \in PaymentEntry /\ e.timestamp = timestamp /\ e.recipient = a.recipient /\ timestamp \in Nat
  BY <1>2 DEF AllowancesInv, AllowanceBooks, Allowances!TypeOK, Allowances!Record, PaymentEntry
<1>4. PICK h \in Seq(Seq(PaymentEntry)) : h = AllowanceHistory /\ DOMAIN h = DOMAIN Allowance
  BY DEF AllowancesInv, AllowanceBooks, Allowances!TypeOK
<1>5. PICK p \in Seq(PaymentEntry) : p = h[i]
  BY <1>4
<1>6. PICK q : q = Append(p, e)
  OBVIOUS
<1>7. PICK r : r = Allowances!Distributed(a)
  OBVIOUS
<1>8. /\ ~ a.pending_approval /\ a.active /\ timestamp >= a.next_distribution
      /\ allowWallet[a.owner] >= a.amount
      /\ allowWallet' = IF a.owner = a.recipient THEN allowWallet
                        ELSE [allowWallet EXCEPT ![a.owner] = allowWallet[a.owner] - a.amount,
                                ![a.recipient] = allowWallet[a.recipient] + a.amount]
      /\ AllowanceHistory' = [AllowanceHistory EXCEPT ![i] = q]
      /\ Allowance' = [Allowance EXCEPT ![i] = r]
      /\ UNCHANGED <<OwnerAllowances, RecipientAllowances, Approver, ApprovalThreshold, timestamp>>
  BY <1>1, <1>2, <1>4, <1>5, <1>6, <1>7 DEF Allowances!Distribute, Allowances!indexes,
    Allowances!approval
<1>9. Ledgered(a, p)
  BY <1>1, <1>4, <1>5 DEF AllowancesInv, AllowanceBooks
<1>10. Ledgered(r, q) /\ r \in Allowances!Record
  BY <1>3, <1>6, <1>7, <1>8, <1>9, InstalmentLedgered
<1>11. r.owner = a.owner /\ r.recipient = a.recipient /\ ~ r.pending_approval
  BY <1>7, <1>8 DEF Allowances!Distributed, Allowances!Record
<1>12. PICK s \in Seq(Allowances!Record) : s = Allowance
  BY DEF AllowancesInv, AllowanceBooks, Allowances!TypeOK
<1>13. PICK t : t = Allowance'
  OBVIOUS
<1>14. /\ t \in Seq(Allowances!Record) /\ DOMAIN t = DOMAIN s /\ t[i] = r
       /\ \A j \in DOMAIN s : j # i => t[j] = s[j]
  BY <1>8, <1>10, <1>12, <1>13
<1>15. PICK g : g = AllowanceHistory'
  OBVIOUS
<1>16. q \in Seq(PaymentEntry)
  BY <1>3, <1>6
<1>17. /\ g \in Seq(Seq(PaymentEntry)) /\ DOMAIN g = DOMAIN h /\ g[i] = q
       /\ \A j \in DOMAIN h : j # i => g[j] = h[j]
  BY <1>4, <1>8, <1>15, <1>16
<1>18. allowWallet' \in [Users -> Nat]
  <2>1. PICK x \in [Users -> Nat] : x = allowWallet
    BY DEF AllowancesInv, AllowanceBooks, Allowances!TypeOK
  <2>2. PICK u \in Users, v \in Users, n \in Nat :
          u = a.owner /\ v = a.recipient /\ n = a.amount /\ x[u] >= n
    BY <1>8, <2>1 DEF Allowances!Record
  <2>m. x[u] - n \in Nat /\ x[v] + n \in Nat
    <3>1. x[u] \in Nat /\ x[v] \in Nat
      OBVIOUS
    <3> QED
      BY <2>2, <3>1
  <2>3. PICK y \in Nat, z \in Nat : y = x[u] - n /\ z = x[v] + n
    BY <2>m
  <2>4. allowWallet' = x \/ allowWallet' = [x EXCEPT ![u] = y, ![v] = z]
    BY <1>8, <2>1, <2>2, <2>3
  <2> QED
    BY <2>4
<1>19. AllowanceBooks'
  <2>1. \A j \in DOMAIN t : Ledgered(t[j], g[j])
    BY <1>4, <1>10, <1>12, <1>14, <1>17 DEF AllowancesInv, AllowanceBooks
  <2>2. \A j \in DOMAIN t : t[j].pending_approval => ~ t[j].active /\ Approver # Unset
    BY <1>11, <1>12, <1>14 DEF AllowancesInv, AllowanceBooks, Allowances!TypeOK
  <2>3. DOMAIN g = DOMAIN t
    BY <1>4, <1>12, <1>14, <1>17
  <2>4. Allowances!TypeOK'
    BY <1>3, <1>8, <1>13, <1>14, <1>15, <1>18, <2>2, <2>3 DEF Allowances!TypeOK
  <2> QED
    BY <1>8, <1>13, <1>15, <1>17, <2>1, <2>4 DEF AllowancesInv, AllowanceBooks
<1>20. /\ DOMAIN t = DOMAIN s
       /\ \A j \in DOMAIN s : t[j].owner = s[j].owner /\ t[j].recipient = s[j].recipient
  BY <1>1, <1>11, <1>12, <1>14
<1>21. OwnersListed'
  BY <1>8, <1>12, <1>13, <1>20, OwnersStand DEF AllowancesInv
<1>22. RecipientsListed'
  <2> SUFFICES ASSUME NEW v \in Users, NEW j \in DOMAIN s,
                      t[j].recipient = v \/ PaidTo(g[j], v)
               PROVE  s[j].recipient = v \/ PaidTo(h[j], v)
    BY <1>4, <1>8, <1>12, <1>13, <1>15, <1>20 DEF AllowancesInv, RecipientsListed
  <2>1. CASE j # i
    BY <1>4, <1>12, <1>17, <1>20, <2>1
  <2>2. CASE j = i
    <3>1. PaidTo(q, v) => a.recipient = v \/ PaidTo(p, v)
      <4>1. /\ DOMAIN q = DOMAIN p \cup {Len(p) + 1} /\ q[Len(p) + 1] = e
            /\ \A k \in DOMAIN p : q[k] = p[k]
        BY <1>3, <1>6
      <4> QED
        BY <1>3, <4>1 DEF PaidTo
    <3> QED
      BY <1>1, <1>5, <1>12, <1>17, <1>20, <2>2, <3>1
  <2> QED
    BY <2>1, <2>2
<1> QED
  BY <1>19, <1>21, <1>22 DEF AllowancesInv

\* A new allowance is nobody's yet and has paid nothing.
LEMMA CreationKeepsAllowances ==
  ASSUME Allowances!AllowancesAssumption, AllowancesInv, NEW g \in Grants,
         Allowances!CreateAllowance(g)
  PROVE  AllowancesInv'
<1>1. g \in [owner : Users, recipient : Users, amount : Int, interval : Nat, start : Nat]
  BY DEF Allowances!AllowancesAssumption
<1>2. PICK waits \in BOOLEAN : waits = Allowances!NeedsApproval(g.amount)
  BY DEF Allowances!NeedsApproval
<1>3. PICK a : a = [owner |-> g.owner, recipient |-> g.recipient, amount |-> g.amount,
                    interval |-> g.interval, next_distribution |-> g.start,
                    distribution_count |-> 0, active |-> ~ waits, paused |-> FALSE,
                    pending_approval |-> waits, spending_limit |-> 0, end_date |-> 0]
  OBVIOUS
<1>4. g.amount > 0
  BY DEF Allowances!CreateAllowance
<1>5. /\ a \in Allowances!Record /\ a.owner = g.owner /\ a.recipient = g.recipient
      /\ a.distribution_count = 0 /\ a.active = ~ waits /\ a.pending_approval = waits
  BY <1>1, <1>2, <1>3, <1>4 DEF Allowances!Record
<1>6. PICK s \in Seq(Allowances!Record), h \in Seq(Seq(PaymentEntry)) :
        s = Allowance /\ h = AllowanceHistory /\ DOMAIN h = DOMAIN s
  BY DEF AllowancesInv, AllowanceBooks, Allowances!TypeOK
<1>7. PICK n \in Nat : n = Len(s) + 1
  BY <1>6
<1>8. PICK ou \in Users, ru \in Users : ou = g.owner /\ ru = g.recipient
  BY <1>1
<1>9. /\ Allowance' = Append(s, a) /\ AllowanceHistory' = Append(h, << >>)
      /\ OwnerAllowances' = [OwnerAllowances EXCEPT ![ou] = Append(OwnerAllowances[ou], n)]
      /\ RecipientAllowances' = [RecipientAllowances EXCEPT ![ru] = Append(RecipientAllowances[ru], n)]
      /\ UNCHANGED <<Approver, ApprovalThreshold, allowWallet, timestamp>>
  BY <1>2, <1>3, <1>6, <1>7, <1>8 DEF Allowances!CreateAllowance, Allowances!approval
<1>10. PICK t, k : t = Allowance' /\ k = AllowanceHistory'
  OBVIOUS
<1>11. /\ t \in Seq(Allowances!Record) /\ DOMAIN t = DOMAIN s \cup {n} /\ n \notin DOMAIN s
       /\ t[n] = a /\ \A j \in DOMAIN s : t[j] = s[j]
  BY <1>5, <1>6, <1>7, <1>9, <1>10
<1>12. /\ k \in Seq(Seq(PaymentEntry)) /\ DOMAIN k = DOMAIN h \cup {n}
       /\ k[n] = << >> /\ \A j \in DOMAIN h : k[j] = h[j]
  <2>1. Len(h) = Len(s) /\ << >> \in Seq(PaymentEntry)
    BY <1>6
  <2> QED
    BY <1>6, <1>7, <1>9, <1>10, <2>1
<1>13. Len(<< >>) = 0 /\ DOMAIN << >> = {}
  OBVIOUS
<1>14. AllowanceBooks'
  <2>1. Ledgered(a, << >>)
    BY <1>5, <1>13 DEF Ledgered
  <2>2. \A j \in DOMAIN t : Ledgered(t[j], k[j])
    BY <1>6, <1>11, <1>12, <2>1 DEF AllowancesInv, AllowanceBooks
  <2>3. waits => Approver # Unset
    BY <1>2 DEF Allowances!NeedsApproval, AllowancesInv, AllowanceBooks
  <2>4. \A j \in DOMAIN t : t[j].pending_approval => ~ t[j].active /\ Approver # Unset
    BY <1>5, <1>6, <1>11, <2>3 DEF AllowancesInv, AllowanceBooks, Allowances!TypeOK
  <2>5. Allowances!TypeOK'
    BY <1>6, <1>9, <1>10, <1>11, <1>12, <2>4 DEF AllowancesInv, AllowanceBooks, Allowances!TypeOK
  <2> QED
    BY <1>9, <1>10, <1>12, <2>2, <2>5 DEF AllowancesInv, AllowanceBooks
<1>15. OwnersListed'
  <2> DEFINE Owned(v) == {j \in DOMAIN Allowance : Allowance[j].owner = v}
  <2>1. PICK l \in Seq(Nat) : l = OwnerAllowances[ou]
    BY DEF AllowancesInv, OwnersListed
  <2>2. Allowances!Listed(l) = Owned(ou) /\ OnceEach(l)
    BY <2>1 DEF AllowancesInv, OwnersListed
  <2>3. n \notin Allowances!Listed(l)
    BY <1>6, <1>11, <2>2
  <2>4. PICK m : m = Append(l, n)
    OBVIOUS
  <2>5. m \in Seq(Nat) /\ Allowances!Listed(m) = Owned(ou) \cup {n} /\ OnceEach(m)
    BY <2>2, <2>3, <2>4, ListedAppend
  <2>6. OwnerAllowances' = [OwnerAllowances EXCEPT ![ou] = m]
    BY <1>9, <2>1, <2>4
  <2>7. /\ OwnerAllowances' \in [Users -> Seq(Nat)] /\ OwnerAllowances'[ou] = m
        /\ \A v \in Users : v # ou => OwnerAllowances'[v] = OwnerAllowances[v]
    BY <2>5, <2>6 DEF AllowancesInv, OwnersListed
  <2>8. ASSUME NEW v \in Users
        PROVE  /\ Allowances!Listed(OwnerAllowances'[v])
                    = {j \in DOMAIN Allowance' : Allowance'[j].owner = v}
               /\ OnceEach(OwnerAllowances'[v])
    <3>1. {j \in DOMAIN Allowance' : Allowance'[j].owner = v}
            = Owned(v) \cup (IF v = ou THEN {n} ELSE {})
      BY <1>5, <1>6, <1>8, <1>10, <1>11
    <3>2. Allowances!Listed(OwnerAllowances[v]) = Owned(v) /\ OnceEach(OwnerAllowances[v])
      BY DEF AllowancesInv, OwnersListed
    <3> QED
      BY <2>5, <2>7, <3>1, <3>2
  <2> QED
    BY <2>7, <2>8 DEF OwnersListed
<1>16. RecipientsListed'
  <2>1. PICK l \in Seq(Nat) : l = RecipientAllowances[ru]
    BY DEF AllowancesInv, RecipientsListed
  <2>2. PICK m \in Seq(Nat) : m = Append(l, n) /\ Allowances!Listed(m) = Allowances!Listed(l) \cup {n}
    BY ListedAppend
  <2>3. RecipientAllowances' = [RecipientAllowances EXCEPT ![ru] = m]
    BY <1>9, <2>1, <2>2
  <2>4. /\ RecipientAllowances' \in [Users -> Seq(Nat)] /\ RecipientAllowances'[ru] = m
        /\ \A v \in Users : v # ru => RecipientAllowances'[v] = RecipientAllowances[v]
    BY <2>3 DEF AllowancesInv, RecipientsListed
  <2>5. ASSUME NEW v \in Users, NEW j \in DOMAIN t, t[j].recipient = v \/ PaidTo(k[j], v)
        PROVE  j \in Allowances!Listed(RecipientAllowances'[v])
    <3>1. CASE j = n
      <4>1. v = ru
        BY <1>5, <1>8, <1>11, <1>12, <1>13, <2>5, <3>1 DEF PaidTo
      <4> QED
        BY <2>2, <2>4, <3>1, <4>1
    <3>2. CASE j \in DOMAIN s
      <4>1. s[j].recipient = v \/ PaidTo(h[j], v)
        BY <1>6, <1>11, <1>12, <2>5, <3>2
      <4>2. j \in Allowances!Listed(RecipientAllowances[v])
        BY <1>6, <3>2, <4>1 DEF AllowancesInv, RecipientsListed
      <4> QED
        BY <2>1, <2>2, <2>4, <4>2
    <3> QED
      BY <1>11, <3>1, <3>2
  <2> QED
    BY <1>10, <2>4, <2>5 DEF RecipientsListed
<1> QED
  BY <1>14, <1>15, <1>16 DEF AllowancesInv

\* Once there is a threshold there is an approver, and there always will be.
LEMMA ConfigKeepsAllowances ==
  ASSUME Allowances!AllowancesAssumption, AllowancesInv,
         NEW u \in Users, NEW v \in Users, NEW t \in Thresholds,
         Allowances!SetApprovalConfig(u, v, t)
  PROVE  AllowancesInv'
<1>1. v # Unset /\ t \in Int
  BY DEF Allowances!AllowancesAssumption
<1>2. /\ Approver' = v /\ ApprovalThreshold' = t
      /\ UNCHANGED <<Allowance, OwnerAllowances, RecipientAllowances, AllowanceHistory,
                     allowWallet, timestamp>>
  BY DEF Allowances!SetApprovalConfig, Allowances!indexes
<1>3. AllowanceBooks'
  BY <1>1, <1>2 DEF AllowancesInv, AllowanceBooks, Allowances!TypeOK
<1>4. OwnersListed' /\ RecipientsListed'
  BY <1>2, OwnersStand, RecipientsStand DEF AllowancesInv
<1> QED
  BY <1>3, <1>4 DEF AllowancesInv

LEMMA AllowancesWait ==
  ASSUME AllowancesInv, UNCHANGED allowanceVars, TimePasses PROVE AllowancesInv'
<1>1. timestamp' \in Nat
  BY DEF AllowancesInv, AllowanceBooks, Allowances!TypeOK, TimePasses
<1>2. UNCHANGED <<Allowance, OwnerAllowances, RecipientAllowances, AllowanceHistory, Approver,
                  ApprovalThreshold, allowWallet>>
  BY DEF allowanceVars
<1>3. AllowanceBooks'
  BY <1>1, <1>2 DEF AllowancesInv, AllowanceBooks, Allowances!TypeOK
<1>4. OwnersListed' /\ RecipientsListed'
  BY <1>2, OwnersStand, RecipientsStand DEF AllowancesInv
<1> QED
  BY <1>3, <1>4 DEF AllowancesInv

LEMMA AllowancesNext ==
  ASSUME Allowances!AllowancesAssumption, AllowancesInv,
         \/ [Allowances!Next]_(Allowances!vars)
         \/ UNCHANGED allowanceVars /\ TimePasses
  PROVE  AllowancesInv'
<1>1. CASE UNCHANGED Allowances!vars
  BY <1>1, AllowancesWait DEF Allowances!vars, allowanceVars, TimePasses
<1>2. CASE UNCHANGED allowanceVars /\ TimePasses
  BY <1>2, AllowancesWait
<1>3. CASE \E g \in Grants : Allowances!CreateAllowance(g)
  BY <1>3, CreationKeepsAllowances
<1>4. ASSUME NEW i \in DOMAIN Allowance, Allowances!Distribute(i) PROVE AllowancesInv'
  BY <1>4, DistributionKeepsAllowances
<1>5. ASSUME NEW i \in DOMAIN Allowance,
             \/ Allowances!PauseAllowance(i) \/ Allowances!ResumeAllowance(i)
             \/ Allowances!CancelAllowance(i)
             \/ \E limit \in AllowanceLimits : Allowances!SetSpendingLimit(i, limit)
             \/ \E end \in EndDates : Allowances!SetExpiration(i, end)
      PROVE AllowancesInv'
  BY <1>5, ChangesKeepAllowances
<1>6. ASSUME NEW i \in DOMAIN Allowance, NEW u \in Users,
             \/ Allowances!UpdateBeneficiary(i, u) \/ Allowances!TransferOwnership(i, u)
             \/ Allowances!ApproveAllowance(i, u)
      PROVE AllowancesInv'
  BY <1>6, BeneficiaryKeepsAllowances, TransferKeepsAllowances, ApprovalKeepsAllowances
<1>7. CASE \E u, v \in Users, t \in Thresholds : Allowances!SetApprovalConfig(u, v, t)
  BY <1>7, ConfigKeepsAllowances
<1>8. CASE Allowances!CloseLedger
  BY <1>8, AllowancesWait DEF Allowances!CloseLedger, Allowances!indexes, Allowances!approval,
     allowanceVars, TimePasses
<1> QED
  BY <1>1, <1>2, <1>3, <1>4, <1>5, <1>6, <1>7, <1>8 DEF Allowances!Next

\* However late or often an allowance is distributed, changed or turned over, no instant is paid
\* twice, a one-off is paid once, the count its limit is measured by is the number of payments,
\* and the lists of owners and recipients are right (`allowances`).
THEOREM AllowancesAreInOrder ==
  ASSUME Allowances!AllowancesAssumption
  PROVE  Allowances!Spec => [](Allowances!TypeOK /\ Allowances!ListsAgree /\ Allowances!PaidOncePerSlot)
<1>1. Allowances!Init => AllowancesInv
  BY AllowancesInit
<1>2. AllowancesInv /\ [Allowances!Next]_(Allowances!vars) => AllowancesInv'
  BY AllowancesNext
<1>3. AllowancesInv => Allowances!TypeOK /\ Allowances!ListsAgree /\ Allowances!PaidOncePerSlot
  BY AllowancesInvIsSafe
<1> QED
  BY <1>1, <1>2, <1>3, PTL DEF Allowances!Spec

------------------------------------------------------------------------------
\* The contracts side by side: a step of one leaves the others where they were, and at most
\* lets one second pass.

LEMMA StepsTakeNoTime ==
  /\ Refunds!Next => TimePasses
  /\ Conditional!Next => TimePasses
  /\ Recurring!Next => TimePasses
  /\ Savings!Next => TimePasses
  /\ Allowances!Next => TimePasses
<1>1. ASSUME Refunds!Next PROVE TimePasses
  BY <1>1 DEF Refunds!Next, Refunds!Initialize, Refunds!SetConfig, Refunds!RequestRefund,
    Refunds!ApproveRefund, Refunds!RejectRefund, Refunds!ProcessRefund, Refunds!CloseLedger,
    TimePasses
<1>2. ASSUME Conditional!Next PROVE TimePasses
  BY <1>2 DEF Conditional!Next, Conditional!Initialize, Conditional!CreatePayment,
    Conditional!Approve, Conditional!ExecutePayment, Conditional!CancelPayment,
    Conditional!Settle, Conditional!SetAllowance, Conditional!CloseLedger, TimePasses
<1>3. ASSUME Recurring!Next PROVE TimePasses
  BY <1>3 DEF Recurring!Next, Recurring!CreatePayment, Recurring!MissPayment,
    Recurring!ExecutePayment, Recurring!CancelPayment, Recurring!PausePayment,
    Recurring!ResumePayment, Recurring!CreateIncomeStream, Recurring!ProcessIncome,
    Recurring!CancelIncomeStream, Recurring!CloseLedger, TimePasses
<1>4. ASSUME Savings!Next PROVE TimePasses
  BY <1>4 DEF Savings!Next, Savings!Initialize, Savings!CreateSchedule,
    Savings!ExecuteContribution, Savings!CancelSchedule, Savings!SetAllowance,
    Savings!CloseLedger, TimePasses
<1>5. ASSUME Allowances!Next PROVE TimePasses
  BY <1>5 DEF Allowances!Next, Allowances!CreateAllowance, Allowances!Distribute,
    Allowances!PauseAllowance, Allowances!ResumeAllowance, Allowances!CancelAllowance,
    Allowances!SetSpendingLimit, Allowances!SetExpiration, Allowances!UpdateBeneficiary,
    Allowances!TransferOwnership, Allowances!Change, Allowances!SetApprovalConfig,
    Allowances!ApproveAllowance, Allowances!CloseLedger, TimePasses
<1> QED
  BY <1>1, <1>2, <1>3, <1>4, <1>5

\* A contract takes a step of its own or is left as it is.
LEMMA StepOfOne ==
  ASSUME [Next]_vars
  PROVE  /\ TimePasses
         /\ [Refunds!Next]_(Refunds!vars) \/ UNCHANGED refundsVars
         /\ [Conditional!Next]_(Conditional!vars) \/ UNCHANGED condVars
         /\ [Recurring!Next]_(Recurring!vars) \/ UNCHANGED recurVars
         /\ [Savings!Next]_(Savings!vars) \/ UNCHANGED savingsVars
         /\ [Allowances!Next]_(Allowances!vars) \/ UNCHANGED allowanceVars
         /\ [Withdrawals!Next]_(Withdrawals!vars)
         /\ [FeeEscrow!Next]_(FeeEscrow!vars)
<1>1. CASE UNCHANGED vars
  <2>1. /\ UNCHANGED timestamp /\ UNCHANGED condVars /\ UNCHANGED recurVars
        /\ UNCHANGED refundsVars /\ UNCHANGED savingsVars /\ UNCHANGED allowanceVars
    BY <1>1 DEF vars
  <2>2. UNCHANGED Withdrawals!vars
    BY <1>1 DEF vars, withdrawalVars, Withdrawals!vars, Withdrawals!settings,
                Withdrawals!requests, Withdrawals!approvals
  <2>3. UNCHANGED FeeEscrow!vars
    BY <1>1 DEF vars, feeVars, FeeEscrow!vars, FeeEscrow!configVars, FeeEscrow!statVars
  <2> QED
    BY <2>1, <2>2, <2>3 DEF TimePasses
<1>2. CASE Next
  <2>1. TimePasses
    BY <1>2, StepsTakeNoTime DEF Next, TimePasses
  <2>2. Conditional!Next \/ UNCHANGED condVars
    BY <1>2 DEF Next
  <2>3. Recurring!Next \/ UNCHANGED recurVars
    BY <1>2 DEF Next
  <2>4. [Withdrawals!Next]_(Withdrawals!vars)
    <3>1. Withdrawals!Next \/ UNCHANGED withdrawalVars
      BY <1>2 DEF Next
    <3> QED
      BY <3>1 DEF withdrawalVars, Withdrawals!vars, Withdrawals!settings,
                  Withdrawals!requests, Withdrawals!approvals
  <2>5. [FeeEscrow!Next]_(FeeEscrow!vars)
    <3>1. FeeEscrow!Next \/ UNCHANGED feeVars
      BY <1>2 DEF Next, FeeEscrow!Next
    <3> QED
      BY <3>1 DEF feeVars, FeeEscrow!vars, FeeEscrow!configVars, FeeEscrow!statVars
  <2>6. Refunds!Next \/ UNCHANGED refundsVars
    BY <1>2 DEF Next
  <2>7. Savings!Next \/ UNCHANGED savingsVars
    BY <1>2 DEF Next
  <2>8. Allowances!Next \/ UNCHANGED allowanceVars
    BY <1>2 DEF Next
  <2> QED
    BY <2>1, <2>2, <2>3, <2>4, <2>5, <2>6, <2>7, <2>8
<1> QED
  BY <1>1, <1>2

\* A second that passes elsewhere changes nothing for the conditional payments.
LEMMA ConditionalWaits ==
  ASSUME Conditional!TypeOK, UNCHANGED condVars, TimePasses
  PROVE  /\ Conditional!TypeOK' /\ UNCHANGED Conditional!Promise!vars
         /\ Conditional!SettledAsAgreed => Conditional!SettledAsAgreed'
<1>1. timestamp' \in Nat /\ timestamp' >= timestamp /\ timestamp \in Nat
  BY DEF Conditional!TypeOK, TimePasses
<1>2. UNCHANGED <<condAdmin, condPayment, ApprovalStamp, condWallet, condAllowance>>
  BY DEF condVars
<1>3. Conditional!TypeOK'
  <2>1. \A id \in Conditional!PaymentIds : condPayment[id].settled_at \in Nat
    BY RecordFacts DEF Conditional!PaymentRecord
  <2> QED
    BY <1>1, <1>2, <2>1 DEF Conditional!TypeOK, Conditional!PaymentIds
<1>4. UNCHANGED Conditional!Promise!vars
  BY <1>2 DEF Conditional!Promise!vars, Conditional!PaymentIds
<1>5. Conditional!SettledAsAgreed => Conditional!SettledAsAgreed'
  BY <1>2 DEF Conditional!SettledAsAgreed, Conditional!PaymentIds
<1> QED
  BY <1>3, <1>4, <1>5

\* The money of a conditional payment is locked until it goes to the recipient or back to the
\* payer, once, in the full amount, whatever the other contracts do meanwhile
\* (`conditional_payment.rs`).
THEOREM PaymentsKeepThePromise == Spec => ImplementsEscrow
<1>1. Init => Conditional!Promise!Init /\ Conditional!TypeOK
  <2> SUFFICES ASSUME Init PROVE Conditional!Promise!Init /\ Conditional!TypeOK
    OBVIOUS
  <2>1. Conditional!Init
    BY DEF Init
  <2>2. Conditional!PaymentIds = {} /\ condWallet = ConditionalOpening
    BY <2>1 DEF Conditional!Init, Conditional!PaymentIds
  <2> QED
    BY <2>1, <2>2, PaymentsAssumption, ConditionalInit DEF Conditional!Promise!Init
<1>2. Conditional!TypeOK /\ [Next]_vars
        => Conditional!TypeOK' /\ [Conditional!Promise!Next]_(Conditional!Promise!vars)
  BY StepOfOne, PaymentsAssumption, ConditionalTypes, ConditionalMaps, ConditionalWaits
<1> QED
  BY <1>1, <1>2, PTL DEF Spec, ImplementsEscrow, Conditional!ImplementsEscrow, Conditional!Promise!Spec

\* A second that passes elsewhere moves no schedule.
LEMMA RecurringWaits ==
  ASSUME RecurringInv, UNCHANGED recurVars, TimePasses PROVE RecurringInv' /\ OnInstants
BY AllLeftAlone DEF RecurringInv, OnInstants, recurVars, TimePasses

\* Nothing happens twice: a run of a recurring payment pays once, is counted once and uses up one
\* instant of the schedule, and no money moves without such a run; a withdrawal is executed by
\* as many different approvers as the quorum asks for, and what is locked stays
\* (`recurring-payment`, `multisig_savings_withdrawal.rs`, `escrow.rs`).
THEOREM NothingHappensTwice == Spec => NothingTwice
<1> DEFINE Inv == RecurringInv /\ WithdrawalInv /\ FeeInv /\ UnlockedAtFirst
<1>1. Init => Inv
  BY PaymentsAssumption, RecurringInit, WithdrawalInit, FeeInit
     DEF Init, FeeEscrow!Init, UnlockedAtFirst
<1>2. Inv /\ [Next]_vars => Inv' /\ OnInstants /\ ExecutedByQuorum /\ LockStep
  <2> SUFFICES ASSUME Inv, [Next]_vars PROVE Inv' /\ OnInstants /\ ExecutedByQuorum /\ LockStep
    OBVIOUS
  <2>1. RecurringInv' /\ OnInstants
    BY StepOfOne, PaymentsAssumption, RecurringNext, RecurringWaits
  <2>2. WithdrawalInv' /\ ExecutedByQuorum
    BY StepOfOne, PaymentsAssumption, WithdrawalNext, OnlyQuorumExecutes
  <2>3. FeeInv' /\ UnlockedAtFirst' /\ LockStep
    BY StepOfOne, PaymentsAssumption, FeeNext, StepKeepsLock
  <2> QED
    BY <2>1, <2>2, <2>3
<1>3. Inv => \A id \in Withdrawals!Ids :
               WithdrawalApprovalCount[id] = Withdrawals!Cardinality(Withdrawals!ApprovedBy(id))
  BY PaymentsAssumption, WithdrawalInvIsSafe
<1>4. Inv /\ [Next]_vars => /\ Inv' /\ [OnInstants]_(Recurring!vars)
                            /\ [ExecutedByQuorum]_(Withdrawals!vars) /\ [LockStep]_(FeeEscrow!vars)
  BY <1>2
<1> HIDE DEF Inv
<1> QED
  BY <1>1, <1>3, <1>4, PTL
  DEF Spec, NothingTwice, Recurring!OneRunPerInstant, OnInstants,
      Withdrawals!QuorumOfDifferentApprovers, ExecutedByQuorum, FeeEscrow!LockHolds, LockStep

\* The invariants of the contracts together.
PaymentsInv == /\ RefundsInv /\ Conditional!TypeOK /\ Conditional!SettledAsAgreed
               /\ RecurringInv /\ StreamsListed /\ SavingsInv /\ WithdrawalInv
               /\ AllowancesInv /\ FeeInv

LEMMA PaymentsInit == Init => PaymentsInv
BY PaymentsAssumption, RefundsInit, ConditionalInit, RecurringInit, StreamsInit, SavingsInit,
   WithdrawalInit, AllowancesInit, FeeInit DEF Init, PaymentsInv

LEMMA PaymentsNext == PaymentsInv /\ [Next]_vars => PaymentsInv'
<1> SUFFICES ASSUME PaymentsInv, [Next]_vars PROVE PaymentsInv'
  OBVIOUS
<1>1. RefundsInv'
  BY StepOfOne, PaymentsAssumption, RefundsNext DEF PaymentsInv
<1>2. Conditional!TypeOK' /\ Conditional!SettledAsAgreed'
  BY StepOfOne, PaymentsAssumption, ConditionalTypes, ConditionalAgreement, ConditionalWaits
     DEF PaymentsInv
<1>3. RecurringInv'
  BY StepOfOne, PaymentsAssumption, RecurringNext, RecurringWaits DEF PaymentsInv
<1>4. StreamsListed'
  BY StepOfOne, PaymentsAssumption, ListsKept DEF PaymentsInv
<1>5. SavingsInv'
  BY StepOfOne, PaymentsAssumption, SavingsNext DEF PaymentsInv
<1>6. WithdrawalInv'
  BY StepOfOne, PaymentsAssumption, WithdrawalNext DEF PaymentsInv
<1>7. AllowancesInv'
  BY StepOfOne, PaymentsAssumption, AllowancesNext DEF PaymentsInv
<1>8. FeeInv'
  BY StepOfOne, PaymentsAssumption, FeeNext DEF PaymentsInv
<1> QED
  BY <1>1, <1>2, <1>3, <1>4, <1>5, <1>6, <1>7, <1>8 DEF PaymentsInv

\* In every state of every one of the contracts each value is one that the code can store.
THEOREM PaymentsTypeCorrect == Spec => []TypesOK
<1>1. PaymentsInv => TypesOK
  BY PaymentsAssumption, RecurringTypes, WithdrawalInvIsSafe, AllowancesInvIsSafe
     DEF PaymentsInv, RefundsInv, SavingsInv, FeeInv, TypesOK
<1> QED
  BY <1>1, PaymentsInit, PaymentsNext, PTL DEF Spec

\* What was credited is what was approved, what was paid out is what was due, what is pending is
\* what was collected, and each of them once (`refunds.rs`, `conditional_payment.rs`,
\* `recurring_savings.rs`, `allowances`, `escrow.rs`).
THEOREM MoneyIsAccounted == Spec => []MoneyAccounted
<1>1. PaymentsInv => MoneyAccounted
  BY PaymentsAssumption, SameCredits, SavingsInvIsSafe, AllowancesInvIsSafe, SameBacking,
     ChargeIsBounded DEF PaymentsInv, RefundsInv, FeeInv, MoneyAccounted
<1> QED
  BY <1>1, PaymentsInit, PaymentsNext, PTL DEF Spec
================================================================================
