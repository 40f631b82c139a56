------------------------------ MODULE MCPayments ------------------------------
(***************************************************************************)
(* Small instances of the contracts that pay on a condition, on a schedule *)
(* or on approval.  They are deployed separately and share no storage, so  *)
(* a behaviour exercises one of them, chosen at the start (`focus`), and   *)
(* leaves the others as they were: every behaviour of every contract is    *)
(* checked and no two are interleaved in vain.                             *)
(***************************************************************************)
EXTENDS Sequences, Integers

CONSTANTS Contracts,      \* the contracts to exercise
          Users, Contract, Unset, I128_MAX, MaxTime,
          RefundTransactions, RefundAmounts, ReasonLengths, DefaultConfig, RefundConfigs,
          MaxRefunds, RefundsMaxTime,
          Offers, ConditionalOpening, ConditionalAllowances, MAX_CONDITIONS, MAX_SIGNERS,
          MaxPayments,
          PaymentOffers, StreamOffers, RecurringOpening, MaxEachRecurring, RecurringMaxTime,
          ScheduleOffers, MIN_INTERVAL_SECS, SavingsOpening, SavingsLimits, MaxSchedules,
          ApproverLists, Quorums, WithdrawalThresholds, WithdrawalAmounts, MaxWithdrawals,
          Grants, Thresholds, AllowanceLimits, EndDates, AllowanceOpening, MaxAllowances,
          MaxListed, AllowancesMaxTime,
          Treasuries, FeeRates, MinFees, MaxFees, Tiers, Fees, FeeBatches, MAX_FEE_BPS,
          DEFAULT_FEE_BPS, DEFAULT_MIN_FEE, DEFAULT_MAX_FEE, MAX_BATCH_SIZE, DECAY_FLOOR,
          OpeningWallet, MaxCycle, MaxBatchCalls, FeeMaxTime

VARIABLES focus, timestamp,
          refundsAdmin, Config, RefundRequest, ProcessedRefund, Balance,
          condAdmin, condPayment, ApprovalStamp, condWallet, condAllowance,
          recurPayment, IncomeStream, UserIncomeStreams, recurWallet,
          savingsAdmin, Schedule, savingsWallet, savingsAllowance,
          Approvers, Quorum, WithdrawalThreshold, NextWithdrawalId, WithdrawalRequest,
          WithdrawalStatus, WithdrawalApproval, WithdrawalApprovalCount,
          Allowance, OwnerAllowances, RecipientAllowances, AllowanceHistory,
          Approver, ApprovalThreshold, allowWallet,
          feeAdmin, FeeSettings, FeeLocked, feeTreasury, CurrentCycle,
          EscrowBalance, TotalCollected, TotalReleased, TotalBatchCalls,
          PendingFees, UserActivity, UserTier, feeWallet, feeTime

Refunds == INSTANCE Refunds WITH Admin <- refundsAdmin, MaxTime <- RefundsMaxTime

Conditional == INSTANCE ConditionalPayments WITH
  Admin <- condAdmin, Payment <- condPayment, wallet <- condWallet, allowance <- condAllowance,
  Opening <- ConditionalOpening, Allowances <- ConditionalAllowances

Recurring == INSTANCE RecurringPayments WITH
  Payment <- recurPayment, wallet <- recurWallet, Opening <- RecurringOpening,
  MaxEach <- MaxEachRecurring, MaxTime <- RecurringMaxTime

Savings == INSTANCE RecurringSavings WITH
  Admin <- savingsAdmin, wallet <- savingsWallet, allowance <- savingsAllowance,
  Opening <- SavingsOpening, Limits <- SavingsLimits, MaxEach <- MaxSchedules

Withdrawals == INSTANCE SavingsWithdrawals

Allowances == INSTANCE Allowances WITH
  Limits <- AllowanceLimits, Opening <- AllowanceOpening, MaxTime <- AllowancesMaxTime,
  wallet <- allowWallet

FeeEscrow == INSTANCE FeeEscrow WITH MaxTime <- FeeMaxTime

\* What the proofs assume of the constants.
ASSUME PaymentsAssumption ==
  /\ Refunds!RefundsAssumption /\ Conditional!ConditionalAssumption
  /\ Recurring!RecurringAssumption /\ Savings!SavingsAssumption
  /\ Withdrawals!WithdrawalsAssumption /\ Allowances!AllowancesAssumption
  /\ FeeEscrow!FeeAssumption

Init == /\ focus \in Contracts
        /\ Refunds!Init /\ Conditional!Init /\ Recurring!Init /\ Savings!Init
        /\ Withdrawals!Init /\ Allowances!Init /\ FeeEscrow!Init

refundsVars == <<refundsAdmin, Config, RefundRequest, ProcessedRefund, Balance>>
condVars == <<condAdmin, condPayment, ApprovalStamp, condWallet, condAllowance>>
recurVars == <<recurPayment, IncomeStream, UserIncomeStreams, recurWallet>>
savingsVars == <<savingsAdmin, Schedule, savingsWallet, savingsAllowance>>
withdrawalVars == <<Approvers, Quorum, WithdrawalThreshold, NextWithdrawalId,
                    WithdrawalRequest, WithdrawalStatus, WithdrawalApproval,
                    WithdrawalApprovalCount>>
allowanceVars == <<Allowance, OwnerAllowances, RecipientAllowances, AllowanceHistory,
                   Approver, ApprovalThreshold, allowWallet>>
feeVars == <<feeAdmin, FeeSettings, FeeLocked, feeTreasury, CurrentCycle,
             EscrowBalance, TotalCollected, TotalReleased, TotalBatchCalls,
             PendingFees, UserActivity, UserTier, feeWallet, feeTime>>
vars == <<focus, timestamp, refundsVars, condVars, recurVars, savingsVars, withdrawalVars,
          allowanceVars, feeVars>>

Next ==
  /\ UNCHANGED focus
  /\ \/ focus = "refunds" /\ Refunds!Next
     \/ focus = "conditional" /\ Conditional!Next
     \/ focus = "recurring" /\ Recurring!Next
     \/ focus = "savings" /\ Savings!Next
     \/ focus = "withdrawals" /\ Withdrawals!Next /\ UNCHANGED timestamp
     \/ focus = "allowances" /\ Allowances!Next
     \/ focus = "fee escrow" /\ (FeeEscrow!Starting \/ FeeEscrow!Collecting \/ FeeEscrow!Releasing
                                 \/ FeeEscrow!Steering \/ FeeEscrow!Tick) /\ UNCHANGED timestamp
     \/ focus = "fee settings" /\ (FeeEscrow!Starting \/ FeeEscrow!Steering \/ FeeEscrow!Configuring) /\ UNCHANGED timestamp
  /\ IF focus = "refunds" THEN TRUE ELSE UNCHANGED refundsVars
  /\ IF focus = "conditional" THEN TRUE ELSE UNCHANGED condVars
  /\ IF focus = "recurring" THEN TRUE ELSE UNCHANGED recurVars
  /\ IF focus = "savings" THEN TRUE ELSE UNCHANGED savingsVars
  /\ IF focus = "withdrawals" THEN TRUE ELSE UNCHANGED withdrawalVars
  /\ IF focus = "allowances" THEN TRUE ELSE UNCHANGED allowanceVars
  /\ IF focus \in {"fee escrow", "fee settings"} THEN TRUE ELSE UNCHANGED feeVars

Spec == Init /\ [][Next]_vars /\ Savings!Automation

\* Every value stored is one the code can store.
TypesOK == /\ Refunds!TypeOK /\ Conditional!TypeOK /\ Recurring!TypeOK /\ Savings!TypeOK
           /\ Withdrawals!TypeOK /\ Allowances!TypeOK /\ FeeEscrow!TypeOK
\* What was credited, paid out or collected is what was approved or due, once.
MoneyAccounted == /\ Refunds!CreditsMatch /\ Conditional!SettledAsAgreed /\ Savings!OnCadence
                  /\ Allowances!ListsAgree /\ Allowances!PaidOncePerSlot
                  /\ FeeEscrow!FeesBacked /\ FeeEscrow!NothingAhead /\ FeeEscrow!ChargedAtMost
\* Conditional payments are an escrow: paid or refunded, once (`conditional_payment.rs`).
ImplementsEscrow == Conditional!ImplementsEscrow
\* One run for each instant due, one execution with a quorum of different approvers, and a
\* locked setting that stays.
NothingTwice == Recurring!OneRunPerInstant /\ Withdrawals!QuorumOfDifferentApprovers /\ FeeEscrow!LockHolds
\* A schedule that is run often enough reaches the present (`recurring_savings.rs`).
CatchesUp == Savings!CatchesUp

------------------------------------------------------------------------------
\* The values of the small instances.
CONSTANTS ann, bob, contract

MCUsers == {ann, bob}

RefundConfiguration(auto, admin) ==
  [refund_window |-> 1, auto_approve |-> auto, admin_required |-> admin,
   max_reason |-> 1, enabled |-> TRUE]
MCDefaultConfig == RefundConfiguration(1, 2)
MCRefundConfigs == {[RefundConfiguration(1, 2) EXCEPT !.enabled = FALSE],
                    RefundConfiguration(0, 0)}

\* A time window, a threshold of a balance that other payments move, and a list
\* of signers that repeats one of them.
Offer(u, v, a, cs) == [payer |-> u, recipient |-> v, amount |-> a, conditions |-> cs]
After(t) == [type |-> "TimeAfter", at |-> t]
Before(t) == [type |-> "TimeBefore", at |-> t]
Above(u, n) == [type |-> "BalanceAbove", watch |-> u, threshold |-> n]
Below(u, n) == [type |-> "BalanceBelow", watch |-> u, threshold |-> n]
Signed(us, n) == [type |-> "MultiSigApproved", signers |-> us, required |-> n]
MCOffers ==
  {Offer(ann, bob, 1, <<After(1), Before(2)>>), Offer(ann, bob, 2, <<Below(bob, 1)>>),
   Offer(bob, ann, 1, <<Signed(<<ann, bob, ann>>, 2), Above(bob, 1)>>),
   Offer(bob, ann, 1, <<Signed(<<ann>>, 2)>>), Offer(ann, bob, 1, <<After(0)>>),
   Offer(ann, bob, 1, << >>)}
MCConditionalOpening ==
  [u \in {ann, bob, contract} |-> IF u = ann THEN 3 ELSE IF u = bob THEN 1 ELSE 0]

MCPaymentOffers == {[sender |-> ann, recipient |-> bob, amount |-> 1, interval |-> n,
                     start |-> t] : n \in {0, 1, 2}, t \in {0, 1}}
MCStreamOffers == {[recipient |-> bob, amount |-> 1, interval |-> n] : n \in {0, 1, 2}}
AnnHas(n) == [u \in {ann, bob} |-> IF u = ann THEN n ELSE 0]
MCRecurringOpening == AnnHas(2)

MCScheduleOffers == {[owner |-> ann, goal |-> bob, amount |-> 1, interval |-> 1, max |-> 2],
                     [owner |-> ann, goal |-> bob, amount |-> 1, interval |-> 2, max |-> 0],
                     [owner |-> bob, goal |-> ann, amount |-> 1, interval |-> 1, max |-> 1]}
MCSavingsOpening == AnnHas(3)

MCApproverLists == {<<ann, bob>>, <<bob>>, <<bob, bob>>}
MCWithdrawalThresholds == {-1, 0}

Granted(amount, interval) ==
  [owner |-> ann, recipient |-> bob, amount |-> amount, interval |-> interval, start |-> 1]
MCGrants == {Granted(1, 0), Granted(1, 2), Granted(2, 1)}
MCAllowanceOpening == AnnHas(3)

\* The floor of the decay lies between the two fees; the last treasury is the contract.
MCTreasuries == {"treasury", contract}
MCMinFees == {-1, 2}
MCFeeBatches == {<<4, 1>>, <<1, 0>>, << >>, <<1, 1, 1>>}
MCOpeningWallet == [u \in {ann, bob, contract, "treasury"} |-> IF u = bob THEN 7 ELSE 0]
===============================================================================
