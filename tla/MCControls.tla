------------------------------ MODULE MCControls ------------------------------
(***************************************************************************)
(* Small instances of the contracts that keep limits, fees and allocations *)
(* without holding funds, of links and delegations, and of the project's   *)
(* token.  Like MCPayments: a behaviour exercises the contract `focus`     *)
(* names and leaves the variables of the others as they were.              *)
(***************************************************************************)
EXTENDS Sequences, Integers

CONSTANTS Contracts,      \* the contracts to exercise
          Users, Contract, Unset, I128_MAX,
          LimitsUsers, LimitsCategories, NoCategory, LimitBatches, Overrides, Spends,
          HOUR, DAY, MONTH, MIN_SPENDING_LIMIT, MAX_SPENDING_LIMIT, MAX_BATCH_SIZE,
          MaxBatches, MaxRecorded, LimitsMaxTime,
          ThrottleConfigs, MaxChecks, ThrottlingMaxTime,
          Caps, TokenAmounts,
          Assets, Priorities, Rates, Multipliers, DefaultMultipliers, Bounds, PaymentAmounts,
          Batches, MaxCollected, MaxLogs,
          FeesUsers, Treasuries, Recipients, FeeCategories, DEFAULT_CATEGORY, Percentages,
          FeesBounds, FeesAmounts, Periods, Distributions, FeesMaxCollected, MaxSnapshots,
          Owners, BudgetAssets, BudgetCategories, BudgetAmounts, Rules, BeneficiaryLists,
          Expirations, DELETION_COOLDOWN, Timeouts, DEFAULT_TIMEOUT, MaxAllocated,
          BudgetMaxTime,
          WalletAddresses, Nicknames, DelegationLimits, DelegatedAmounts, EXPIRY, CloseTimes,
          MaxNonce, WalletsMaxTime,
          CategoryNames, ReservedNames, BudgetLists, CategoryLimits, RecordedAmounts,
          RateConfigs, DefaultRate, MaxCategories, MaxSpent, RecordsMaxTime

VARIABLES focus, timestamp, Admin,
          LimitsConfig, SpendingLimit, HourlySpending, DailySpending, MonthlySpending,
          ApprovedCategories, ExceptionRule, Whitelist,
          ThrottleConfig, WalletThrottleState, ThrottledWallets, Stats,
          Paused, Minters, MintCap, BurnCap, TokenSupply, TotalMinted, TotalBurned,
          Balance, Allowance, SelfMoved,
          FeeConfig, PriorityFeeConfig, FeeBounds, AssetFeeConfig, AssetFeesCollected,
          UserAssetFeesAccrued, FeeLog, feeTotal, feeUsers,
          Settings, Treasury, FeeDistribution, FeeCategoryMap, EscrowedFees, CategoryFees,
          TotalTreasuryFees, RecipientFeesAccumulated, TreasuryFees, FeeSnapshot,
          SnapshotCount, TotalFeesCollected, UserFeesAccrued,
          TotalAllocated, Budget, BudgetAsset, UserBudget, BudgetSuspension, GlobalRules,
          UserRules, Delegation, LastActivity, InactivityTimeout, Beneficiaries,
          PendingDeletion, budgetTime,
          walletAdmin, LinkedWallet, WalletOwner, VerificationStatus, VerificationChallenge,
          linkOwner, UserWallets, profileAdmin, Profile, TotalProfiles, delegated,
          sequence, walletTime, prover, granted,
          categoryAdmin, LastCategoryId, TotalCategories, Category, CategoryByName,
          UserCategories, overdraftAdmin, CategoryBudget, BudgetUsers, RateConfig,
          RateLimitCount, rateTime, admitted, admittedBefore, configured

SpendingLimits == INSTANCE SpendingLimits WITH
  Users <- LimitsUsers, Categories <- LimitsCategories, MaxTime <- LimitsMaxTime

Throttling == INSTANCE Throttling WITH MaxTime <- ThrottlingMaxTime

Token == INSTANCE Token WITH Amounts <- TokenAmounts

StellarFee == INSTANCE StellarFee WITH
  Amounts <- PaymentAmounts, TotalFeesCollected <- feeTotal, UserFeesAccrued <- feeUsers

Fees == INSTANCE Fees WITH
  Users <- FeesUsers, Categories <- FeeCategories, Bounds <- FeesBounds,
  Amounts <- FeesAmounts, MaxCollected <- FeesMaxCollected

Budgets == INSTANCE Budget WITH
  Assets <- BudgetAssets, Categories <- BudgetCategories, Amounts <- BudgetAmounts,
  MaxTime <- BudgetMaxTime, timestamp <- budgetTime

Wallets == INSTANCE Wallets WITH
  Wallets <- WalletAddresses, Limits <- DelegationLimits, Amounts <- DelegatedAmounts,
  MaxTime <- WalletsMaxTime, Delegation <- delegated, timestamp <- walletTime

Records == INSTANCE SpendingRecords WITH
  Names <- CategoryNames, BudgetLimits <- CategoryLimits, Amounts <- RecordedAmounts,
  MaxTime <- RecordsMaxTime, timestamp <- rateTime

\* What the proofs assume of the constants.
ASSUME ControlsAssumption ==
  /\ SpendingLimits!LimitsAssumption /\ Throttling!ThrottlingAssumption
  /\ Token!TokenAssumption /\ StellarFee!StellarFeeAssumption
  /\ Fees!FeesAssumption /\ Budgets!BudgetAssumption
  /\ Wallets!WalletsAssumption /\ Records!RecordsAssumption
  /\ FeesUsers \subseteq Users

Init == /\ focus \in Contracts
        /\ SpendingLimits!Init /\ Throttling!Init /\ Token!Init
        /\ StellarFee!Init /\ Fees!Init /\ Budgets!Init
        /\ Wallets!Init /\ Records!Init

limitsVars == <<LimitsConfig, SpendingLimit, HourlySpending, DailySpending, MonthlySpending,
                ApprovedCategories, ExceptionRule, Whitelist>>
throttlingVars == <<ThrottleConfig, WalletThrottleState, ThrottledWallets, Stats>>
tokenVars == <<Paused, Minters, MintCap, BurnCap, TokenSupply, TotalMinted, TotalBurned,
               Balance, Allowance, SelfMoved>>
stellarVars == <<FeeConfig, PriorityFeeConfig, FeeBounds, AssetFeeConfig, AssetFeesCollected,
                 UserAssetFeesAccrued, FeeLog, feeTotal, feeUsers>>
feesVars == <<Settings, Treasury, FeeDistribution, FeeCategoryMap, EscrowedFees, CategoryFees,
              TotalTreasuryFees, RecipientFeesAccumulated, TreasuryFees, FeeSnapshot,
              SnapshotCount, TotalFeesCollected, UserFeesAccrued>>
budgetVars == <<TotalAllocated, Budget, BudgetAsset, UserBudget, BudgetSuspension, GlobalRules,
                UserRules, Delegation, LastActivity, InactivityTimeout, Beneficiaries,
                PendingDeletion, budgetTime>>
walletVars == <<walletAdmin, LinkedWallet, WalletOwner, VerificationStatus, VerificationChallenge,
                linkOwner, UserWallets, profileAdmin, Profile, TotalProfiles, delegated,
                sequence, walletTime, prover, granted>>
recordVars == <<categoryAdmin, LastCategoryId, TotalCategories, Category, CategoryByName,
                UserCategories, overdraftAdmin, CategoryBudget, BudgetUsers, RateConfig,
                RateLimitCount, rateTime, admitted, admittedBefore, configured>>
vars == <<focus, timestamp, Admin, limitsVars, throttlingVars, tokenVars,
          stellarVars, feesVars, budgetVars, walletVars, recordVars>>

\* The contracts of the last two modules, which have administrators of their own.
walletFoci == {"verified wallets", "linked wallets", "delegation"}
recordFoci == {"categories", "overdraft", "rate limit"}

Next ==
  /\ UNCHANGED focus
  /\ \/ focus = "limits" /\ SpendingLimits!Next
     \/ focus = "throttling" /\ Throttling!Next
     \/ focus = "token" /\ Token!Next
     \/ focus = "stellar fee" /\ StellarFee!Next
     \/ focus = "fees" /\ Fees!Next
     \/ focus = "budget" /\ (Budgets!Allocating \/ Budgets!Ruling)
     \/ focus = "budget suspension" /\ (Budgets!Allocating \/ Budgets!Limiting \/ Budgets!Suspending \/ Budgets!Transferring \/ Budgets!CloseLedger)
     \/ focus = "budget deletion" /\ (Budgets!Allocating \/ Budgets!Limiting \/ Budgets!Expiring \/ Budgets!Transferring \/ Budgets!CloseLedger)
     \/ focus = "budget inheritance" /\ (Budgets!Allocating \/ Budgets!Limiting \/ Budgets!Inheriting \/ Budgets!CloseLedger)
     \/ focus = "verified wallets" /\ Wallets!Verifying
     \/ focus = "linked wallets" /\ (Wallets!Linking \/ Wallets!Profiling)
     \/ focus = "delegation" /\ Wallets!Delegating
     \/ focus = "categories" /\ Records!Categorizing
     \/ focus = "overdraft" /\ Records!Overdrawing
     \/ focus = "rate limit" /\ Records!RateLimiting
  /\ IF focus \in {"limits", "throttling"} THEN TRUE ELSE UNCHANGED timestamp
  /\ IF focus \in walletFoci \cup recordFoci \cup {"limits"} THEN UNCHANGED Admin ELSE TRUE
  /\ IF focus = "limits" THEN TRUE ELSE UNCHANGED limitsVars
  /\ IF focus = "throttling" THEN TRUE ELSE UNCHANGED throttlingVars
  /\ IF focus = "token" THEN TRUE ELSE UNCHANGED tokenVars
  /\ IF focus = "stellar fee" THEN TRUE ELSE UNCHANGED stellarVars
  /\ IF focus = "fees" THEN TRUE ELSE UNCHANGED feesVars
  /\ IF focus \in {"budget", "budget suspension", "budget deletion", "budget inheritance"} THEN TRUE ELSE UNCHANGED budgetVars
  /\ IF focus \in walletFoci THEN TRUE ELSE UNCHANGED walletVars
  /\ IF focus \in recordFoci THEN TRUE ELSE UNCHANGED recordVars

Spec == Init /\ [][Next]_vars

\* Every value stored is one the code can store.
TypesOK == /\ focus = "limits" => SpendingLimits!TypeOK
           /\ focus = "throttling" => Throttling!TypeOK
           /\ focus = "token" => Token!TypeOK
           /\ focus = "stellar fee" => StellarFee!TypeOK
           /\ focus = "fees" => Fees!TypeOK
           /\ Budgets!TypeOK
           /\ focus \in walletFoci => Wallets!TypeOK
           /\ focus \in recordFoci => Records!TypeOK
\* Facts the contracts store twice agree: windows, the list of blocks, the books of fees,
\* verified links, links by wallet and by user, categories by number and by name.
RecordsAgree == /\ focus = "limits" => SpendingLimits!WindowsNest
                /\ focus = "throttling" => Throttling!ListMatches
                /\ focus = "stellar fee" => StellarFee!BooksAgree /\ StellarFee!FallbackLeavesNet
                /\ focus \in walletFoci => Wallets!StatusAgrees /\ Wallets!LinksAgree
                /\ focus \in recordFoci => Records!NamesAgree
\* No operation passes a block or an exhausted window (`throttling.rs`).
BlocksHold == Throttling!NothingThroughABlock
\* A step that moves tokens, fees or allocations changes totals by what it moved.
StepsKeepBooks == /\ Token!SupplyFollowsBalances
                  /\ Fees!BooksFollowUsers
                  /\ Budgets!DistributionCreatesNothing
\* What is permitted to somebody stays within what was granted: a verification signed for one
\* owner does not serve the next (`wallet.rs`), a delegate has used no more than it was granted
\* (`delegation.rs`), and a window holds its calls and no more than the limit (`rate_limit.rs`).
PermissionsHold == /\ focus \in walletFoci => Wallets!VerifiedForItsOwner /\ Wallets!WithinGrants
                   /\ focus \in recordFoci => Records!WindowsHoldTheirCalls
------------------------------------------------------------------------------
\* The values of the small instances.
CONSTANTS ann, bob, contract, car, van

MCUsers == {ann, bob}
MCAnn == {ann}

\* Limits of 3 an hour, 6 a day and 9 a month, or of 10, which
\* adapts; an invalid request sits between two for the same user.
Limits(u, m, d, h, adaptive) ==
  [user |-> u, monthly |-> m, daily |-> d, hourly |-> h, adaptive |-> adaptive]
MCLimitBatches ==
  {<<Limits(ann, 6, 6, 3, FALSE), Limits(ann, 1, 6, 3, FALSE), Limits(ann, 9, 6, 3, FALSE)>>,
   <<Limits(ann, 10, 10, 10, TRUE)>>, << >>}

ThrottleSettings(max, window, block) ==
  [max |-> max, window |-> window, block |-> block, cleanup |-> 2, enabled |-> TRUE,
   exempt |-> {}]
MCThrottleConfigs ==
  {ThrottleSettings(1, 2, 1), ThrottleSettings(1, 1, 2), ThrottleSettings(0, 1, 1)}

MCCaps == {Unset, 0, 2}

\* A tenth of the amount, or a fifth for the higher priority; the fee of 10 is
\* below, inside or above the bounds.  Multipliers set later fall, rise, or leave
\* the lower priority nothing, which only one of the two contracts accepts.
MCDefaultMultipliers == [p \in {0, 1} |-> 10000 * (p + 1)]
MCMultipliers == {[p \in {0, 1} |-> 10000 * (2 - p)], [p \in {0, 1} |-> 10000 * p],
                  [p \in {0, 1} |-> 5000 + 10000 * p]}
MCBounds == {[min |-> 2, max |-> 2], [min |-> 3, max |-> 2]}
Payment(u, asset, amount, p) ==
  [payer |-> u, asset |-> asset, amount |-> amount, priority |-> p]
MCBatches == {<<Payment(ann, "xlm", 10, 1), Payment(bob, "xlm", 10, 0)>>,
              <<Payment(ann, "usd", 10, 0), Payment(ann, "usd", 0, 0)>>}

MCFeesBounds == {[min |-> 2, max |-> 2]}
Share(r, n) == [address |-> r, share_bps |-> n]
MCDistributions == {<<Share("ops", 5000), Share("dev", 5000)>>, <<Share("ops", 5000)>>}

MCRules == {[kind |-> "MaxAmount", bound |-> 1]}
Heir(u, n) == [address |-> u, percentage |-> n]
MCBeneficiaryLists == {<< >>, <<Heir(ann, 20), Heir(bob, 40), Heir(bob, 40)>>, <<Heir(bob, 60)>>}

MCWalletAddresses == {car, van}

\* A category named twice, with a negative amount spent, a negative limit and an empty list.
Entry(n, limit, spent) == [name |-> n, limit |-> limit, spent |-> spent]
MCBudgetLists ==
  {<<Entry("food", 1, 0), Entry("food", 2, -1)>>, <<Entry("rent", -1, 0)>>, << >>}
MCCategoryLimits == {-1, 2}

\* A window of 0 among them; the warning below and beyond the limit.
Rate(max, window, warn, overspend) ==
  [max_tx |-> max, window |-> window, warn |-> warn, overspend |-> overspend]
MCRateConfigs == {Rate(2, 2, 1, FALSE), Rate(1, 3, 2, TRUE), Rate(3, 0, 1, TRUE)}
MCDefaultRate == Rate(3, 4, 2, TRUE)
===============================================================================
