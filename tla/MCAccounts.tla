------------------------------ MODULE MCAccounts ------------------------------
(***************************************************************************)
(* Small instances of the contracts that keep records about users:         *)
(* statuses, histories, batches, analytics and rewards.  Like MCPayments:  *)
(* a behaviour exercises the contract `focus` names and leaves the         *)
(* variables of the others as they were.                                   *)
(***************************************************************************)
EXTENDS Sequences, Integers

CONSTANTS ann, bob, cid, car, van, unset,
          Contracts      \* the contracts to exercise

VARIABLES focus,
          SuperAdmin, AdminList, Status, FreezeCount, statusTime, preferenceAdmin,
          UserPreferences,
          recordsAdmin, Transaction, UserTransactions, AllTransactions, TransactionCounter,
          usersAdmin, Registered, UserCount, DefaultCurrency, UserActive, UserCurrency,
          UserLastLogin, UserNickname, auditAdmin, MaxMetadataSize, AuditLog, TotalAuditLogs,
          historyAdmin, HistoryRecord, TransactionIndex, UserTransactionIndex,
          TransactionCount, archiveAdmin, ArchiveThreshold, ArchiveBatch, snapshotAdmin,
          PeriodDuration, Snapshot, TxSeq, TxAmount, ledger,
          batchAdmin, counters, Balance, UsedTokens, IsPaused, Wallet, BatchBudget, AllocatedBudget,
          BudgetCategories, BudgetSnapshot, SnapshotTimestamps, batchTime,
          analyticsAdmin, LastBatchId, BatchMetrics, TotalTxProcessed, KnownTransaction,
          TransactionStatus, Rating, LastRefundBatchId, RefundBatchMetrics, TotalRefundAmount,
          RefundedTransactions, LastBundleId, BundleResult, LogCount, Log,
          MonthlyAnalytics, TotalTrackedUsers, CurrentFeeConfig, OperationFeeConfig, FeePaused,
          code, hasNewAdmin, Version, Signers, Threshold, TimelockDelay, Pending, upgradeTime,
          rolesAdmin, UserRoles, TotalRoleAssignments, pausableAdmin, Paused,
          currencyAdmin, LastBalanceBatch, CurrencyBalance, TotalBalancesUpdated,
          TotalBatchesProcessed, callAdmin, CallWhitelist, CallStats,
          merchantAdmin, Merchant, MerchantIndex, TransactionMerchant, MerchantTransactions,
          MerchantAnalytics, TotalTagged, rewardAdmin, RewardAccount, RewardBalance,
          LifetimeEarned, RewardTransactions, milestoneAdmin, BaseRewardAmount,
          RewardMultiplier, UserMilestone,
          spendingAdmin, CurrentSpending, MonthlyTotals, complianceAdmin, MaxTransfer,
          FlaggedTransactions, FlagStatus, fraudAdmin, FraudConfig, UserDaily, Alerted, today

Users == {ann, bob}
Unset == unset

Statuses == INSTANCE AccountStatus WITH
  Users <- {ann, bob, cid}, Subscribers <- {ann},
  ReasonLengths <- {0, 2}, MAX_REASON_LEN <- 1, Expiries <- {0, 1, 2},
  EventTypes <- {"transfer", "fraud"}, Channels <- {"OnChain", "Email"},
  Masks <- {{}, {"fraud"}}, MaxFreezes <- 3, MaxUpdates <- 3, MaxTime <- 2, MaxAssignments <- 4,
  timestamp <- statusTime

Record(u, n) == [from |-> u, to |-> bob, amount |-> n, memo |-> "rent"]
Logged(u, t) == [actor |-> u, timestamp |-> t]
Registers == INSTANCE Registers WITH
  Entries <- {Record(ann, 0), Record(ann, 1), Record(bob, 1), Record(ann, 2)},
  Amounts <- {1, 2}, MIN_AMOUNT <- 1, MAX_AMOUNT <- 2, MAX_PER_USER <- 2, DUPLICATE_WINDOW <- 1,
  PageSizes <- {1, 2}, Currencies <- {"EUR", "USD"}, Nicknames <- {"one"},
  AuditBatches <- {<< >>, <<Logged(ann, 1), Logged(bob, 2)>>, <<Logged(bob, 1)>>,
                   <<Logged(ann, 1), Logged(ann, 1), Logged(ann, 1)>>},
  MetadataSizes <- {unset, 0, 1}, MAX_AUDIT_BATCH <- 2, MaxRecords <- 3, MaxLedger <- 2,
  ArchiveLists <- {<< >>, <<2, 0, 1>>, <<1, 0>>, <<2, 3>>}, ArchiveThresholds <- {0, 1, 9},
  PeriodDurations <- {0, 1, 2}, TxIds <- {"a", "b", "c"}, TxAmounts <- {-2, -1, 2, 5}

Part(u, n) == [user |-> u, amount |-> n]
Share(n, amount) == [name |-> n, amount |-> amount]
Convert(n, same) == [user |-> ann, amount |-> n, out |-> 1, same |-> same]
\* Balances from 0 to 3; a currency in two spellings and one that is refused.
Upper(spelling) == IF spelling = "usd" THEN "USD" ELSE spelling
Call(c, named, proceed) == [contract |-> c, named |-> named, proceed |-> proceed]
Ask(u, c, n, op) == [user |-> u, currency |-> c, amount |-> n, operation |-> op]
Batches == INSTANCE Batches WITH
  Spellings <- {"usd", "USD", "XLM"}, MIN_BALANCE <- 1, MAX_BALANCE <- 3,
  Requests <- {<< >>, <<Ask(ann, "usd", 2, "add"), Ask(ann, "USD", 1, "subtract")>>,
               <<Ask(ann, "USD", 3, "set"), Ask(bob, "XLM", 1, "add")>>,
               <<Ask(ann, "USD", 2, "subtract"), Ask(bob, "usd", 2, "add")>>,
               <<Ask(bob, "XLM", 1, "drop"), Ask(bob, "usd", 0, "set")>>,
               <<Ask(ann, "usd", 4, "set"), Ask(ann, "XLM", 1, "add"), Ask(bob, "USD", 3, "set")>>,
               <<Ask(bob, "USD", 1, "add"), Ask(bob, "XLM", 2, "set"), Ask(bob, "XLM", 2, "set"),
                 Ask(ann, "XLM", 1, "add")>>},
  Users <- {ann, bob, cid},
  Batches <- {<< >>, <<Part(ann, 2), Part(bob, 2)>>, <<Part(bob, 3), Part(cid, 0)>>,
              <<Part(bob, 2), Part(cid, 2)>>,
              <<Part(cid, -1), Part(bob, 1), Part(cid, 1)>>},
  RewardBatches <- {<< >>, <<Part(ann, 2), Part(bob, 1)>>, <<Part(bob, 1), Part(bob, 0)>>,
                    <<Part(bob, 3), Part(cid, 2), Part(ann, -2)>>},
  IdempotencyTokens <- {"first", "second"},
  Conversions <- {<<Convert(2, FALSE), Convert(2, FALSE), Convert(1, TRUE)>>},
  OwnerLists <- {<<ann>>, <<bob, ann>>, <<ann, ann>>},
  Recoveries <- {<<[from |-> ann, to |-> cid], [from |-> bob, to |-> ann]>>,
                 <<[from |-> bob, to |-> bob], [from |-> cid, to |-> bob]>>},
  Allocations <- {[user |-> ann, total |-> 3, parts |-> <<Share("food", 1), Share("food", 2)>>],
                  [user |-> bob, total |-> 3, parts |-> <<Share("food", 1)>>]},
  MAX_BATCH_SIZE <- 3, MIN_MINT_AMOUNT <- 1, MAX_MINT_AMOUNT <- 2,
  InitialBalance <- [u \in {ann, bob, cid} |-> 3], MaxBatches <- 3, MaxSnapshots <- 2, MaxTime <- 1,
  Allocated <- {<<Part(ann, 1), Part(bob, -1)>>, <<Part(bob, 2)>>},
  Callees <- {car, van},
  CallBatches <- {<< >>, <<Call(car, FALSE, TRUE)>>,
                  <<Call(car, TRUE, TRUE), Call(van, TRUE, FALSE), Call(car, TRUE, FALSE)>>}

\* Amounts at which the bounds of a fee bite; a tier below and one above them.
Tx(id, u, v, n, c) == [tx_id |-> id, from |-> u, to |-> v, amount |-> n, category |-> c]
Charge(model, min, max, on) == [model |-> model, min_fee |-> min, max_fee |-> max, enabled |-> on]
Flat(n) == [kind |-> "Flat", fee |-> n]
Percentage(n) == [kind |-> "Percentage", bps |-> n]
Tier(t, model) == [threshold |-> t, model |-> model]
Analytics == INSTANCE Analytics WITH
  Categories <- {"food", "rent"},
  TransactionBatches <-
             {<<Tx(1, ann, bob, 2000, "food"), Tx(2, bob, ann, 1, "rent"), Tx(1, ann, bob, 30, "food")>>,
              <<Tx(3, ann, ann, 20, "rent")>>, <<Tx(4, ann, bob, 0, "rent")>>},
  StatusBatches <- {<<[tx_id |-> 1, status |-> "Failed"], [tx_id |-> 9, status |-> "Completed"]>>,
                    <<[tx_id |-> 1, status |-> "Completed"]>>},
  RatingBatches <- {<<[tx_id |-> 3, score |-> 5], [tx_id |-> 3, score |-> 1]>>,
                    <<[tx_id |-> 1, score |-> 6]>>},
  RefundBatches <- {<<1, 2, 3>>, <<3, 5>>, <<1, 1>>, <<0>>},
  Lookups <- {[i \in {1, 2} |-> 2], [i \in {3, 5} |-> 7 - 2 * i]},
  LogBatches <- {<<1, 2>>, <<0>>}, Months <- {<<2000, 1>>, <<2000, 12>>, <<2000, 13>>},
  FeeConfigs <- {Charge(Flat(25), unset, unset, TRUE), Charge(Flat(-1), unset, 5, FALSE),
                 Charge(Percentage(10001), unset, unset, TRUE),
                 Charge(Percentage(500), 2, 50, TRUE),
                 Charge([kind |-> "Tiered", tiers |-> <<Tier(10, Flat(3)), Tier(30, Percentage(100))>>],
                        1, unset, TRUE)},
  PageSizes <- {1, 2, 3}, MAX_BATCH_SIZE <- 3, MAX_PAGE_SIZE <- 2, MaxCalls <- 3,
  Admin <- analyticsAdmin, TotalAuditLogs <- LogCount, AuditLog <- Log

Upgrade == INSTANCE Upgrade WITH
  Accounts <- {ann, bob, cid}, UpgradeAdmin <- ann, NoUpgrade <- Unset,
  Versions <- 2..3, Delays <- {0}, DEFAULT_TIMELOCK_DELAY <- 1, MaxUpgradeTime <- 1

\* For the watchers, a day in January, one of the five that fill no month, and
\* one of the next year.
In(category, n) == [category |-> category, amount |-> n]
Loyalty == INSTANCE Loyalty WITH
  Merchants <- {car, van}, Tags <- {"food"}, TxIds <- {1, 2}, Amounts <- {0, 2},
  NameLengths <- {0, 1, 2}, MAX_MERCHANT_NAME_LEN <- 1,
  TagLists <- {<< >>, <<"food", "food">>, <<"food", "food", "food">>},
  MAX_TAGS_PER_MERCHANT <- 2, MAX_QUERY_RESULTS <- 1,
  BaseRewards <- {1, 3}, Multipliers <- {-1, 0, 1, 3}, Milestones <- {0, 1, 2},
  I128_MAX <- 4, MaxTagged <- 3, MaxCredits <- 3,
  Categories <- {"food", "rent"}, Spendings <- {0, 1, 2, 4}, Limits <- {-1, 1, 3},
  SpendingBatches <- {<< >>, <<In("food", 1), In("rent", 1)>>, <<In("food", 2), In("food", 0)>>},
  FraudConfigs <- {[threshold |-> 4, max_daily |-> 2], [threshold |-> 0, max_daily |-> 1]},
  DefaultFraudConfig <- [threshold |-> 2, max_daily |-> 3],
  Days <- {29, 362, 366}, MaxRecords <- 2, MaxFlags <- 3, MaxTotals <- 2

Init == /\ focus \in Contracts
        /\ Statuses!Init /\ Registers!Init
        /\ Batches!Init /\ Analytics!Init
        /\ Upgrade!UpgradeInit /\ Loyalty!Init
        /\ focus # "upgrade" => ~hasNewAdmin     \* one initial state for each of the others

statusVars == <<SuperAdmin, AdminList, Status, FreezeCount, statusTime, preferenceAdmin,
                UserPreferences>>
registerVars == <<recordsAdmin, Transaction, UserTransactions, AllTransactions,
                  TransactionCounter, usersAdmin, Registered, UserCount, DefaultCurrency,
                  UserActive, UserCurrency, UserLastLogin, UserNickname, auditAdmin,
                  MaxMetadataSize, AuditLog, TotalAuditLogs, historyAdmin, HistoryRecord,
                  TransactionIndex, UserTransactionIndex, TransactionCount, archiveAdmin,
                  ArchiveThreshold, ArchiveBatch, snapshotAdmin, PeriodDuration, Snapshot,
                  TxSeq, TxAmount, ledger>>
batchVars == <<batchAdmin, counters, Balance, UsedTokens, IsPaused, Wallet, BatchBudget, AllocatedBudget,
               BudgetCategories, BudgetSnapshot, SnapshotTimestamps, batchTime>>
analyticsVars == <<analyticsAdmin, LastBatchId, BatchMetrics, TotalTxProcessed, KnownTransaction,
                   TransactionStatus, Rating, LastRefundBatchId, RefundBatchMetrics,
                   TotalRefundAmount, RefundedTransactions, LastBundleId, BundleResult,
                   LogCount, Log, MonthlyAnalytics, TotalTrackedUsers, CurrentFeeConfig,
                   OperationFeeConfig, FeePaused>>
upgradeVars == <<code, hasNewAdmin, Version, Signers, Threshold, TimelockDelay, Pending,
                 upgradeTime>>
roleVars == <<rolesAdmin, UserRoles, TotalRoleAssignments, pausableAdmin, Paused>>
currencyVars == <<currencyAdmin, LastBalanceBatch, CurrencyBalance, TotalBalancesUpdated,
                  TotalBatchesProcessed>>
callVars == <<callAdmin, CallWhitelist, CallStats>>
loyaltyVars == <<merchantAdmin, Merchant, MerchantIndex, TransactionMerchant,
                 MerchantTransactions, MerchantAnalytics, TotalTagged, rewardAdmin,
                 RewardAccount, RewardBalance, LifetimeEarned, RewardTransactions,
                 milestoneAdmin, BaseRewardAmount, RewardMultiplier, UserMilestone>>
monitorVars == <<spendingAdmin, CurrentSpending, MonthlyTotals, complianceAdmin, MaxTransfer,
                 FlaggedTransactions, FlagStatus, fraudAdmin, FraudConfig, UserDaily, Alerted,
                 today>>
vars == <<focus, statusVars, registerVars, batchVars, analyticsVars,
          upgradeVars, roleVars, currencyVars, callVars, loyaltyVars, monitorVars>>

\* The contracts of each module.
statusFoci == {"freezes", "preferences"}
registerFoci == {"records", "users", "audit", "history", "archive", "snapshots", "sequence"}
batchFoci == {"batch payments", "batch rewards", "batch counts", "batch wallets",
              "batch budgets", "allocation"}
analyticsFoci == {"analytics", "analytics refunds", "analytics reports", "analytics fees"}
loyaltyFoci == {"merchants", "rewards", "milestones"}
monitorFoci == {"category analytics", "compliance", "fraud"}

Next ==
  /\ UNCHANGED focus
  /\ \/ focus = "freezes" /\ Statuses!Freezing
     \/ focus = "preferences" /\ Statuses!Preferring
     \/ focus = "records" /\ Registers!Recording
     \/ focus = "users" /\ Registers!Registering
     \/ focus = "audit" /\ Registers!Auditing
     \/ focus = "history" /\ Registers!Indexing
     \/ focus = "archive" /\ Registers!Archiving
     \/ focus = "snapshots" /\ Registers!TakingSnapshots
     \/ focus = "sequence" /\ Registers!Sequencing
     \/ focus = "batch payments" /\ Batches!Paying
     \/ focus = "batch rewards" /\ Batches!Rewarding
     \/ focus = "batch counts" /\ Batches!Pausing
     \/ focus = "batch wallets" /\ Batches!CreatingWallets
     \/ focus = "batch budgets" /\ Batches!Budgeting
     \/ focus = "allocation" /\ Batches!Allocating
     \/ focus = "analytics" /\ (Analytics!Administering \/ Analytics!Processing \/ Analytics!Noting)
     \/ focus = "analytics refunds" /\ (Analytics!Administering \/ Analytics!Refunding)
     \/ focus = "analytics reports" /\ (Analytics!Administering \/ Analytics!Reporting)
     \/ focus = "analytics fees" /\ (Analytics!Administering \/ Analytics!Pricing)
     \/ focus = "upgrade" /\ (Upgrade!Configuring \/ Upgrade!Upgrading)
     \/ focus = "roles" /\ Statuses!Granting
     \/ focus = "pausable" /\ Statuses!Halting
     \/ focus = "currency wallet" /\ Batches!Updating
     \/ focus = "calls" /\ Batches!Calling
     \/ focus = "merchants" /\ Loyalty!Tagging
     \/ focus = "rewards" /\ Loyalty!Rewarding
     \/ focus = "milestones" /\ Loyalty!Distributing
     \/ focus = "category analytics" /\ Loyalty!Watching
     \/ focus = "compliance" /\ Loyalty!Flagging
     \/ focus = "fraud" /\ Loyalty!Detecting
  /\ IF focus \in statusFoci THEN TRUE ELSE UNCHANGED statusVars
  /\ IF focus \in registerFoci THEN TRUE ELSE UNCHANGED registerVars
  /\ IF focus \in batchFoci THEN TRUE ELSE UNCHANGED batchVars
  /\ IF focus \in analyticsFoci THEN TRUE ELSE UNCHANGED analyticsVars
  /\ IF focus = "upgrade" THEN TRUE ELSE UNCHANGED upgradeVars
  /\ IF focus \in {"roles", "pausable"} THEN TRUE ELSE UNCHANGED roleVars
  /\ IF focus = "currency wallet" THEN TRUE ELSE UNCHANGED currencyVars
  /\ IF focus = "calls" THEN TRUE ELSE UNCHANGED callVars
  /\ IF focus \in loyaltyFoci THEN TRUE ELSE UNCHANGED loyaltyVars
  /\ IF focus \in monitorFoci THEN TRUE ELSE UNCHANGED monitorVars

Spec == Init /\ [][Next]_vars

\* Every value stored is one the code can store.
\* The variables of the contracts a behaviour does not exercise stay as Init has them, which the
\* behaviours of those contracts check.
TypesOK ==
  /\ focus \in statusFoci => Statuses!TypeOK
  /\ focus \in registerFoci => Registers!TypeOK
  /\ focus \in batchFoci \cup {"currency wallet", "calls"} => Batches!TypeOK
  /\ focus \in analyticsFoci => Analytics!TypeOK
  /\ focus = "upgrade" => Upgrade!UpgradeAssumption /\ Upgrade!UpgradeTypeOK
  /\ focus \in {"roles", "pausable"} => Statuses!TypeOK
  /\ focus \in loyaltyFoci => Loyalty!TypeOK
  /\ focus \in monitorFoci => Loyalty!TypeOK

\* Facts the contracts store twice agree: a record and its indexes, a count and what it counts,
\* a total and its parts.
RecordsAgree ==
  /\ focus \in statusFoci => Statuses!FreezesAgree
  /\ focus \in registerFoci =>
       /\ Registers!RecordsAgree /\ Registers!PagesCover /\ Registers!NewestAgree
       /\ Registers!UsersAgree /\ Registers!KeptRecordsAgree
  /\ focus \in batchFoci \cup {"currency wallet", "calls"} =>
       /\ Batches!BatchesGoThrough /\ Batches!RewardsInFull /\ Batches!WalletsNumbered
       /\ Batches!AllocatedAddsUp /\ Batches!AllocationsAgree
       /\ Batches!BalancesSound /\ Batches!UpdatesCounted /\ Batches!CallsCounted
  /\ focus \in analyticsFoci =>
       /\ Analytics!TotalsAgree /\ Analytics!CategoriesAddUp /\ Analytics!FeesBounded
       /\ Analytics!PagesCover /\ Analytics!BundlesWhole
  /\ focus = "upgrade" => Upgrade!UpgradeSafe
  /\ focus \in {"roles", "pausable"} => Statuses!AdminHolds /\ Statuses!AssignmentsCounted
  /\ focus \in loyaltyFoci =>
       /\ Loyalty!TagsAgree /\ Loyalty!MerchantsFound /\ Loyalty!RewardsAgree
       /\ Loyalty!AtLeastBase
  /\ focus \in monitorFoci => Loyalty!MonthsAddUp /\ Loyalty!FlagsAgree

\* What is recorded for good stays: logs, archives, freezes, refunds, retirements,
\* and code that was never approved does not run.
StatusHolds == Statuses!FreezeStands /\ Statuses!MutedStaysMuted
              /\ Registers!AuditStands /\ Registers!HistoryStands /\ Registers!ArchiveStands
              /\ Analytics!RefundsStand /\ Upgrade!UpgradesApproved
              /\ Statuses!PauseStands /\ Loyalty!RetiredForGood
              /\ Loyalty!DailyAlerts
===============================================================================
