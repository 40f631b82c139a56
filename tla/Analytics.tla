------------------------------- MODULE Analytics -------------------------------
(***************************************************************************)
(* The transaction-analytics contract: batches of transactions an          *)
(* administrator has measured, the statuses and ratings of the             *)
(* transactions in them, refunds, bundles, audit logs, monthly spending    *)
(* and the fee configurations the metrics use.  Events, descriptions and   *)
(* ledger numbers stored beside the results are left out.                  *)
(***************************************************************************)
EXTENDS Integers, Sequences, SequencesExt, FiniteSets, Folds, TLC

CONSTANTS Users, Unset,
          Categories,
          TransactionBatches,  \* sequences of [tx_id, from, to, amount, category]
          StatusBatches,       \* sequences of [tx_id, status]
          RatingBatches,       \* sequences of [tx_id, score]
          RefundBatches,       \* sequences of transaction ids
          Lookups,             \* functions from transaction ids to amounts, as a caller gives them
          LogBatches,          \* sequences of timestamps
          Months,              \* <<year, month>>
          FeeConfigs,          \* [model, min_fee, max_fee, enabled]
          PageSizes, MAX_BATCH_SIZE, MAX_PAGE_SIZE,
          MaxCalls             \* bounds the calls of each kind that are counted

VARIABLES Admin,
          LastBatchId, BatchMetrics, TotalTxProcessed, KnownTransaction,
          TransactionStatus, Rating,
          LastRefundBatchId, RefundBatchMetrics, TotalRefundAmount, RefundedTransactions,
          LastBundleId, BundleResult,
          TotalAuditLogs, AuditLog,
          MonthlyAnalytics, TotalTrackedUsers,
          CurrentFeeConfig, OperationFeeConfig, FeePaused
batchVars == <<LastBatchId, BatchMetrics, TotalTxProcessed, KnownTransaction>>
noteVars == <<TransactionStatus, Rating>>
refundVars == <<LastRefundBatchId, RefundBatchMetrics, TotalRefundAmount, RefundedTransactions>>
bundleVars == <<LastBundleId, BundleResult>>
auditVars == <<TotalAuditLogs, AuditLog>>
monthVars == <<MonthlyAnalytics, TotalTrackedUsers>>
feeVars == <<CurrentFeeConfig, OperationFeeConfig, FeePaused>>
vars == <<Admin, batchVars, noteVars, refundVars, bundleVars, auditVars, monthVars, feeVars>>

Nothing == [i \in {} |-> Unset]

Init == /\ Admin = Unset
        /\ LastBatchId = 0 /\ BatchMetrics = Nothing /\ TotalTxProcessed = 0
        /\ KnownTransaction = {} /\ TransactionStatus = Nothing /\ Rating = Nothing
        /\ LastRefundBatchId = 0 /\ RefundBatchMetrics = Nothing
        /\ TotalRefundAmount = 0 /\ RefundedTransactions = {}
        /\ LastBundleId = 0 /\ BundleResult = Nothing
        /\ TotalAuditLogs = 0 /\ AuditLog = Nothing
        /\ MonthlyAnalytics = Nothing /\ TotalTrackedUsers = 0
        /\ CurrentFeeConfig = Unset /\ FeePaused = FALSE
        /\ OperationFeeConfig = [c \in Categories |-> Unset]

Initialize(admin) ==
  /\ Admin = Unset
  /\ Admin' = admin
  /\ UNCHANGED <<batchVars, noteVars, refundVars, bundleVars, auditVars, monthVars, feeVars>>

RequireAdmin(caller) == Admin # Unset /\ caller = Admin

SetAdmin(caller, admin) ==
  /\ RequireAdmin(caller)
  /\ Admin' = admin
  /\ UNCHANGED <<batchVars, noteVars, refundVars, bundleVars, auditVars, monthVars, feeVars>>

SumBy(f(_), s) == FoldLeft(LAMBDA n, x : n + f(x), 0, s)
Least(f(_), s) == FoldLeft(LAMBDA n, x : IF f(x) < n THEN f(x) ELSE n, f(s[1]), s)
Greatest(f(_), s) == FoldLeft(LAMBDA n, x : IF f(x) > n THEN f(x) ELSE n, f(s[1]), s)
SizeOK(s) == Len(s) \in 1..MAX_BATCH_SIZE

------------------------------------------------------------------------------
\* Fees.

Percent(amount, bps) == (amount * bps) \div 10000

ModelFee(amount, model) == IF model.kind = "Flat" THEN model.fee ELSE Percent(amount, model.bps)

\* The last tier of the leading ones the amount reaches; the first if none.
TierFor(amount, tiers) ==
  LET reached == {n \in 1..Len(tiers) : \A i \in 1..n : amount >= tiers[i].threshold} IN
  IF reached = {} THEN tiers[1] ELSE tiers[CHOOSE n \in reached : \A k \in reached : k <= n]

CalculateTieredFee(amount, tiers) ==
  IF tiers = << >> THEN 0 ELSE ModelFee(amount, TierFor(amount, tiers).model)

ConstrainFee(fee, config) ==
  LET raised == IF config.min_fee # Unset /\ fee < config.min_fee THEN config.min_fee ELSE fee IN
  IF config.max_fee # Unset /\ raised > config.max_fee THEN config.max_fee ELSE raised

\* Whether the configuration is enabled is for the caller to ask.
CalculateTransactionFee(amount, config) ==
  LET model == config.model
      fee == ConstrainFee(IF model.kind = "Tiered" THEN CalculateTieredFee(amount, model.tiers)
                          ELSE ModelFee(amount, model), config)
  IN IF amount <= 0 THEN 0 ELSE IF fee > amount THEN amount ELSE fee

DefaultFeeConfig == [model |-> [kind |-> "Percentage", bps |-> 10], min_fee |-> 1,
                     max_fee |-> Unset, enabled |-> TRUE]
\* What the contract quotes for one amount.
QuotedFee(amount) ==
  CalculateTransactionFee(amount,
    IF CurrentFeeConfig = Unset THEN DefaultFeeConfig ELSE CurrentFeeConfig)

\* What the metrics charge: the operation's configuration, the global one, or a thousandth.
Enabled(config) == config # Unset /\ config.enabled
CalculateFee(amount, operation) ==
  IF Enabled(OperationFeeConfig[operation])
  THEN CalculateTransactionFee(amount, OperationFeeConfig[operation])
  ELSE IF Enabled(CurrentFeeConfig) THEN CalculateTransactionFee(amount, CurrentFeeConfig)
       ELSE amount \div 1000

ModelOK(model) == model.kind = "Percentage" => model.bps <= 10000
\* A flat fee may be negative.
ValidateFeeConfig(config) ==
  /\ ModelOK(config.model)
  /\ config.model.kind = "Tiered" =>
       \A i \in DOMAIN config.model.tiers :
         /\ config.model.tiers[i].threshold >= 0 /\ ModelOK(config.model.tiers[i].model)
         /\ i > 1 => config.model.tiers[i - 1].threshold <= config.model.tiers[i].threshold
  /\ config.min_fee # Unset /\ config.max_fee # Unset => config.min_fee <= config.max_fee

UpdateFeeConfig(caller, config) ==
  /\ RequireAdmin(caller)
  /\ ValidateFeeConfig(config)
  /\ CurrentFeeConfig' = config
  /\ UNCHANGED <<Admin, batchVars, noteVars, refundVars, bundleVars, auditVars, monthVars,
                 OperationFeeConfig, FeePaused>>

UpdateOperationFeeConfig(caller, operation, config) ==
  /\ RequireAdmin(caller)
  /\ ValidateFeeConfig(config)
  /\ OperationFeeConfig' = [OperationFeeConfig EXCEPT ![operation] = config]
  /\ UNCHANGED <<Admin, batchVars, noteVars, refundVars, bundleVars, auditVars, monthVars,
                 CurrentFeeConfig, FeePaused>>

\* No fee is computed differently while fees are paused.
PauseFees(caller, paused) ==
  /\ RequireAdmin(caller)
  /\ FeePaused' = paused
  /\ UNCHANGED <<Admin, batchVars, noteVars, refundVars, bundleVars, auditVars, monthVars,
                 CurrentFeeConfig, OperationFeeConfig>>

------------------------------------------------------------------------------
\* TransactionBatches of transactions, their statuses and ratings.

AmountOf(tx) == tx.amount
Ids(s) == {s[i].tx_id : i \in DOMAIN s}

ValidateTransactions(batch) == SizeOK(batch) /\ \A i \in DOMAIN batch : batch[i].amount > 0

ComputeBatchMetrics(batch) ==
  [tx_count |-> Len(batch),
   total_volume |-> SumBy(AmountOf, batch),
   avg_amount |-> SumBy(AmountOf, batch) \div Len(batch),
   min_amount |-> Least(AmountOf, batch), max_amount |-> Greatest(AmountOf, batch),
   unique_senders |-> Cardinality({batch[i].from : i \in DOMAIN batch}),
   unique_recipients |-> Cardinality({batch[i].to : i \in DOMAIN batch}),
   total_fees |-> SumBy(LAMBDA tx : CalculateFee(tx.amount, tx.category), batch)]

\* One entry for each category of the batch, found in one pass.
ComputeCategoryMetrics(batch) ==
  FoldLeft(LAMBDA m, tx :
             LET old == IF tx.category \in DOMAIN m THEN m[tx.category]
                        ELSE [tx_count |-> 0, total_volume |-> 0, total_fees |-> 0]
             IN (tx.category :>
                   [tx_count |-> old.tx_count + 1, total_volume |-> old.total_volume + tx.amount,
                    total_fees |-> old.total_fees + CalculateFee(tx.amount, tx.category)]) @@ m,
           Nothing, batch)

ProcessBatch(caller, batch) ==
  /\ RequireAdmin(caller)
  /\ ValidateTransactions(batch)
  /\ LastBatchId < MaxCalls
  /\ KnownTransaction' = KnownTransaction \cup Ids(batch)
  /\ LastBatchId' = LastBatchId + 1
  /\ TotalTxProcessed' = TotalTxProcessed + Len(batch)
  /\ BatchMetrics' = (LastBatchId' :> ComputeBatchMetrics(batch)) @@ BatchMetrics
  /\ UNCHANGED <<Admin, noteVars, refundVars, bundleVars, auditVars, monthVars, feeVars>>

\* A page is numbered from 0, a batch from 1.
GetBatchMetricsPaginated(page, size) ==
  LET page_size == IF size > MAX_PAGE_SIZE THEN MAX_PAGE_SIZE ELSE size
      start == page * page_size
      end == IF start + page_size > LastBatchId THEN LastBatchId ELSE start + page_size
  IN IF start >= LastBatchId
     THEN [ids |-> << >>, has_next |-> FALSE, has_previous |-> page > 0 /\ LastBatchId > 0]
     ELSE [ids |-> SelectSeq([i \in 1..(end - start) |-> start + i],
                             LAMBDA id : id \in DOMAIN BatchMetrics),
           has_next |-> end < LastBatchId, has_previous |-> page > 0]

\* Neither twice the same transaction nor the id 0.
DistinctIds(s) == /\ SizeOK(s) /\ 0 \notin ToSet(s)
                  /\ Cardinality(ToSet(s)) = Len(s)

UpdateTransactionStatuses(caller, updates) ==
  /\ RequireAdmin(caller)
  /\ DistinctIds([i \in DOMAIN updates |-> updates[i].tx_id])
  /\ TransactionStatus' =
       FoldLeft(LAMBDA m, u : IF u.tx_id \in KnownTransaction
                              THEN (u.tx_id :> u.status) @@ m ELSE m,
                TransactionStatus, updates)
  /\ UNCHANGED <<Admin, batchVars, Rating, refundVars, bundleVars, auditVars, monthVars, feeVars>>

\* The same transaction may be rated twice in one call; the last rating stays.
SubmitRatings(user, ratings) ==
  /\ SizeOK(ratings)
  /\ \A i \in DOMAIN ratings : ratings[i].tx_id # 0 /\ ratings[i].score \in 1..5
  /\ Rating' = FoldLeft(LAMBDA m, r : IF r.tx_id \in KnownTransaction
                                      THEN (<<r.tx_id, user>> :> r.score) @@ m ELSE m,
                        Rating, ratings)
  /\ UNCHANGED <<Admin, batchVars, TransactionStatus, refundVars, bundleVars, auditVars,
                 monthVars, feeVars>>

------------------------------------------------------------------------------
\* Refunds.

\* Transactions with an even number are taken not to be refundable.
Eligible(tx_id, refunded) == tx_id \notin refunded /\ tx_id % 2 = 1

\* What is refunded is the amount the caller says the transaction had.
ProcessRefunds(requests, lookup) ==
  FoldLeft(LAMBDA s, id :
             IF Eligible(id, s.refunded) /\ id \in DOMAIN lookup
             THEN [refunded |-> s.refunded \cup {id}, successful |-> s.successful + 1,
                   amount |-> s.amount + lookup[id]]
             ELSE s,
           [refunded |-> RefundedTransactions, successful |-> 0, amount |-> 0], requests)

ComputeRefundMetrics(requests, lookup) ==
  LET done == ProcessRefunds(requests, lookup) IN
  [request_count |-> Len(requests), successful_refunds |-> done.successful,
   failed_refunds |-> Len(requests) - done.successful,
   total_refunded_amount |-> done.amount]

RefundBatch(caller, requests, lookup) ==
  /\ RequireAdmin(caller)
  /\ DistinctIds(requests)
  /\ LastRefundBatchId < MaxCalls
  /\ LastRefundBatchId' = LastRefundBatchId + 1
  /\ RefundedTransactions' = ProcessRefunds(requests, lookup).refunded
  /\ TotalRefundAmount' =
       TotalRefundAmount + ComputeRefundMetrics(requests, lookup).total_refunded_amount
  /\ RefundBatchMetrics' =
       (LastRefundBatchId' :> ComputeRefundMetrics(requests, lookup)) @@ RefundBatchMetrics
  /\ UNCHANGED <<Admin, batchVars, noteVars, bundleVars, auditVars, monthVars, feeVars>>

------------------------------------------------------------------------------
\* Bundles, audit logs and months.

ValidateForBundle(tx) == tx.amount >= 0 /\ tx.from # tx.to

CreateBundleResult(bundle) ==
  LET valid == SelectSeq(bundle, ValidateForBundle) IN
  [total_count |-> Len(bundle), valid_count |-> Len(valid),
   invalid_count |-> Len(bundle) - Len(valid),
   can_bundle |-> Len(valid) > 0 /\ Len(valid) = Len(bundle),
   total_volume |-> SumBy(AmountOf, valid)]

BundleTransactions(caller, bundle) ==
  /\ RequireAdmin(caller)
  /\ ValidateTransactions(bundle)
  /\ \A i \in DOMAIN bundle : bundle[i].from # bundle[i].to
  /\ LastBundleId < MaxCalls
  /\ LastBundleId' = LastBundleId + 1
  /\ BundleResult' = (LastBundleId' :> CreateBundleResult(bundle)) @@ BundleResult
  /\ UNCHANGED <<Admin, batchVars, noteVars, refundVars, auditVars, monthVars, feeVars>>

BatchAuditLog(caller, logs) ==
  /\ RequireAdmin(caller)
  /\ SizeOK(logs) /\ \A i \in DOMAIN logs : logs[i] # 0
  /\ TotalAuditLogs < MaxCalls
  /\ TotalAuditLogs' = TotalAuditLogs + Len(logs)
  /\ AuditLog' = [i \in TotalAuditLogs + 1..TotalAuditLogs' |-> logs[i - TotalAuditLogs]]
                 @@ AuditLog
  /\ UNCHANGED <<Admin, batchVars, noteVars, refundVars, bundleVars, monthVars, feeVars>>

ValidateYearMonth(year, month) == year \in 2000..2100 /\ month \in 1..12

\* Only what the user sent counts.
ComputeMonthlyAnalytics(user, batch) ==
  LET sent == SelectSeq(batch, LAMBDA tx : tx.from = user) IN
  [total_spending |-> SumBy(AmountOf, sent), transaction_count |-> Len(sent),
   category_spending |-> FoldLeft(LAMBDA m, tx :
       (tx.category :> (tx.amount + IF tx.category \in DOMAIN m THEN m[tx.category] ELSE 0)) @@ m,
     Nothing, sent)]

\* A month measured again replaces what was there.  The summary whose absence
\* makes the user new is never written: the user is counted each time.
UpdateMonthlyAnalytics(caller, user, batch, year, month) ==
  /\ RequireAdmin(caller)
  /\ ValidateYearMonth(year, month)
  /\ ValidateTransactions(batch)
  /\ TotalTrackedUsers < MaxCalls
  /\ MonthlyAnalytics' =
       (<<user, year, month>> :> ComputeMonthlyAnalytics(user, batch)) @@ MonthlyAnalytics
  /\ TotalTrackedUsers' = TotalTrackedUsers + 1
  /\ UNCHANGED <<Admin, batchVars, noteVars, refundVars, bundleVars, auditVars, feeVars>>

\* Every call, in groups that a small instance can exercise one at a time.
Administering ==
  (\E u \in Users : Initialize(u)) \/ \E c, u \in Users : SetAdmin(c, u)
Processing == \E c \in Users, b \in TransactionBatches : ProcessBatch(c, b)
Noting == \/ \E c \in Users, u \in StatusBatches : UpdateTransactionStatuses(c, u)
          \/ \E u \in Users, r \in RatingBatches : SubmitRatings(u, r)
Refunding == \E c \in Users, r \in RefundBatches, l \in Lookups : RefundBatch(c, r, l)
Reporting == \/ \E c \in Users, b \in TransactionBatches : BundleTransactions(c, b)
             \/ \E c \in Users, l \in LogBatches : BatchAuditLog(c, l)
             \/ \E c, u \in Users, b \in TransactionBatches, m \in Months :
                  UpdateMonthlyAnalytics(c, u, b, m[1], m[2])
Pricing == \/ \E c \in Users, f \in FeeConfigs : UpdateFeeConfig(c, f)
           \/ \E c \in Users, o \in Categories, f \in FeeConfigs : UpdateOperationFeeConfig(c, o, f)
           \/ \E c \in Users, p \in BOOLEAN : PauseFees(c, p)

Next == Administering \/ Processing \/ Noting \/ Refunding \/ Reporting \/ Pricing

Spec == Init /\ [][Next]_vars

------------------------------------------------------------------------------
\* Every reachable state is well formed: results are numbered without gaps,
\* and only transactions of a processed batch have a status or a rating.
TypeOK ==
  /\ Admin \in Users \cup {Unset}
  /\ DOMAIN BatchMetrics = 1..LastBatchId
  /\ DOMAIN RefundBatchMetrics = 1..LastRefundBatchId
  /\ DOMAIN BundleResult = 1..LastBundleId
  /\ DOMAIN AuditLog = 1..TotalAuditLogs
  /\ DOMAIN TransactionStatus \subseteq KnownTransaction
  /\ DOMAIN Rating \subseteq KnownTransaction \X Users
  /\ RefundedTransactions \subseteq Nat

SumOver(f, v(_)) == FoldFunction(LAMBDA r, n : n + v(r), 0, f)

\* The running totals are those of the stored batches: each transaction, and
\* each refund, is counted once, and a transaction has one refund at most.
TotalsAgree ==
  /\ TotalTxProcessed = SumOver(BatchMetrics, LAMBDA m : m.tx_count)
  /\ TotalRefundAmount = SumOver(RefundBatchMetrics, LAMBDA m : m.total_refunded_amount)
  /\ Cardinality(RefundedTransactions)
       = SumOver(RefundBatchMetrics, LAMBDA m : m.successful_refunds)

\* Under whatever fees are configured, the metrics by category of a batch, found
\* in a second pass over it, add up to those of the whole batch, whose average
\* is between its extremes; and the categories of a month to its total.
CategoriesAddUp ==
  /\ \A b \in TransactionBatches : ValidateTransactions(b) =>
       LET whole == ComputeBatchMetrics(b)
           parts == ComputeCategoryMetrics(b) IN
       /\ whole.tx_count = SumOver(parts, LAMBDA m : m.tx_count)
       /\ whole.total_volume = SumOver(parts, LAMBDA m : m.total_volume)
       /\ whole.total_fees = SumOver(parts, LAMBDA m : m.total_fees)
       /\ whole.avg_amount \in whole.min_amount..whole.max_amount
  /\ \A k \in DOMAIN MonthlyAnalytics :
       MonthlyAnalytics[k].total_spending
         = SumOver(MonthlyAnalytics[k].category_spending, LAMBDA n : n)

HasNegative(model) == model.kind = "Flat" /\ model.fee < 0
MayBeNegative(config) ==
  \/ HasNegative(config.model)
  \/ config.model.kind = "Tiered" /\ \E i \in DOMAIN config.model.tiers : HasNegative(config.model.tiers[i].model)

\* No accepted configuration charges more than the amount, whatever its tiers
\* and bounds, nor less than nothing unless it has a negative flat fee.
FeesBounded ==
  \A b \in TransactionBatches : \A i \in DOMAIN b :
    LET n == b[i].amount
        fees == {QuotedFee(n), CalculateFee(n, b[i].category)}
        configs == ({CurrentFeeConfig} \cup {OperationFeeConfig[c] : c \in Categories}) \ {Unset}
    IN n > 0 => \A fee \in fees : /\ fee <= n
                                  /\ (\A f \in configs : ~MayBeNegative(f)) => fee >= 0

\* Whatever the page size, the pages that a reader follows by has_next show
\* every batch once, in order.
PagesCover ==
  \A size \in PageSizes :
    LET Page(p) == GetBatchMetricsPaginated(p, size)
        last == CHOOSE p \in 0..LastBatchId :
                  ~Page(p).has_next /\ \A q \in 0..(p - 1) : Page(q).has_next
    IN FlattenSeq([k \in 1..(last + 1) |-> Page(k - 1).ids]) = [k \in 1..LastBatchId |-> k]

\* A bundle that passes the checks of the call passes the second round, too:
\* each stored result can be bundled, whole.
BundlesWhole ==
  \A id \in DOMAIN BundleResult :
    BundleResult[id].can_bundle /\ BundleResult[id].invalid_count = 0

\* A transaction once refunded stays so, and no call changes the amount refunded
\* without refunding a transaction that was not refunded before.
RefundsStand == [][/\ RefundedTransactions \subseteq RefundedTransactions'
                   /\ RefundedTransactions' = RefundedTransactions
                        => TotalRefundAmount' = TotalRefundAmount]_vars
===============================================================================
