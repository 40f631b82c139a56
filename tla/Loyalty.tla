------------------------------- MODULE Loyalty -------------------------------
(***************************************************************************)
(* merchant-tagging: merchants that an administrator keeps, and payments   *)
(* that anyone attributes to them, with an index and totals per merchant.  *)
(* rewards/: points credited to registered accounts, kept in a record and  *)
(* a second time under keys of their own, with a log of the credits.       *)
(* rewards.rs: one reward per user and milestone.                          *)
(* And the contracts that watch what users spend: category-analytics,      *)
(* which sums spending per category and month; compliance.rs, which flags  *)
(* payments above a limit; fraud.rs, which sums a user's day.  Their time  *)
(* is counted in days.                                                     *)
(***************************************************************************)
EXTENDS Integers, Sequences, FiniteSets, SequencesExt

CONSTANTS Users, Merchants, Tags, TxIds, Amounts, Unset,
          NameLengths, MAX_MERCHANT_NAME_LEN,
          TagLists, MAX_TAGS_PER_MERCHANT, MAX_QUERY_RESULTS,
          BaseRewards, Multipliers, Milestones,
          I128_MAX,          \* the largest amount, made small
          MaxTagged,         \* bound: taggings ever done
          MaxCredits,        \* bound: rewards ever credited
          Categories, SpendingBatches,   \* lists of [category, amount]
          Limits, Spendings,             \* limits of payments and their amounts
          FraudConfigs, DefaultFraudConfig,
          Days,                          \* the days the ledger may close on
          MaxRecords, MaxFlags,          \* bounds: entries recorded, payments flagged
          MaxTotals                      \* bound: the days' totals kept by fraud.rs

VARIABLES merchantAdmin, Merchant, MerchantIndex, TransactionMerchant, MerchantTransactions,
          MerchantAnalytics, TotalTagged,
          rewardAdmin, RewardAccount, RewardBalance, LifetimeEarned, RewardTransactions,
          milestoneAdmin, BaseRewardAmount, RewardMultiplier, UserMilestone,
          spendingAdmin, CurrentSpending, MonthlyTotals,
          complianceAdmin, MaxTransfer, FlaggedTransactions, FlagStatus,
          fraudAdmin, FraudConfig, UserDaily, Alerted, today

merchantVars == <<merchantAdmin, Merchant, MerchantIndex, TransactionMerchant,
                  MerchantTransactions, MerchantAnalytics, TotalTagged>>
rewardVars == <<rewardAdmin, RewardAccount, RewardBalance, LifetimeEarned, RewardTransactions>>
milestoneVars == <<milestoneAdmin, BaseRewardAmount, RewardMultiplier, UserMilestone>>
spendingVars == <<spendingAdmin, CurrentSpending, MonthlyTotals>>
complianceVars == <<complianceAdmin, MaxTransfer, FlaggedTransactions, FlagStatus>>
fraudVars == <<fraudAdmin, FraudConfig, UserDaily, Alerted>>

None == [count |-> 0, volume |-> 0]
Months == 0 .. 12

Registered == {m \in Merchants : Merchant[m] # Unset}

TypeOK ==
  /\ merchantAdmin \in Users \cup {Unset}
  /\ \A m \in Registered : Merchant[m] \in [tags : Seq(Tags), active : BOOLEAN]
  /\ MerchantIndex \in Seq(Merchants)
  /\ DOMAIN TransactionMerchant \subseteq TxIds \X Merchants
  /\ \A m \in Merchants : /\ MerchantTransactions[m] \in Seq(TxIds)
                          /\ MerchantAnalytics[m].tx_count \in Nat
                          /\ MerchantAnalytics[m].total_volume \in 0 .. I128_MAX
  /\ TotalTagged \in 0 .. MaxTagged
  /\ rewardAdmin \in Users \cup {Unset}
  /\ RewardBalance \in [Users -> 0 .. I128_MAX] /\ LifetimeEarned \in [Users -> 0 .. I128_MAX]
  /\ \A i \in DOMAIN RewardTransactions : RewardTransactions[i].recipient \in Users
  /\ milestoneAdmin \in Users \cup {Unset} /\ UserMilestone \subseteq Users \X Milestones
  /\ spendingAdmin \in Users \cup {Unset} /\ DOMAIN CurrentSpending \subseteq Users \X Categories
  /\ \A k \in DOMAIN MonthlyTotals : k[2] \in Months /\ MonthlyTotals[k].last_updated <= today
  /\ complianceAdmin \in Users \cup {Unset} /\ FlagStatus \subseteq TxIds
  /\ fraudAdmin \in Users \cup {Unset} /\ \A k \in DOMAIN UserDaily : UserDaily[k] \in 1 .. I128_MAX
  /\ Alerted \subseteq DOMAIN UserDaily

Init ==
  /\ merchantAdmin = Unset /\ Merchant = [m \in Merchants |-> Unset] /\ MerchantIndex = << >>
  /\ TransactionMerchant = << >> /\ MerchantTransactions = [m \in Merchants |-> << >>]
  /\ MerchantAnalytics = [m \in Merchants |-> [tx_count |-> 0, total_volume |-> 0]]
  /\ TotalTagged = 0
  /\ rewardAdmin = Unset /\ RewardAccount = [u \in Users |-> Unset]
  /\ RewardBalance = [u \in Users |-> 0] /\ LifetimeEarned = [u \in Users |-> 0]
  /\ RewardTransactions = << >>
  /\ milestoneAdmin = Unset /\ BaseRewardAmount = Unset /\ RewardMultiplier = Unset
  /\ UserMilestone = {}
  /\ spendingAdmin = Unset /\ CurrentSpending = << >> /\ MonthlyTotals = << >>
  /\ complianceAdmin = Unset /\ MaxTransfer = Unset
  /\ FlaggedTransactions = << >> /\ FlagStatus = {}
  /\ fraudAdmin = Unset /\ FraudConfig = Unset /\ UserDaily = << >> /\ Alerted = {}
  /\ today = 0

----------------------------------------------------------------------------
(* merchant-tagging.  What the administrator signs needs no caller here.   *)

InitMerchants(admin) ==
  /\ merchantAdmin = Unset /\ merchantAdmin' = admin /\ TotalTagged' = 0
  /\ UNCHANGED <<Merchant, MerchantIndex, TransactionMerchant, MerchantTransactions,
                 MerchantAnalytics, rewardVars, milestoneVars>>

ValidName(length) == length \in 1 .. MAX_MERCHANT_NAME_LEN
ValidTags(tags) == Len(tags) <= MAX_TAGS_PER_MERCHANT

MayRegister(m) == merchantAdmin # Unset /\ Merchant[m] = Unset

RegisterMerchant(m, length, tags) ==
  /\ MayRegister(m) /\ ValidName(length) /\ ValidTags(tags)
  /\ Merchant' = [Merchant EXCEPT ![m] = [tags |-> tags, active |-> TRUE]]
  /\ MerchantIndex' = Append(MerchantIndex, m)
  /\ UNCHANGED <<merchantAdmin, TransactionMerchant, MerchantTransactions, MerchantAnalytics,
                 TotalTagged, rewardVars, milestoneVars>>

\* An argument that is Unset leaves its field alone.  Names are not kept here.
UpdateMerchant(m, length, tags) ==
  /\ merchantAdmin # Unset /\ Merchant[m] # Unset
  /\ length # Unset => ValidName(length)
  /\ tags # Unset => ValidTags(tags)
  /\ Merchant' = [Merchant EXCEPT ![m].tags = IF tags = Unset THEN @ ELSE tags]
  /\ UNCHANGED <<merchantAdmin, MerchantIndex, TransactionMerchant, MerchantTransactions,
                 MerchantAnalytics, TotalTagged, rewardVars, milestoneVars>>

\* Nothing makes a merchant active again.
DeactivateMerchant(m) ==
  /\ merchantAdmin # Unset /\ Merchant[m] # Unset
  /\ Merchant' = [Merchant EXCEPT ![m].active = FALSE]
  /\ UNCHANGED <<merchantAdmin, MerchantIndex, TransactionMerchant, MerchantTransactions,
                 MerchantAnalytics, TotalTagged, rewardVars, milestoneVars>>

TagTransaction(tx, m, amount) ==
  /\ amount > 0 /\ Merchant[m] # Unset /\ Merchant[m].active
  /\ <<tx, m>> \notin DOMAIN TransactionMerchant
  /\ MerchantAnalytics[m].total_volume + amount <= I128_MAX
  /\ TotalTagged < MaxTagged
  /\ TransactionMerchant' = [k \in DOMAIN TransactionMerchant \cup {<<tx, m>>} |->
                               IF k = <<tx, m>> THEN amount ELSE TransactionMerchant[k]]
  /\ MerchantTransactions' = [MerchantTransactions EXCEPT ![m] = Append(@, tx)]
  /\ MerchantAnalytics' = [MerchantAnalytics EXCEPT ![m].tx_count = @ + 1,
                                                    ![m].total_volume = @ + amount]
  /\ TotalTagged' = TotalTagged + 1
  /\ UNCHANGED <<merchantAdmin, Merchant, MerchantIndex, rewardVars, milestoneVars>>

\* The index and the totals keep what was removed: a payment that is tagged
\* again is counted again.
RemoveTag(tx, m) ==
  /\ merchantAdmin # Unset /\ <<tx, m>> \in DOMAIN TransactionMerchant
  /\ TransactionMerchant' = [k \in DOMAIN TransactionMerchant \ {<<tx, m>>} |->
                               TransactionMerchant[k]]
  /\ UNCHANGED <<merchantAdmin, Merchant, MerchantIndex, MerchantTransactions,
                 MerchantAnalytics, TotalTagged, rewardVars, milestoneVars>>

GetMerchantTransactions(m) ==
  LET all == MerchantTransactions[m]
  IN  IF Len(all) <= MAX_QUERY_RESULTS THEN all ELSE SubSeq(all, 1, MAX_QUERY_RESULTS)

GetMerchantsByTag(tag) ==
  SelectSeq(MerchantIndex, LAMBDA m : Merchant[m] # Unset /\ tag \in Range(Merchant[m].tags))

Tagging ==
  \/ \E u \in Users : InitMerchants(u)
  \/ \E m \in Merchants :
       \/ \E length \in NameLengths, tags \in TagLists : RegisterMerchant(m, length, tags)
       \/ \E length \in NameLengths \cup {Unset}, tags \in TagLists \cup {Unset} :
            UpdateMerchant(m, length, tags)
       \/ DeactivateMerchant(m)
       \/ \E tx \in TxIds : RemoveTag(tx, m) \/ \E n \in Amounts : TagTransaction(tx, m, n)

----------------------------------------------------------------------------
(* rewards/                                                                *)

InitializeRewards(admin) ==
  /\ rewardAdmin = Unset /\ rewardAdmin' = admin
  /\ UNCHANGED <<RewardAccount, RewardBalance, LifetimeEarned, RewardTransactions,
                 merchantVars, milestoneVars>>

MayOpen(u) == rewardAdmin # Unset /\ RewardAccount[u] = Unset

RegisterRewardAccount(u) ==
  /\ MayOpen(u)
  /\ RewardAccount' = [RewardAccount EXCEPT ![u] = [balance |-> 0, lifetime_earned |-> 0]]
  /\ RewardBalance' = [RewardBalance EXCEPT ![u] = 0]
  /\ LifetimeEarned' = [LifetimeEarned EXCEPT ![u] = 0]
  /\ UNCHANGED <<rewardAdmin, RewardTransactions, merchantVars, milestoneVars>>

\* The sums come from the separate keys; they are written to both places.
CreditReward(u, amount) ==
  /\ rewardAdmin # Unset /\ RewardAccount[u] # Unset /\ amount > 0
  /\ RewardBalance[u] + amount <= I128_MAX /\ LifetimeEarned[u] + amount <= I128_MAX
  /\ Len(RewardTransactions) < MaxCredits
  /\ RewardAccount' = [RewardAccount EXCEPT ![u] =
       [balance |-> RewardBalance[u] + amount, lifetime_earned |-> LifetimeEarned[u] + amount]]
  /\ RewardBalance' = [RewardBalance EXCEPT ![u] = @ + amount]
  /\ LifetimeEarned' = [LifetimeEarned EXCEPT ![u] = @ + amount]
  /\ RewardTransactions' = Append(RewardTransactions, [recipient |-> u, amount |-> amount])
  /\ UNCHANGED <<rewardAdmin, merchantVars, milestoneVars>>

Rewarding == \E u \in Users : \/ InitializeRewards(u) \/ RegisterRewardAccount(u)
                              \/ \E n \in Amounts : CreditReward(u, n)

----------------------------------------------------------------------------
(* rewards.rs                                                              *)

\* Not signed: whoever calls first names the administrator.
InitializeMilestones(admin, base, multiplier) ==
  /\ milestoneAdmin = Unset
  /\ milestoneAdmin' = admin /\ BaseRewardAmount' = base /\ RewardMultiplier' = multiplier
  /\ UNCHANGED <<UserMilestone, merchantVars, rewardVars>>

Fits(n) == n \in -I128_MAX - 1 .. I128_MAX

\* A product that overflows counts as nothing, a sum that overflows as the base.
CalculateReward(id) ==
  LET product == RewardMultiplier * id
      sum == BaseRewardAmount + (IF Fits(product) THEN product ELSE 0)
  IN  IF Fits(sum) THEN sum ELSE BaseRewardAmount

DistributeReward(admin, u, id) ==
  /\ milestoneAdmin # Unset /\ admin = milestoneAdmin /\ id # 0
  /\ <<u, id>> \notin UserMilestone
  /\ UserMilestone' = UserMilestone \cup {<<u, id>>}
  /\ UNCHANGED <<milestoneAdmin, BaseRewardAmount, RewardMultiplier, merchantVars, rewardVars>>

Distributing ==
  \E admin, u \in Users :
    \/ \E base \in BaseRewards, n \in Multipliers : InitializeMilestones(admin, base, n)
    \/ \E id \in Milestones : DistributeReward(admin, u, id)

----------------------------------------------------------------------------
(* The watchers.                                                           *)

\* The value under key k, or the default the code reads where nothing is stored.
At(f, k, default) == IF k \in DOMAIN f THEN f[k] ELSE default

CloseDay(d) == /\ d > today /\ today' = d
               /\ UNCHANGED <<spendingVars, complianceVars, fraudVars>>

----------------------------------------------------------------------------
(* category-analytics                                                      *)

InitSpending(admin) ==
  /\ spendingAdmin = Unset /\ spendingAdmin' = admin
  /\ UNCHANGED <<CurrentSpending, MonthlyTotals, complianceVars, fraudVars, today>>

\* Years of 365 days, months of 30; the five days left over are month 13 % 13,
\* which the comment at the end of the line ("Ensure month is 1-12") rules out.
GetYearMonth(d) == [year |-> 1970 + d \div 365, month |-> (1 + (d % 365) \div 30) % 13]

Spend(entry, amount) == [count |-> entry.count + 1, volume |-> entry.volume + amount]

\* Both records of user u's spending after one more entry of today.
RecordCategorySpending(books, u, category, amount) ==
  LET k == <<u, category>>
      mk == <<GetYearMonth(today).year, GetYearMonth(today).month, u, category>>
  IN  [current |-> (k :> Spend(At(books.current, k, None), amount)) @@ books.current,
       monthly |-> (mk :> (Spend(At(books.monthly, mk, None), amount) @@ [last_updated |-> today]))
                   @@ books.monthly]

Recorded == FoldFunction(LAMBDA e, n : n + e.count, 0, CurrentSpending)

\* One entry that is refused undoes the whole batch.
RecordSpendingBatch(u, spendings) ==
  LET after == FoldLeft(LAMBDA books, s : RecordCategorySpending(books, u, s.category, s.amount),
                        [current |-> CurrentSpending, monthly |-> MonthlyTotals], spendings)
  IN  /\ spendings # << >> /\ \A i \in DOMAIN spendings : spendings[i].amount > 0
      /\ \A k \in DOMAIN after.current : after.current[k].volume <= I128_MAX
      /\ Recorded + Len(spendings) <= MaxRecords
      /\ CurrentSpending' = after.current /\ MonthlyTotals' = after.monthly
      /\ UNCHANGED <<spendingAdmin, complianceVars, fraudVars, today>>

RecordSpending(u, category, amount) ==
  RecordSpendingBatch(u, <<[category |-> category, amount |-> amount]>>)

GetCategoryMetrics(u, c, y, month) ==
  At(MonthlyTotals, <<y, month, u, c>>, None @@ [last_updated |-> 0])

SumOfMonths(Metrics(_)) ==
  FoldLeft(LAMBDA s, month : [count |-> s.count + Metrics(month).count,
                              volume |-> s.volume + Metrics(month).volume],
           None, [i \in 1 .. 12 |-> i])
GetYearlyTrend(u, c, y) == SumOfMonths(LAMBDA month : GetCategoryMetrics(u, c, y, month))

\* A month counts with all or nothing, by the day of its last entry.
GetCategoryMetricsFiltered(u, c, y, month, from, to) ==
  LET metrics == GetCategoryMetrics(u, c, y, month)
  IN  IF metrics.last_updated \in from .. to THEN metrics ELSE None
GetYearlyTrendFiltered(u, c, y, from, to) ==
  IF from > to THEN None
  ELSE SumOfMonths(LAMBDA month : GetCategoryMetricsFiltered(u, c, y, month, from, to))

Watching ==
  \/ \E u \in Users : \/ InitSpending(u)
                      \/ \E c \in Categories, n \in Spendings : RecordSpending(u, c, n)
                      \/ \E spendings \in SpendingBatches : RecordSpendingBatch(u, spendings)
  \/ \E d \in Days : CloseDay(d)

----------------------------------------------------------------------------
(* compliance.rs                                                           *)

\* Not signed.
InitializeCompliance(admin) ==
  /\ complianceAdmin = Unset /\ complianceAdmin' = admin /\ FlaggedTransactions' = << >>
  /\ UNCHANGED <<MaxTransfer, FlagStatus, spendingVars, fraudVars, today>>

SetLimit(caller, limit) ==
  /\ complianceAdmin # Unset /\ caller = complianceAdmin /\ limit >= 0
  /\ MaxTransfer' = limit
  /\ UNCHANGED <<complianceAdmin, FlaggedTransactions, FlagStatus, spendingVars, fraudVars, today>>

\* Anyone may have a payment checked, before the contract is initialized too,
\* and the same one again: the list then names it twice.
CheckAndFlagTransaction(tx, amount) ==
  LET limit == IF MaxTransfer = Unset THEN I128_MAX ELSE MaxTransfer
  IN  /\ amount > limit /\ Len(FlaggedTransactions) < MaxFlags
      /\ FlaggedTransactions' = Append(FlaggedTransactions, tx)
      /\ FlagStatus' = FlagStatus \cup {tx}
      /\ UNCHANGED <<complianceAdmin, MaxTransfer, spendingVars, fraudVars, today>>

Flagging ==
  \/ \E u \in Users : InitializeCompliance(u) \/ \E limit \in Limits : SetLimit(u, limit)
  \/ \E tx \in TxIds, n \in Spendings : CheckAndFlagTransaction(tx, n)

----------------------------------------------------------------------------
(* fraud.rs                                                                *)

\* Not signed.
InitializeFraud(admin) ==
  /\ fraudAdmin = Unset /\ fraudAdmin' = admin /\ FraudConfig' = DefaultFraudConfig
  /\ UNCHANGED <<UserDaily, Alerted, spendingVars, complianceVars, today>>

SetFraudConfig(caller, config) ==
  /\ fraudAdmin # Unset /\ caller = fraudAdmin
  /\ config.threshold > 0 /\ config.max_daily > 0
  /\ FraudConfig' = config
  /\ UNCHANGED <<fraudAdmin, UserDaily, Alerted, spendingVars, complianceVars, today>>

\* Anyone may have a payment of any user checked; its amount joins the day's
\* total also when it is flagged.  Alerted: whom an alert was published for, and when.
CheckFraud(u, amount) ==
  LET config == IF FraudConfig = Unset THEN DefaultFraudConfig ELSE FraudConfig
      total == At(UserDaily, <<u, today>>, 0) + amount
      flagged == amount >= config.threshold \/ total > config.max_daily
  IN  /\ amount > 0 /\ total <= I128_MAX
      /\ Cardinality(DOMAIN UserDaily \cup {<<u, today>>}) <= MaxTotals
      /\ UserDaily' = (<<u, today>> :> total) @@ UserDaily
      /\ Alerted' = IF flagged THEN Alerted \cup {<<u, today>>} ELSE Alerted
      /\ UNCHANGED <<fraudAdmin, FraudConfig, spendingVars, complianceVars, today>>

Detecting ==
  \/ \E u \in Users : \/ InitializeFraud(u)
                      \/ \E config \in FraudConfigs : SetFraudConfig(u, config)
                      \/ \E n \in Spendings : CheckFraud(u, n)
  \/ \E d \in Days : CloseDay(d)

----------------------------------------------------------------------------
SumOver(f(_), s) == FoldLeft(LAMBDA n, x : n + f(x), 0, s)

\* The tags that stand are in the index of their merchant and within its
\* volume; the totals count taggings, not tags.
TagsAgree ==
  /\ \A k \in DOMAIN TransactionMerchant : k[1] \in Range(MerchantTransactions[k[2]])
  /\ \A m \in Merchants :
       /\ MerchantAnalytics[m].tx_count = Len(MerchantTransactions[m])
       /\ SumOver(LAMBDA tx : TransactionMerchant[<<tx, m>>],
                  SetToSeq({tx \in TxIds : <<tx, m>> \in DOMAIN TransactionMerchant}))
            <= MerchantAnalytics[m].total_volume
       /\ Len(GetMerchantTransactions(m)) <= MAX_QUERY_RESULTS
  /\ TotalTagged = SumOver(LAMBDA m : MerchantAnalytics[m].tx_count, SetToSeq(Merchants))

\* The query over the index finds every merchant that carries a tag, once.
MerchantsFound ==
  \A tag \in Tags : LET found == GetMerchantsByTag(tag)
                    IN  /\ IsInjective(found)
                        /\ Range(found) = {m \in Registered : tag \in Range(Merchant[m].tags)}

\* A deactivated merchant is attributed nothing more, whatever is updated.
RetiredForGood ==
  [][\A m \in Registered : ~Merchant[m].active =>
       /\ ~Merchant'[m].active
       /\ MerchantAnalytics'[m] = MerchantAnalytics[m]]_merchantVars

\* The account's record, the keys that repeat it and the log of credits say the
\* same of every participant: nothing is ever claimed.
RewardsAgree ==
  \A u \in Users :
    LET credited == SumOver(LAMBDA t : t.amount,
                            SelectSeq(RewardTransactions, LAMBDA t : t.recipient = u))
    IN  /\ RewardBalance[u] = credited /\ LifetimeEarned[u] = credited
        /\ RewardAccount[u] = Unset => credited = 0
        /\ RewardAccount[u] # Unset =>
             RewardAccount[u] = [balance |-> credited, lifetime_earned |-> credited]

\* No milestone is worth less than the base, not even one that overflows.
AtLeastBase ==
  milestoneAdmin # Unset /\ RewardMultiplier >= 0 =>
    \A id \in Milestones : CalculateReward(id) \in BaseRewardAmount .. I128_MAX

\* Nothing recorded is lost from the months, counting the month 0 that no calendar
\* has and get_year_month's comment denies: the yearly trend of months 1 to 12
\* leaves out what was spent in the last five days of a year.  Filtering only ever
\* takes away, and a filter that covers everything takes nothing.
MonthsAddUp ==
  \A k \in DOMAIN CurrentSpending :
    LET u == k[1]
        c == k[2]
        years == {GetYearMonth(d).year : d \in 0 .. today}
        Volume(y) == GetYearlyTrend(u, c, y).volume + GetCategoryMetrics(u, c, y, 0).volume
    IN  /\ CurrentSpending[k].volume = FoldSet(LAMBDA y, n : n + Volume(y), 0, years)
        /\ \A y \in years :
             /\ GetYearlyTrendFiltered(u, c, y, 0, today) = GetYearlyTrend(u, c, y)
             /\ \A d \in Days : GetYearlyTrendFiltered(u, c, y, d, today).volume
                                  <= GetYearlyTrend(u, c, y).volume

\* The list of flagged payments and the flag of each say the same, whichever
\* limits came and went; a payment may be listed more than once.
FlagsAgree == FlagStatus = ToSet(FlaggedTransactions)

\* While the rules stay as they are, a day above its maximum has raised an alert.
DailyAlerts ==
  [][FraudConfig' = FraudConfig =>
       LET config == IF FraudConfig = Unset THEN DefaultFraudConfig ELSE FraudConfig
       IN  \A k \in DOMAIN UserDaily' : UserDaily'[k] > config.max_daily =>
             k \in Alerted' \/ At(UserDaily, k, 0) = UserDaily'[k]]_fraudVars
===============================================================================
