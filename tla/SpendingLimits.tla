---------------------------- MODULE SpendingLimits ----------------------------
(***************************************************************************)
(* The spending limits contract (contracts/spending-limits).  A user's     *)
(* spending is counted in hourly, daily and monthly windows of the ledger  *)
(* time and accepted only while all three totals stay within the user's    *)
(* limits; an adaptive limit grows when most of it is used; approved       *)
(* categories can be exempted.  Batches of new limits are partly applied:  *)
(* invalid requests in them are skipped.  The escalation settings are      *)
(* stored and never read, so they are left out.                            *)
(***************************************************************************)
EXTENDS Sequences, FiniteSets, FiniteSetsExt, Integers

CONSTANTS Users, Unset, Categories, NoCategory,
          LimitBatches,        \* the request vectors of batch_update_spending_limits
          Overrides,           \* new_monthly_limit arguments
          Spends,              \* amounts
          HOUR, DAY, MONTH,    \* the lengths of the windows
          MIN_SPENDING_LIMIT, MAX_SPENDING_LIMIT, MAX_BATCH_SIZE,
          MaxBatches, MaxRecorded, MaxTime

VARIABLES LimitsConfig,        \* Unset, then the administrator and the counters
          SpendingLimit,       \* user -> record or Unset
          HourlySpending, DailySpending, MonthlySpending,  \* user -> window -> total
          ApprovedCategories,
          ExceptionRule,       \* the set of <<user, category>> keys
          Whitelist,
          timestamp
windows == <<HourlySpending, DailySpending, MonthlySpending>>
rules == <<ApprovedCategories, ExceptionRule, Whitelist>>
vars == <<LimitsConfig, SpendingLimit, windows, rules, timestamp>>

LimitRecord == [monthly : Nat, daily : Nat, hourly : Nat, adaptive : BOOLEAN,
                current_spending : Int]
Windows == 0..MaxTime
Nothing == [u \in Users |-> [w \in Windows |-> 0]]

\* What the proofs assume of the constants.
LimitsAssumption ==
  /\ LimitBatches \subseteq Seq([user : Users, monthly : Int, daily : Int, hourly : Int,
                                adaptive : BOOLEAN])
  /\ Overrides \subseteq Int /\ Spends \subseteq Int
  /\ HOUR \in Nat \ {0} /\ DAY \in Nat \ {0} /\ MONTH \in Nat \ {0}
  /\ DAY % HOUR = 0 /\ MONTH % DAY = 0
  /\ MIN_SPENDING_LIMIT \in Nat /\ MAX_SPENDING_LIMIT \in Nat /\ MaxTime \in Nat

Init == /\ LimitsConfig = Unset
        /\ SpendingLimit = [u \in Users |-> Unset]
        /\ HourlySpending = Nothing /\ DailySpending = Nothing /\ MonthlySpending = Nothing
        /\ ApprovedCategories = {} /\ ExceptionRule = {} /\ Whitelist = {}
        /\ timestamp = 0

Initialize(admin) ==
  /\ LimitsConfig = Unset
  /\ LimitsConfig' = [admin |-> admin, last_batch_id |-> 0,
                      total_limits_updated |-> 0, total_batches_processed |-> 0]
  /\ UNCHANGED <<SpendingLimit, windows, rules, timestamp>>

RequireAdmin(caller) == LimitsConfig # Unset /\ caller = LimitsConfig.admin

SetAdmin(caller, admin) ==
  /\ RequireAdmin(caller)
  /\ LimitsConfig' = [LimitsConfig EXCEPT !.admin = admin]
  /\ UNCHANGED <<SpendingLimit, windows, rules, timestamp>>

------------------------------------------------------------------------------
\* Limits.

IsValidLimit(n) == n \in MIN_SPENDING_LIMIT..MAX_SPENDING_LIMIT

ValidLimitRequest(r) == /\ IsValidLimit(r.monthly) /\ IsValidLimit(r.daily)
                        /\ IsValidLimit(r.hourly)
                        /\ r.hourly <= r.daily /\ r.daily <= r.monthly

\* The last valid request for a user counts; spending starts again from 0 in
\* the record, not in the windows.
LimitOf(r) == [monthly |-> r.monthly, daily |-> r.daily, hourly |-> r.hourly,
               adaptive |-> r.adaptive, current_spending |-> 0]

BatchUpdateSpendingLimits(caller, requests) ==
  LET valid == {i \in DOMAIN requests : ValidLimitRequest(requests[i])}
      of(u) == {i \in valid : requests[i].user = u}
  IN  /\ RequireAdmin(caller)
      /\ Len(requests) \in 1..MAX_BATCH_SIZE
      /\ LimitsConfig.last_batch_id < MaxBatches
      /\ SpendingLimit' = [u \in Users |-> IF of(u) = {} THEN SpendingLimit[u]
                                           ELSE LimitOf(requests[Max(of(u))])]
      /\ LimitsConfig' = [LimitsConfig EXCEPT !.last_batch_id = @ + 1,
                            !.total_limits_updated = @ + Cardinality(valid),
                            !.total_batches_processed = @ + 1]
      /\ UNCHANGED <<windows, rules, timestamp>>

OverrideSpendingLimit(caller, u, monthly) ==
  /\ RequireAdmin(caller)
  /\ monthly > 0
  /\ SpendingLimit[u] # Unset
  /\ SpendingLimit' = [SpendingLimit EXCEPT ![u].monthly = monthly]
  /\ UNCHANGED <<LimitsConfig, windows, rules, timestamp>>

\* Added to the record only, until the next accepted spend writes over it.
ApproveEscalatedSpend(caller, u, amount) ==
  /\ RequireAdmin(caller)
  /\ SpendingLimit[u] # Unset
  /\ SpendingLimit[u].current_spending + amount <= MaxRecorded
  /\ SpendingLimit' = [SpendingLimit EXCEPT ![u].current_spending = @ + amount]
  /\ UNCHANGED <<LimitsConfig, windows, rules, timestamp>>

------------------------------------------------------------------------------
\* Spending.

\* A window ends with the instant that is a multiple of its length, and 0
\* belongs to the first one.
WindowOf(length) == IF timestamp = 0 THEN 0 ELSE (timestamp - 1) \div length
\* Mutant: a window starts with that instant.
DayFromZero == timestamp \div DAY
Hour == WindowOf(HOUR)
Day == WindowOf(DAY)
Month == WindowOf(MONTH)

\* The monthly limit after a spend that brings the month's total to `total`.
Adapted(limit, total) ==
  IF limit.adaptive /\ total >= (limit.monthly * 9) \div 10
  THEN IF limit.monthly + limit.monthly \div 10 > MAX_SPENDING_LIMIT THEN MAX_SPENDING_LIMIT
       ELSE limit.monthly + limit.monthly \div 10
  ELSE limit.monthly

IsExempt(u, category) == category # NoCategory /\ <<u, category>> \in ExceptionRule

\* The paths of enforce_spending_limit that return without counting (an exempt
\* category, a user without limits) or panic change nothing and are left out.
EnforceSpendingLimit(u, amount, category) ==
  LET limit == SpendingLimit[u]
      total == MonthlySpending[u][Month] + amount
  IN  /\ amount > 0
      /\ ~IsExempt(u, category)
      /\ u \in Whitelist
      /\ limit # Unset
      /\ HourlySpending[u][Hour] + amount <= limit.hourly
      /\ DailySpending[u][Day] + amount <= limit.daily
      /\ total <= limit.monthly
      /\ HourlySpending' = [HourlySpending EXCEPT ![u][Hour] = @ + amount]
      /\ DailySpending' = [DailySpending EXCEPT ![u][Day] = @ + amount]
      /\ MonthlySpending' = [MonthlySpending EXCEPT ![u][Month] = total]
      /\ SpendingLimit' = [SpendingLimit EXCEPT ![u].monthly = Adapted(limit, total),
                                                ![u].current_spending = total]
      /\ UNCHANGED <<LimitsConfig, rules, timestamp>>

------------------------------------------------------------------------------
\* Who may spend, and on what without limits.

WhitelistDestination(caller, u) ==
  /\ RequireAdmin(caller)
  /\ Whitelist' = Whitelist \cup {u}
  /\ UNCHANGED <<LimitsConfig, SpendingLimit, windows, ApprovedCategories, ExceptionRule, timestamp>>

RemoveFromWhitelist(caller, u) ==
  /\ RequireAdmin(caller)
  /\ Whitelist' = Whitelist \ {u}
  /\ UNCHANGED <<LimitsConfig, SpendingLimit, windows, ApprovedCategories, ExceptionRule, timestamp>>

AddApprovedCategory(caller, category) ==
  /\ RequireAdmin(caller)
  /\ ApprovedCategories' = ApprovedCategories \cup {category}
  /\ UNCHANGED <<LimitsConfig, SpendingLimit, windows, ExceptionRule, Whitelist, timestamp>>

\* The exceptions already granted for the category stay.
RemoveApprovedCategory(caller, category) ==
  /\ RequireAdmin(caller)
  /\ ApprovedCategories' = ApprovedCategories \ {category}
  /\ UNCHANGED <<LimitsConfig, SpendingLimit, windows, ExceptionRule, Whitelist, timestamp>>

AddException(caller, u, category) ==
  /\ RequireAdmin(caller)
  /\ category \in ApprovedCategories
  /\ ExceptionRule' = ExceptionRule \cup {<<u, category>>}
  /\ UNCHANGED <<LimitsConfig, SpendingLimit, windows, ApprovedCategories, Whitelist, timestamp>>

RemoveException(caller, u, category) ==
  /\ RequireAdmin(caller)
  /\ ExceptionRule' = ExceptionRule \ {<<u, category>>}
  /\ UNCHANGED <<LimitsConfig, SpendingLimit, windows, ApprovedCategories, Whitelist, timestamp>>

CloseLedger == /\ timestamp < MaxTime
               /\ timestamp' = timestamp + 1
               /\ UNCHANGED <<LimitsConfig, SpendingLimit, windows, rules>>

Next ==
  \/ \E u \in Users : Initialize(u)
  \/ \E c, u \in Users : SetAdmin(c, u)
  \/ \E c \in Users, rs \in LimitBatches : BatchUpdateSpendingLimits(c, rs)
  \/ \E c, u \in Users, n \in Overrides : OverrideSpendingLimit(c, u, n)
  \/ \E c, u \in Users, a \in Spends : ApproveEscalatedSpend(c, u, a)
  \/ \E u \in Users, a \in Spends, k \in Categories \cup {NoCategory} :
       EnforceSpendingLimit(u, a, k)
  \/ \E c, u \in Users : WhitelistDestination(c, u) \/ RemoveFromWhitelist(c, u)
  \/ \E c \in Users, k \in Categories : AddApprovedCategory(c, k) \/ RemoveApprovedCategory(c, k)
  \/ \E c, u \in Users, k \in Categories : AddException(c, u, k) \/ RemoveException(c, u, k)
  \/ CloseLedger

Spec == Init /\ [][Next]_vars

------------------------------------------------------------------------------
\* Every reachable state is well formed.
TypeOK ==
  /\ LimitsConfig # Unset =>
       /\ LimitsConfig.admin \in Users
       /\ LimitsConfig.last_batch_id = LimitsConfig.total_batches_processed
  /\ \A u \in Users : SpendingLimit[u] # Unset => SpendingLimit[u] \in LimitRecord
  /\ \A S \in {HourlySpending, DailySpending, MonthlySpending} : S \in [Users -> [Windows -> Nat]]
  /\ ApprovedCategories \subseteq Categories
  /\ ExceptionRule \subseteq Users \X Categories /\ Whitelist \subseteq Users
  /\ timestamp \in 0..MaxTime

SumOver(f, S) == FoldSet(LAMBDA w, n : f[w] + n, 0, S)
Inside(length, w) == {v \in Windows : v \div length = w}

\* Every total covers the same money: a day's total is the sum of its hours'
\* and a month's the sum of its days', across window boundaries, new limits,
\* overrides and escalated spends.
WindowsNest ==
  \A u \in Users, w \in Windows :
    /\ DailySpending[u][w] = SumOver(HourlySpending[u], Inside(DAY \div HOUR, w))
    /\ MonthlySpending[u][w] = SumOver(DailySpending[u], Inside(MONTH \div DAY, w))
===============================================================================
