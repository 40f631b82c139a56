-------------------------------- MODULE Budget --------------------------------
(***************************************************************************)
(* The budget contract (contracts/budget/src/lib.rs): amounts allocated to *)
(* users by the administrator or a manager they delegate to, limits by     *)
(* category, suspension, expiration, deletion after a cooldown, and the    *)
(* distribution of an inactive user's budget to beneficiaries.  The file   *)
(* has lost the head of spend_from_category, the only function that        *)
(* freezes a budget, and the body of the transfer of ownership, where      *)
(* claim_ownership always panics: spending, freezing and inheritance       *)
(* cannot happen and are left out, as are histories, which are never read. *)
(***************************************************************************)
EXTENDS Sequences, FiniteSets, Functions, Integers

CONSTANTS Users,
          Owners,              \* the users whose budgets are changed by calls
          Assets, Categories, Unset,
          Amounts,
          Rules,               \* [kind |-> "MaxAmount" or "MinAmount", bound]
          BeneficiaryLists,    \* sequences of [address, percentage]
          Timeouts, DEFAULT_TIMEOUT,
          Expirations, DELETION_COOLDOWN,
          MaxAllocated, MaxTime

VARIABLES Admin, TotalAllocated,
          Budget,              \* user -> Unset or a BudgetRecord
          BudgetAsset,         \* user -> asset -> amount or Unset; the set ones are UserAssets
          UserBudget,          \* user -> Unset or [limits, last_updated]
          BudgetSuspension,    \* user -> Unset or the time it ends, 0 for never
          GlobalRules, UserRules, Delegation,
          LastActivity, InactivityTimeout, Beneficiaries,
          PendingDeletion,     \* user -> Unset or the time the cooldown is over
          timestamp
amounts == <<TotalAllocated, Budget, BudgetAsset>>
rules == <<GlobalRules, UserRules, Delegation>>
heirs == <<InactivityTimeout, Beneficiaries>>
vars == <<Admin, amounts, UserBudget, BudgetSuspension, rules, LastActivity, heirs,
          PendingDeletion, timestamp>>

BudgetRecord == [amount : Nat, last_updated : Nat, is_active : BOOLEAN,
                 expires_at : Nat \cup {Unset}]
NoAssets == [a \in Assets |-> Unset]

\* What the proofs assume of the constants.
BudgetAssumption ==
  /\ IsFiniteSet(Users) /\ Owners \subseteq Users /\ IsFiniteSet(Assets)
  /\ Unset \notin Users /\ Unset \notin Int /\ Unset \notin BudgetRecord
  /\ Unset \notin [limits : [Categories -> Int \cup {Unset}], last_updated : Nat]
  /\ Amounts \subseteq Int /\ Timeouts \subseteq Nat /\ DEFAULT_TIMEOUT \in Nat
  /\ Expirations \subseteq Nat \cup {Unset} /\ DELETION_COOLDOWN \in Nat
  /\ BeneficiaryLists \subseteq Seq([address : Users, percentage : Nat])
  /\ MaxAllocated \in Nat /\ MaxTime \in Nat \ {0}

Init == /\ Admin = Unset /\ TotalAllocated = 0
        /\ Budget = [u \in Users |-> Unset]
        /\ BudgetAsset = [u \in Users |-> NoAssets]
        /\ UserBudget = [u \in Users |-> Unset]
        /\ BudgetSuspension = [u \in Users |-> Unset]
        /\ GlobalRules = {} /\ UserRules = [u \in Users |-> {}]
        /\ Delegation = [u \in Users |-> [m \in Users |-> Unset]]
        /\ LastActivity = [u \in Users |-> 0]
        /\ InactivityTimeout = [u \in Users |-> DEFAULT_TIMEOUT]
        /\ Beneficiaries = [u \in Users |-> << >>]
        /\ PendingDeletion = [u \in Users |-> Unset]
        /\ timestamp = 1

Initialize(admin) ==
  /\ Admin = Unset
  /\ Admin' = admin /\ TotalAllocated' = 0
  /\ UNCHANGED <<Budget, BudgetAsset, UserBudget, BudgetSuspension, rules, LastActivity,
                 heirs, PendingDeletion, timestamp>>

RequireAdmin(caller) == Admin # Unset /\ caller = Admin

Touched(u) == [LastActivity EXCEPT ![u] = timestamp]

------------------------------------------------------------------------------
\* Amounts and limits.

Obeys(n, rule) == CASE rule.kind = "MaxAmount" -> n <= rule.bound
                    [] rule.kind = "MinAmount" -> n >= rule.bound
Allowed(u, n) == \A rule \in GlobalRules \cup UserRules[u] : Obeys(n, rule)

AmountOf(u) == IF Budget[u] = Unset THEN 0 ELSE Budget[u].amount
\* A new amount keeps whether the budget is active and when it expires.
FreshRecord(amount) ==
  [amount |-> amount, last_updated |-> timestamp, is_active |-> TRUE, expires_at |-> Unset]
NewRecord(u, amount) ==
  IF Budget[u] = Unset THEN FreshRecord(amount)
  ELSE [Budget[u] EXCEPT !.amount = amount, !.last_updated = timestamp]

\* The amount of an asset, too, replaces the default amount in the total, so
\* the total drifts; the model stops at MaxAllocated.
Reallocated(u, amount) == TotalAllocated - AmountOf(u) + amount
Bounded(u, amount) == Reallocated(u, amount) \in -MaxAllocated..MaxAllocated

UpdateBudget(caller, u, amount, asset) ==
  /\ RequireAdmin(caller)
  /\ amount > 0
  /\ Allowed(u, amount)
  /\ Bounded(u, amount)
  /\ TotalAllocated' = Reallocated(u, amount)
  /\ IF asset = Unset
     THEN /\ Budget' = [Budget EXCEPT ![u] = NewRecord(u, amount)]
          /\ UNCHANGED BudgetAsset
     ELSE /\ BudgetAsset' = [BudgetAsset EXCEPT ![u][asset] = amount]
          /\ UNCHANGED Budget
  /\ LastActivity' = Touched(u)
  /\ UNCHANGED <<Admin, UserBudget, BudgetSuspension, rules, heirs, PendingDeletion, timestamp>>

\* A manager is not held to the rules, and does not count as activity.
DelegatedUpdateBudget(manager, owner, amount) ==
  /\ amount > 0
  /\ Delegation[owner][manager] # Unset
  /\ Delegation[owner][manager].is_active
  /\ amount <= Delegation[owner][manager].max_amount
  /\ Bounded(owner, amount)
  /\ TotalAllocated' = Reallocated(owner, amount)
  /\ Budget' = [Budget EXCEPT ![owner] = NewRecord(owner, amount)]
  /\ UNCHANGED <<Admin, BudgetAsset, UserBudget, BudgetSuspension, rules, LastActivity,
                 heirs, PendingDeletion, timestamp>>

DelegateManager(owner, manager, max_amount) ==
  /\ max_amount > 0
  /\ Delegation' = [Delegation EXCEPT ![owner][manager] =
                      [max_amount |-> max_amount, is_active |-> TRUE]]
  /\ UNCHANGED <<Admin, amounts, UserBudget, BudgetSuspension, GlobalRules, UserRules,
                 LastActivity, heirs, PendingDeletion, timestamp>>

RevokeManager(owner, manager) ==
  /\ Delegation[owner][manager] # Unset
  /\ Delegation' = [Delegation EXCEPT ![owner][manager].is_active = FALSE]
  /\ UNCHANGED <<Admin, amounts, UserBudget, BudgetSuspension, GlobalRules, UserRules,
                 LastActivity, heirs, PendingDeletion, timestamp>>

AddGlobalRule(caller, rule) ==
  /\ RequireAdmin(caller)
  /\ GlobalRules' = GlobalRules \cup {rule}
  /\ UNCHANGED <<Admin, amounts, UserBudget, BudgetSuspension, UserRules, Delegation,
                 LastActivity, heirs, PendingDeletion, timestamp>>

AddUserRule(caller, u, rule) ==
  /\ RequireAdmin(caller)
  /\ UserRules' = [UserRules EXCEPT ![u] = @ \cup {rule}]
  /\ UNCHANGED <<Admin, amounts, UserBudget, BudgetSuspension, GlobalRules, Delegation,
                 LastActivity, heirs, PendingDeletion, timestamp>>

NoLimits == [c \in Categories |-> Unset]
LimitsOf(u) == IF UserBudget[u] = Unset THEN NoLimits ELSE UserBudget[u].limits
WithLimits(limits) == [limits |-> limits, last_updated |-> timestamp]

SetCategoryBudget(caller, u, category, limit) ==
  /\ RequireAdmin(caller)
  /\ limit >= 0
  /\ Allowed(u, limit)
  /\ UserBudget' = [UserBudget EXCEPT ![u] =
                      WithLimits([LimitsOf(u) EXCEPT ![category] = limit])]
  /\ LastActivity' = Touched(u)
  /\ UNCHANGED <<Admin, amounts, BudgetSuspension, rules, heirs, PendingDeletion, timestamp>>

------------------------------------------------------------------------------
\* Suspension.

Suspended(u) == BudgetSuspension[u] # Unset
Over(u) == Suspended(u) /\ BudgetSuspension[u] # 0 /\ timestamp >= BudgetSuspension[u]

Activated(u, active) ==
  IF Budget[u] = Unset THEN Budget ELSE [Budget EXCEPT ![u].is_active = active]

SuspendBudget(caller, u, duration) ==
  /\ RequireAdmin(caller)
  /\ Budget[u] # Unset
  /\ BudgetSuspension' = [BudgetSuspension EXCEPT ![u] =
                            IF duration > 0 THEN timestamp + duration ELSE 0]
  /\ Budget' = Activated(u, FALSE)
  /\ UNCHANGED <<Admin, TotalAllocated, BudgetAsset, UserBudget, rules, LastActivity, heirs,
                 PendingDeletion, timestamp>>

ResumeBudget(caller, u) ==
  /\ RequireAdmin(caller)
  /\ BudgetSuspension' = [BudgetSuspension EXCEPT ![u] = Unset]
  /\ Budget' = Activated(u, TRUE)
  /\ UNCHANGED <<Admin, TotalAllocated, BudgetAsset, UserBudget, rules, LastActivity, heirs,
                 PendingDeletion, timestamp>>

AutoResume(u) ==
  IF Over(u) THEN /\ BudgetSuspension' = [BudgetSuspension EXCEPT ![u] = Unset]
                  /\ Budget' = Activated(u, TRUE)
  ELSE UNCHANGED <<BudgetSuspension, Budget>>

\* The query is_budget_suspended resumes a budget whose time is over.
AskSuspended(u) ==
  /\ AutoResume(u)
  /\ UNCHANGED <<Admin, TotalAllocated, BudgetAsset, UserBudget, rules, LastActivity, heirs,
                 PendingDeletion, timestamp>>

Expired(u) == /\ Budget[u] # Unset
              /\ Budget[u].expires_at # Unset /\ timestamp >= Budget[u].expires_at

\* Of the two bodies the file has for assert_active_and_not_expired, this is
\* the first, which knows of suspensions.  A call that it refuses has no effect:
\* the deactivation of an expired budget is undone with the call.
AssertActive(u) ==
  /\ ~Suspended(u) \/ Over(u)
  /\ Budget[u] # Unset => Budget[u].is_active \/ Over(u)
  /\ ~Expired(u)

TransferBetweenCategories(u, from, to, amount) ==
  LET limits == LimitsOf(u) IN
  /\ AssertActive(u)
  /\ amount > 0 /\ from # to
  /\ limits[from] # Unset /\ limits[to] # Unset
  /\ amount <= limits[from]
  /\ limits[to] + amount <= MaxAllocated
  /\ AutoResume(u)
  /\ UserBudget' = [UserBudget EXCEPT ![u] =
       WithLimits([limits EXCEPT ![from] = @ - amount, ![to] = @ + amount])]
  /\ LastActivity' = Touched(u)
  /\ UNCHANGED <<Admin, TotalAllocated, BudgetAsset, rules, heirs, PendingDeletion, timestamp>>

------------------------------------------------------------------------------
\* Expiration and deletion.

ConfigureExpiration(caller, u, expires_at) ==
  /\ RequireAdmin(caller)
  /\ Budget[u] # Unset
  /\ Budget' = [Budget EXCEPT ![u].expires_at = expires_at]
  /\ UNCHANGED <<Admin, TotalAllocated, BudgetAsset, UserBudget, BudgetSuspension, rules,
                 LastActivity, heirs, PendingDeletion, timestamp>>

\* Unlike a suspension this has no end, but the end of a suspension, or
\* resume_budget, undoes it.
MarkInactive(caller, u) ==
  /\ RequireAdmin(caller)
  /\ Budget[u] # Unset
  /\ Budget' = Activated(u, FALSE)
  /\ UNCHANGED <<Admin, TotalAllocated, BudgetAsset, UserBudget, BudgetSuspension, rules,
                 LastActivity, heirs, PendingDeletion, timestamp>>

DeactivateIfExpired(u) ==
  /\ Expired(u)
  /\ Budget' = Activated(u, FALSE)
  /\ UNCHANGED <<Admin, TotalAllocated, BudgetAsset, UserBudget, BudgetSuspension, rules,
                 LastActivity, heirs, PendingDeletion, timestamp>>

ScheduleDeletion(caller, u) ==
  /\ RequireAdmin(caller)
  /\ Budget[u] # Unset
  /\ PendingDeletion' = [PendingDeletion EXCEPT ![u] = timestamp + DELETION_COOLDOWN]
  /\ UNCHANGED <<Admin, amounts, UserBudget, BudgetSuspension, rules, LastActivity, heirs,
                 timestamp>>

CancelDeletion(caller, u) ==
  /\ RequireAdmin(caller)
  /\ PendingDeletion[u] # Unset
  /\ PendingDeletion' = [PendingDeletion EXCEPT ![u] = Unset]
  /\ UNCHANGED <<Admin, amounts, UserBudget, BudgetSuspension, rules, LastActivity, heirs,
                 timestamp>>

NumberOf(n) == IF n = Unset THEN 0 ELSE n
SumOf(f) == FoldFunction(+, 0, [x \in DOMAIN f |-> NumberOf(f[x])])

\* Everything the user has of any asset leaves the one total; limits, the
\* suspension and the beneficiaries stay.
ExecuteDeletion(caller, u) ==
  /\ RequireAdmin(caller)
  /\ PendingDeletion[u] # Unset /\ timestamp >= PendingDeletion[u]
  /\ TotalAllocated - AmountOf(u) - SumOf(BudgetAsset[u]) >= -MaxAllocated
  /\ TotalAllocated' = TotalAllocated - AmountOf(u) - SumOf(BudgetAsset[u])
  /\ Budget' = [Budget EXCEPT ![u] = Unset]
  /\ BudgetAsset' = [BudgetAsset EXCEPT ![u] = NoAssets]
  /\ PendingDeletion' = [PendingDeletion EXCEPT ![u] = Unset]
  /\ UNCHANGED <<Admin, UserBudget, BudgetSuspension, rules, LastActivity, heirs, timestamp>>

------------------------------------------------------------------------------
\* Inactivity.

SetInactivityTimeout(u, timeout) ==
  /\ InactivityTimeout' = [InactivityTimeout EXCEPT ![u] = timeout]
  /\ LastActivity' = Touched(u)
  /\ UNCHANGED <<Admin, amounts, UserBudget, BudgetSuspension, rules, Beneficiaries,
                 PendingDeletion, timestamp>>

PercentageSum(list) == FoldFunction(+, 0, [i \in DOMAIN list |-> list[i].percentage])

\* A beneficiary may be named twice, or be the owner.
RegisterBeneficiaries(u, list) ==
  /\ list # << >> => /\ \A i \in DOMAIN list : list[i].percentage # 0
                     /\ PercentageSum(list) = 100
  /\ Beneficiaries' = [Beneficiaries EXCEPT ![u] = list]
  /\ LastActivity' = Touched(u)
  /\ UNCHANGED <<Admin, amounts, UserBudget, BudgetSuspension, rules, InactivityTimeout,
                 PendingDeletion, timestamp>>

ActiveAt(u) == IF LastActivity[u] > 0 THEN LastActivity[u]
               ELSE IF Budget[u] # Unset THEN Budget[u].last_updated
               ELSE IF UserBudget[u] # Unset THEN UserBudget[u].last_updated
               ELSE 0
IsInactive(u) == ActiveAt(u) # 0 /\ timestamp >= ActiveAt(u) + InactivityTimeout[u]

Names(list) == {list[i].address : i \in DOMAIN list}

Share(n, percentage) == (n * percentage) \div 100

\* What u gets of an amount n of the owner, over all its entries in the list.
Entries(list, u) == {i \in DOMAIN list : list[i].address = u}
Shares(list, n) == [i \in DOMAIN list |-> Share(n, list[i].percentage)]
Gets(owner, u, n) ==
  FoldFunctionOnSet(+, 0, Shares(Beneficiaries[owner], n), Entries(Beneficiaries[owner], u))

\* The owner's amount of an asset is read again for each entry, after what the
\* owner itself got as a beneficiary before.
HeldAfter(list, owner, n) ==
  LET held[i \in 0..Len(list)] ==
        IF i = 0 THEN n
        ELSE held[i - 1] + (IF list[i].address = owner
                            THEN Share(held[i - 1], list[i].percentage) ELSE 0)
  IN  held
SharesOfHeld(list, owner, n) ==
  [i \in DOMAIN list |-> Share(HeldAfter(list, owner, n)[i - 1], list[i].percentage)]
GetsOfAsset(owner, u, n) ==
  FoldFunctionOnSet(+, 0, SharesOfHeld(Beneficiaries[owner], owner, n),
                    Entries(Beneficiaries[owner], u))

Plus(n, share) == IF share = 0 THEN n ELSE IF n = Unset THEN share ELSE n + share

BudgetAfter(owner, u) ==
  LET share == Gets(owner, u, AmountOf(owner)) IN
  CASE u = owner -> Unset
    [] u # owner /\ share = 0 -> Budget[u]
    [] u # owner /\ share > 0 ->
         IF Budget[u] = Unset THEN FreshRecord(share)
         ELSE [Budget[u] EXCEPT !.amount = @ + share, !.last_updated = timestamp]

AssetsAfter(owner, u) ==
  IF u = owner THEN NoAssets
  ELSE [a \in Assets |->
          IF BudgetAsset[owner][a] = Unset THEN BudgetAsset[u][a]
          ELSE Plus(BudgetAsset[u][a], GetsOfAsset(owner, u, BudgetAsset[owner][a]))]

LimitsAfter(owner, u) ==
  IF u = owner THEN Unset
  ELSE IF UserBudget[owner] = Unset \/ u \notin Names(Beneficiaries[owner]) THEN UserBudget[u]
  ELSE WithLimits([c \in Categories |->
         IF LimitsOf(owner)[c] = Unset THEN LimitsOf(u)[c]
         ELSE Plus(LimitsOf(u)[c], Gets(owner, u, LimitsOf(owner)[c]))])

\* The total stays, and so do the owner's suspension and delegations.
DistributeRemainingFunds(caller, owner) ==
  /\ Admin # Unset
  /\ IsInactive(owner)
  /\ Beneficiaries[owner] # << >>
  /\ caller \in Names(Beneficiaries[owner]) \cup {Admin}
  /\ Budget' = [u \in Users |-> BudgetAfter(owner, u)]
  /\ BudgetAsset' = [u \in Users |-> AssetsAfter(owner, u)]
  /\ UserBudget' = [u \in Users |-> LimitsAfter(owner, u)]
  /\ LastActivity' = [LastActivity EXCEPT ![owner] = 0]
  /\ InactivityTimeout' = [InactivityTimeout EXCEPT ![owner] = DEFAULT_TIMEOUT]
  /\ Beneficiaries' = [Beneficiaries EXCEPT ![owner] = << >>]
  /\ UNCHANGED <<Admin, TotalAllocated, BudgetSuspension, rules, PendingDeletion, timestamp>>

CloseLedger ==
  /\ timestamp < MaxTime
  /\ timestamp' = timestamp + 1
  /\ UNCHANGED <<Admin, amounts, UserBudget, BudgetSuspension, rules, LastActivity, heirs,
                 PendingDeletion>>

\* Every call, in groups that a small instance can exercise one at a time.
Allocating ==
  \/ \E u \in Users : Initialize(u)
  \/ \E c \in Users, u \in Owners, n \in Amounts, a \in Assets \cup {Unset} : UpdateBudget(c, u, n, a)
Ruling ==
  \/ \E m \in Users, u \in Owners, n \in Amounts : DelegatedUpdateBudget(m, u, n) \/ DelegateManager(u, m, n)
  \/ \E m \in Users, u \in Owners : RevokeManager(u, m)
  \/ \E c \in Users, r \in Rules : AddGlobalRule(c, r) \/ \E u \in Owners : AddUserRule(c, u, r)
Limiting ==
  \E c \in Users, u \in Owners, k \in Categories, n \in Amounts : SetCategoryBudget(c, u, k, n)
Suspending ==
  \/ \E c \in Users, u \in Owners : (\E d \in {0, 1} : SuspendBudget(c, u, d)) \/ ResumeBudget(c, u)
  \/ \E u \in Owners : AskSuspended(u)
Transferring ==
  \E u \in Owners, f, t \in Categories, n \in Amounts : TransferBetweenCategories(u, f, t, n)
Expiring ==
  \/ \E c \in Users, u \in Owners, t \in Expirations : ConfigureExpiration(c, u, t)
  \/ \E c \in Users, u \in Owners : MarkInactive(c, u)
  \/ \E u \in Owners : DeactivateIfExpired(u)
  \/ \E c \in Users, u \in Owners :
       ScheduleDeletion(c, u) \/ CancelDeletion(c, u) \/ ExecuteDeletion(c, u)
Inheriting ==
  \/ \E u \in Owners, t \in Timeouts : SetInactivityTimeout(u, t)
  \/ \E u \in Owners, l \in BeneficiaryLists : RegisterBeneficiaries(u, l)
  \/ \E c \in Users, u \in Owners : DistributeRemainingFunds(c, u)

Next == Allocating \/ Ruling \/ Limiting \/ Suspending \/ Transferring
        \/ Expiring \/ Inheriting \/ CloseLedger

Spec == Init /\ [][Next]_vars

------------------------------------------------------------------------------
\* Every reachable state is well formed.
TypeOK ==
  /\ Admin \in Users \cup {Unset} /\ TotalAllocated \in Int
  /\ \A u \in Users :
       /\ Budget[u] # Unset => Budget[u] \in BudgetRecord
       /\ \A a \in Assets : BudgetAsset[u][a] # Unset => BudgetAsset[u][a] \in Nat
       /\ \A c \in Categories : LimitsOf(u)[c] # Unset => LimitsOf(u)[c] \in Nat
       /\ Beneficiaries[u] # << >> => PercentageSum(Beneficiaries[u]) = 100
       /\ LastActivity[u] \in 0..timestamp
  /\ timestamp \in 1..MaxTime

AllAmounts == SumOf([u \in Users |-> AmountOf(u)])
AllOf(a) == SumOf([u \in Users |-> BudgetAsset[u][a]])
AllLimits(c) == SumOf([u \in Users |-> LimitsOf(u)[c]])

\* Distributing an inactive user's budget creates nothing: whoever the
\* beneficiaries are, the users together have no more of the default amount, of
\* an asset or of a category's limit than before, and the owner has none left.
DistributionCreatesNothing ==
  [][\A u \in Users :
       Beneficiaries[u] # << >> /\ Beneficiaries'[u] = << >> /\ LastActivity'[u] = 0 =>
         /\ AllAmounts' <= AllAmounts /\ AmountOf(u)' = 0
         /\ \A a \in Assets : AllOf(a)' <= AllOf(a)
         /\ \A c \in Categories : AllLimits(c)' <= AllLimits(c)]_vars
===============================================================================
