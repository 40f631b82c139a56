---------------------------- MODULE SpendingRecords ----------------------------
(***************************************************************************)
(* Three contracts that classify and limit what users spend: categories    *)
(* (contracts/spending-categories/src/lib.rs), category budgets            *)
(* (overdraft.rs) and a transaction rate limit (rate_limit.rs).  They      *)
(* share no storage; each has its own group of actions.                    *)
(***************************************************************************)
EXTENDS Integers, Sequences, FiniteSets

CONSTANTS Users, Unset,
          Names,             \* names of categories
          ReservedNames,     \* those validate_category_name refuses
          BudgetLists,       \* categories arguments of set_user_budget
          BudgetLimits, Amounts,
          RateConfigs,       \* arguments of set_config
          DefaultRate,       \* RateLimitConfig::default
          MaxCategories, MaxSpent, MaxTime    \* bounds of the model

VARIABLES categoryAdmin, LastCategoryId, TotalCategories, Category, CategoryByName,
          UserCategories,
          overdraftAdmin,
          CategoryBudget,    \* <<user, name>> -> limit and spent: the UserBudget maps
          BudgetUsers,       \* the users who have a UserBudget, maybe an empty one
          RateConfig,        \* Unset until the first set_config
          RateLimitCount,    \* <<wallet, window start>> -> count
          timestamp,
          admitted,          \* history: user -> the calls admitted so far
          admittedBefore,    \* history: admittedBefore[t + 1] is admitted as second t began
          configured         \* history: when the configuration was set last, or -1

categoryVars == <<categoryAdmin, LastCategoryId, TotalCategories, Category, CategoryByName,
                  UserCategories>>
overdraftVars == <<overdraftAdmin, CategoryBudget, BudgetUsers>>
rateVars == <<RateConfig, RateLimitCount, timestamp, admitted, admittedBefore, configured>>
vars == <<categoryVars, overdraftVars, rateVars>>

RateSettings == [max_tx : Nat, window : Nat, warn : Nat, overspend : BOOLEAN]

\* What the proofs assume of the constants.
RecordsAssumption ==
  /\ Unset \notin Users /\ Unset \notin RateSettings
  /\ BudgetLists \subseteq Seq([name : Names, limit : Int, spent : Int])
  /\ \A list \in BudgetLists : \A i \in DOMAIN list : list[i].spent <= MaxSpent
  /\ BudgetLimits \subseteq Int /\ Amounts \subseteq Int
  /\ RateConfigs \subseteq RateSettings /\ DefaultRate \in RateSettings
  /\ MaxCategories \in Nat /\ MaxSpent \in Nat /\ MaxTime \in Nat

Stored(f, k, v) == [x \in DOMAIN f \cup {k} |-> IF x = k THEN v ELSE f[x]]

Init ==
  /\ categoryAdmin = Unset /\ LastCategoryId = 0 /\ TotalCategories = 0
  /\ Category = << >> /\ CategoryByName = << >> /\ UserCategories = [u \in Users |-> << >>]
  /\ overdraftAdmin = Unset /\ CategoryBudget = << >> /\ BudgetUsers = {}
  /\ RateConfig = Unset /\ RateLimitCount = << >> /\ timestamp = 0
  /\ admitted = [u \in Users |-> 0] /\ admittedBefore = <<admitted>> /\ configured = -1

------------------------------------------------------------------------------
\* spending-categories.

InitializeCategories(a) ==
  /\ categoryAdmin = Unset
  /\ categoryAdmin' = a /\ LastCategoryId' = 0 /\ TotalCategories' = 0
  /\ UNCHANGED <<Category, CategoryByName, UserCategories>>

CreateCategory(caller, user, name) ==
  LET id == LastCategoryId + 1 IN
  /\ categoryAdmin # Unset /\ caller = categoryAdmin
  /\ name \notin ReservedNames
  /\ <<user, name>> \notin DOMAIN CategoryByName
  /\ id <= MaxCategories
  /\ Category' = Stored(Category, id, [user |-> user, name |-> name])
  /\ CategoryByName' = Stored(CategoryByName, <<user, name>>, id)
  /\ UserCategories' = [UserCategories EXCEPT ![user] = Append(@, id)]
  /\ LastCategoryId' = id /\ TotalCategories' = TotalCategories + 1
  /\ UNCHANGED categoryAdmin

\* The index after category c takes a new name; the same name again changes
\* nothing.
Reindexed(c, name) ==
  LET old == <<Category[c].user, Category[c].name>>
  IN  Stored([k \in DOMAIN CategoryByName \ {old} |-> CategoryByName[k]],
             <<Category[c].user, name>>, c)

RenameCategory(caller, c, name) ==
  /\ categoryAdmin # Unset /\ caller = categoryAdmin
  /\ name \notin ReservedNames
  /\ c \in DOMAIN Category
  /\ name = Category[c].name \/ <<Category[c].user, name>> \notin DOMAIN CategoryByName
  /\ CategoryByName' = Reindexed(c, name)
  /\ Category' = [Category EXCEPT ![c].name = name]
  /\ UNCHANGED <<categoryAdmin, LastCategoryId, TotalCategories, UserCategories>>

SetCategoryAdmin(caller, a) ==
  /\ categoryAdmin # Unset /\ caller = categoryAdmin
  /\ categoryAdmin' = a
  /\ UNCHANGED <<LastCategoryId, TotalCategories, Category, CategoryByName, UserCategories>>

Categorizing ==
  /\ \/ \E a \in Users : InitializeCategories(a)
     \/ \E c, u \in Users, n \in Names : CreateCategory(c, u, n)
     \/ \E c \in Users, k \in 1..MaxCategories, n \in Names : RenameCategory(c, k, n)
     \/ \E c, a \in Users : SetCategoryAdmin(c, a)
  /\ UNCHANGED <<overdraftVars, rateVars>>

------------------------------------------------------------------------------
\* overdraft: validate_transaction counts an attempt it refuses and panics, so
\* the count is undone with the call and stays at zero.

Remaining(k) == CategoryBudget[k].limit - CategoryBudget[k].spent

InitializeOverdraft(a) ==
  /\ overdraftAdmin = Unset /\ overdraftAdmin' = a
  /\ UNCHANGED <<CategoryBudget, BudgetUsers>>

IsOverdraftAdmin(caller) == overdraftAdmin # Unset /\ caller = overdraftAdmin

\* Of two entries with one name the later wins; the user's other categories go.
\* Only the limit is checked: what an entry says was spent may be negative.
SetUserBudget(caller, user, list) ==
  LET Last(n) == CHOOSE i \in DOMAIN list :
                   list[i].name = n /\ \A j \in DOMAIN list : list[j].name = n => j <= i
      named == {<<user, list[i].name>> : i \in DOMAIN list} IN
  /\ IsOverdraftAdmin(caller)
  /\ \A i \in DOMAIN list : list[i].limit >= 0
  /\ CategoryBudget' =
       [k \in {k \in DOMAIN CategoryBudget : k[1] # user} \cup named |->
          IF k \in named THEN [limit |-> list[Last(k[2])].limit, spent |-> list[Last(k[2])].spent]
          ELSE CategoryBudget[k]]
  /\ BudgetUsers' = BudgetUsers \cup {user}
  /\ UNCHANGED overdraftAdmin

\* What was spent in the category is forgotten.
SetCategoryBudget(caller, user, name, limit) ==
  /\ IsOverdraftAdmin(caller) /\ limit >= 0
  /\ CategoryBudget' = Stored(CategoryBudget, <<user, name>>, [limit |-> limit, spent |-> 0])
  /\ BudgetUsers' = BudgetUsers \cup {user}
  /\ UNCHANGED overdraftAdmin

Spent(k, amount) ==
  /\ k \in DOMAIN CategoryBudget /\ amount > 0
  /\ CategoryBudget[k].spent + amount <= MaxSpent
  /\ CategoryBudget' = [CategoryBudget EXCEPT ![k].spent = @ + amount]
  /\ UNCHANGED <<overdraftAdmin, BudgetUsers>>

Affordable(k, amount) == amount <= Remaining(k)
ValidateTransaction(user, name, amount) ==
  /\ Spent(<<user, name>>, amount)
  /\ Affordable(<<user, name>>, amount)

\* The administrator records whatever was spent, beyond the limit too.
RecordSpending(caller, user, name, amount) ==
  IsOverdraftAdmin(caller) /\ Spent(<<user, name>>, amount)

ResetSpending(caller, user) ==
  /\ IsOverdraftAdmin(caller) /\ user \in BudgetUsers
  /\ CategoryBudget' = [k \in DOMAIN CategoryBudget |->
       IF k[1] = user THEN [CategoryBudget[k] EXCEPT !.spent = 0] ELSE CategoryBudget[k]]
  /\ UNCHANGED <<overdraftAdmin, BudgetUsers>>

Overdrawing ==
  /\ \/ \E a \in Users : InitializeOverdraft(a)
     \/ \E c, u \in Users, l \in BudgetLists : SetUserBudget(c, u, l)
     \/ \E c, u \in Users, n \in Names, l \in BudgetLimits : SetCategoryBudget(c, u, n, l)
     \/ \E u \in Users, n \in Names, a \in Amounts : ValidateTransaction(u, n, a)
     \/ \E c, u \in Users, n \in Names, a \in Amounts : RecordSpending(c, u, n, a)
     \/ \E c, u \in Users : ResetSpending(c, u)
  /\ UNCHANGED <<categoryVars, rateVars>>

------------------------------------------------------------------------------
\* rate_limit: anybody may set the configuration, and a window of 0 makes
\* every later check fail.

Rate == IF RateConfig = Unset THEN DefaultRate ELSE RateConfig
Window == timestamp - (timestamp % Rate.window)
CountAt(k) == IF k \in DOMAIN RateLimitCount THEN RateLimitCount[k] ELSE 0

\* Mutant: the hard limit is passed by one.
AdmittedOver(n) == n <= Rate.max_tx /\ (n < Rate.warn \/ Rate.overspend)
Admitted(n) == n < Rate.max_tx /\ (n < Rate.warn \/ Rate.overspend)

CheckAndRecord(wallet) ==
  LET k == <<wallet, Window>> IN
  /\ Rate.window # 0
  /\ Admitted(CountAt(k))
  /\ RateLimitCount' = Stored(RateLimitCount, k, CountAt(k) + 1)
  /\ admitted' = [admitted EXCEPT ![wallet] = @ + 1]
  /\ UNCHANGED <<RateConfig, timestamp, admittedBefore, configured>>

SetConfig(config) ==
  /\ RateConfig' = config
  /\ configured' = timestamp
  /\ UNCHANGED <<RateLimitCount, timestamp, admitted, admittedBefore>>

CloseLedger ==
  /\ timestamp < MaxTime
  /\ timestamp' = timestamp + 1
  /\ admittedBefore' = Append(admittedBefore, admitted)
  /\ UNCHANGED <<RateConfig, RateLimitCount, admitted, configured>>

RateLimiting ==
  /\ \/ \E u \in Users : CheckAndRecord(u)
     \/ \E c \in RateConfigs : SetConfig(c)
     \/ CloseLedger
  /\ UNCHANGED <<categoryVars, overdraftVars>>

Next == Categorizing \/ Overdrawing \/ RateLimiting
Spec == Init /\ [][Next]_vars

------------------------------------------------------------------------------
\* Every reachable state is well formed.
TypeOK ==
  /\ {categoryAdmin, overdraftAdmin} \subseteq Users \cup {Unset}
  /\ DOMAIN Category = 1..LastCategoryId /\ TotalCategories \in Nat
  /\ \A c \in DOMAIN Category : Category[c].user \in Users
                                /\ Category[c].name \in Names \ ReservedNames
  /\ DOMAIN CategoryBudget \subseteq BudgetUsers \X Names
  /\ \A k \in DOMAIN CategoryBudget :
       CategoryBudget[k].limit \in Nat /\ CategoryBudget[k].spent \in Int
  /\ \A k \in DOMAIN RateLimitCount : k[1] \in Users /\ k[2] \in 0..MaxTime

\* The name index is exactly the inverse of the categories' names, through any
\* sequence of renames, a name given back and taken again included; and the
\* users' lists and the total count the same categories.
NamesAgree ==
  /\ DOMAIN CategoryByName = {<<Category[c].user, Category[c].name>> : c \in DOMAIN Category}
  /\ \A c \in DOMAIN Category : CategoryByName[<<Category[c].user, Category[c].name>>] = c
  /\ \A u \in Users :
       LET list == UserCategories[u] IN
       /\ {list[i] : i \in DOMAIN list} = {c \in DOMAIN Category : Category[c].user = u}
       /\ \A i, j \in DOMAIN list : i < j => list[i] < list[j]
  /\ TotalCategories = Cardinality(DOMAIN Category)

\* The calls of u that were admitted since second start began.
AdmittedSince(u, start) == admitted[u] - admittedBefore[start + 1][u]

\* Windows of different lengths share counts when they start together, and a
\* window that starts elsewhere does not know what an earlier one counted.  Yet
\* the count of a window never holds a call from outside of it; and unless the
\* configuration was changed within the window, the count holds all its calls,
\* and they are no more than the limit.
WindowsHoldTheirCalls ==
  Rate.window # 0 =>
    \A u \in Users :
      /\ CountAt(<<u, Window>>) <= AdmittedSince(u, Window)
      /\ configured < Window =>
           /\ CountAt(<<u, Window>>) = AdmittedSince(u, Window)
           /\ AdmittedSince(u, Window) <= Rate.max_tx
===============================================================================
