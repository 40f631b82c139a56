---------------------------- MODULE SharedBudgets ----------------------------
(***************************************************************************)
(* The shared budgets contract (contracts/shared-budgets/src): any number  *)
(* of budgets, each in the token its creator chose, all backed by the      *)
(* contract's own token balances.  Budgets are deactivated for good and    *)
(* later moved to an archive by an administrator's sweep.  A call is       *)
(* atomic; its guard is everything that must not panic.                    *)
(***************************************************************************)
EXTENDS Sums, Sequences, FiniteSets

CONSTANTS Users, Contract,     \* signers; the address of the contract
          None,                \* an unset key
          ZeroAddress,         \* an address nobody can sign for
          Tokens,
          MemberLists,         \* members arguments of create_budget
          Rules,               \* spending rules callers add
          Amounts, Retentions, SweepLimits,
          MAX_BUDGET_MEMBERS, MAX_SPENDING_RULES,
          F64Below,            \* <<total, percentage>> whose f64 product is
                               \* just below the exact whole number
          Opening,             \* token balances before the first call
          EarlyCalls,          \* may budgets be created before initialize?
          MaxBudgets, MaxContributions, MaxTime

Accounts == Users \cup {Contract}
Rule == [applicable_to : Users \cup {ZeroAddress}, percentage_threshold : Nat,
         requires_approval : BOOLEAN]

ASSUME AddressAssumption == /\ Contract \notin Users
                            /\ None \notin Users \cup Nat
                            /\ ZeroAddress \notin Users
ASSUME InputAssumption == /\ \A ms \in MemberLists : ms \in Seq(Users)
                          /\ Rules \subseteq Rule
                          /\ Amounts \subseteq Int
                          /\ Retentions \subseteq Nat /\ SweepLimits \subseteq Nat
                          /\ Opening \in [Tokens -> [Accounts -> Nat]]
ASSUME BoundAssumption == /\ MAX_BUDGET_MEMBERS \in Nat /\ MAX_SPENDING_RULES \in Nat
                          /\ MaxBudgets \in Nat /\ MaxContributions \in Nat
                          /\ MaxTime \in Nat /\ EarlyCalls \in BOOLEAN

VARIABLES admin,
          budget,                    \* DataKey::Budget(id), live budgets only
          archive,                   \* DataKey::ArchivedBudget(id)
          BudgetMember,              \* the set of <<id, address>> keys that are true
          contribution,              \* DataKey::Contribution(1..TotalContributionsProcessed)
          BudgetContributions,       \* id -> contribution numbers
          BudgetDeactivatedAt,
          TotalBudgetsCreated, TotalContributionsProcessed,
          ArchiveRetentionPeriod,
          wallet,                    \* the token contracts' balances
          timestamp

counters == <<TotalBudgetsCreated, TotalContributionsProcessed>>
history  == <<contribution, BudgetContributions>>
vars == <<admin, budget, archive, BudgetMember, history, BudgetDeactivatedAt, counters,
          ArchiveRetentionPeriod, wallet, timestamp>>

Budget == [creator : Users, token : Tokens, members : Seq(Users), balance : Int,
           total_contributed : Int, spending_rules : Seq(Rule), is_active : BOOLEAN,
           created_at : Nat]

Live == DOMAIN budget
Archived == DOMAIN archive

Init ==
  /\ admin = None
  /\ budget = << >> /\ archive = << >>
  /\ BudgetMember = {}
  /\ contribution = << >>
  /\ BudgetContributions = [b \in 1..MaxBudgets |-> << >>]
  /\ BudgetDeactivatedAt = [b \in 1..MaxBudgets |-> None]
  /\ TotalBudgetsCreated = 0 /\ TotalContributionsProcessed = 0
  /\ ArchiveRetentionPeriod = 0
  /\ wallet = Opening
  /\ timestamp = 0

Move(balances, token, from, to, amount) ==
  [balances EXCEPT ![token] =
     [u \in Accounts |-> @[u] + (IF u = to THEN amount ELSE 0)
                              - (IF u = from THEN amount ELSE 0)]]

IsAdmin(caller) == admin # None /\ caller = admin
MayManage(caller, b) == caller = budget[b].creator \/ IsAdmin(caller)

------------------------------------------------------------------------------
\* Both counters restart, whatever was stored before the first initialize.
Initialize(a) ==
  /\ admin = None
  /\ admin' = a
  /\ TotalBudgetsCreated' = 0 /\ TotalContributionsProcessed' = 0
  /\ ArchiveRetentionPeriod' = 0
  /\ UNCHANGED <<budget, archive, BudgetMember, history, BudgetDeactivatedAt, wallet,
                 timestamp>>

NextBudgetId == TotalBudgetsCreated + 1

\* create_budget needs no administrator; EarlyCalls = FALSE assumes that the
\* deployer initializes the contract before anybody uses it.
CreateBudget(creator, token, members, rules) ==
  LET id == NextBudgetId IN
  /\ EarlyCalls \/ admin # None
  /\ Len(members) <= MAX_BUDGET_MEMBERS
  /\ Len(rules) <= MAX_SPENDING_RULES
  /\ \A i \in DOMAIN rules : rules[i].percentage_threshold <= 100
  /\ id <= MaxBudgets
  /\ budget' = [b \in Live \cup {id} |->
                  IF b = id
                  THEN [creator |-> creator, token |-> token, members |-> members,
                        balance |-> 0, total_contributed |-> 0,
                        spending_rules |-> rules, is_active |-> TRUE,
                        created_at |-> timestamp]
                  ELSE budget[b]]
  /\ TotalBudgetsCreated' = id
  /\ BudgetMember' = BudgetMember \cup {<<id, members[i]>> : i \in DOMAIN members}
  /\ UNCHANGED <<admin, archive, history, BudgetDeactivatedAt, TotalContributionsProcessed,
                 ArchiveRetentionPeriod, wallet, timestamp>>

\* Mutant: the state of the budget is not looked at.
AcceptsMoneyAny(b) == b \in Live
AcceptsMoney(b) == b \in Live /\ budget[b].is_active

ContributeToBudget(contributor, b, amount) ==
  LET n == TotalContributionsProcessed + 1
      token == budget[b].token IN
  /\ amount > 0
  /\ AcceptsMoney(b)
  /\ wallet[token][contributor] >= amount
  /\ n <= MaxContributions
  /\ wallet' = Move(wallet, token, contributor, Contract, amount)
  /\ budget' = [budget EXCEPT ![b].balance = @ + amount, ![b].total_contributed = @ + amount]
  /\ contribution' = [i \in DOMAIN contribution \cup {n} |->
                        IF i = n THEN [budget_id |-> b, contributor |-> contributor,
                                       amount |-> amount, timestamp |-> timestamp]
                        ELSE contribution[i]]
  /\ BudgetContributions' = [BudgetContributions EXCEPT ![b] = Append(@, n)]
  /\ TotalContributionsProcessed' = n
  /\ UNCHANGED <<admin, archive, BudgetMember, BudgetDeactivatedAt, TotalBudgetsCreated,
                 ArchiveRetentionPeriod, timestamp>>

\* The share of all contributions a rule lets its address spend at once,
\* computed in f64 and truncated.
Threshold(total, percentage) ==
  IF total <= 0 THEN 0
  ELSE (total * percentage) \div 100 - (IF <<total, percentage>> \in F64Below THEN 1 ELSE 0)

WithinRules(r, spender, amount) ==
  \A i \in DOMAIN r.spending_rules :
    LET rule == r.spending_rules[i] IN
    rule.applicable_to = spender
      => amount <= Threshold(r.total_contributed, rule.percentage_threshold)
         \/ rule.requires_approval

\* Mutant: what the contract holds is compared instead of the budget's balance.
CoveredByContract(r, amount) == wallet[r.token][Contract] >= amount
Covered(r, amount) == r.balance >= amount

\* Mutant: the lowered balance is not stored.
DebitedUnsaved(r, amount) == r
Debited(r, amount) == [r EXCEPT !.balance = @ - amount]

SpendFromBudget(spender, b, recipient, amount) ==
  LET r == budget[b] IN
  /\ amount > 0
  /\ AcceptsMoney(b)
  /\ <<b, spender>> \in BudgetMember
  /\ Covered(r, amount)
  /\ WithinRules(r, spender, amount)
  /\ wallet[r.token][Contract] >= amount
  /\ wallet' = Move(wallet, r.token, Contract, recipient, amount)
  /\ budget' = [budget EXCEPT ![b] = Debited(@, amount)]
  /\ UNCHANGED <<admin, archive, BudgetMember, history, BudgetDeactivatedAt, counters,
                 ArchiveRetentionPeriod, timestamp>>

\* Both owners sign; handing a budget to oneself changes nothing.
TransferBudgetOwnership(owner, b, new_owner) ==
  /\ owner = budget[b].creator
  /\ budget' = [budget EXCEPT ![b].creator = new_owner]
  /\ UNCHANGED <<admin, archive, BudgetMember, history, BudgetDeactivatedAt, counters,
                 ArchiveRetentionPeriod, wallet, timestamp>>

\* Mutant: only the member key is written.
EnrolledKeyOnly(r, new_member) == r
Enrolled(r, new_member) == [r EXCEPT !.members = Append(@, new_member)]

AddMemberToBudget(caller, b, new_member) ==
  /\ MayManage(caller, b)
  /\ <<b, new_member>> \notin BudgetMember
  /\ Len(budget[b].members) < MAX_BUDGET_MEMBERS
  /\ budget' = [budget EXCEPT ![b] = Enrolled(@, new_member)]
  /\ BudgetMember' = BudgetMember \cup {<<b, new_member>>}
  /\ UNCHANGED <<admin, archive, history, BudgetDeactivatedAt, counters,
                 ArchiveRetentionPeriod, wallet, timestamp>>

AddSpendingRule(caller, b, rule) ==
  /\ MayManage(caller, b)
  /\ rule.percentage_threshold <= 100
  /\ Len(budget[b].spending_rules) < MAX_SPENDING_RULES
  /\ budget' = [budget EXCEPT ![b].spending_rules = Append(@, rule)]
  /\ UNCHANGED <<admin, archive, BudgetMember, history, BudgetDeactivatedAt, counters,
                 ArchiveRetentionPeriod, wallet, timestamp>>

SetArchiveRetentionPeriod(caller, seconds) ==
  /\ IsAdmin(caller)
  /\ seconds # 0
  /\ ArchiveRetentionPeriod' = seconds
  /\ UNCHANGED <<admin, budget, archive, BudgetMember, history, BudgetDeactivatedAt,
                 counters, wallet, timestamp>>

\* A second deactivation returns early and keeps the first time.
\* Mutant: the retention time starts again.
DeactivationTimeLatest(b) == timestamp
DeactivationTime(b) == IF budget[b].is_active THEN timestamp ELSE BudgetDeactivatedAt[b]

DeactivateBudget(caller, b) ==
  /\ MayManage(caller, b)
  /\ budget' = [budget EXCEPT ![b].is_active = FALSE]
  /\ BudgetDeactivatedAt' = [BudgetDeactivatedAt EXCEPT ![b] = DeactivationTime(b)]
  /\ UNCHANGED <<admin, archive, BudgetMember, history, counters, ArchiveRetentionPeriod,
                 wallet, timestamp>>

InactiveSince(b) == IF BudgetDeactivatedAt[b] = None THEN budget[b].created_at
                                                     ELSE BudgetDeactivatedAt[b]

Due == {b \in Live : /\ ~budget[b].is_active
                     /\ timestamp >= InactiveSince(b) + ArchiveRetentionPeriod}

\* The sweep walks the numbers 1..TotalBudgetsCreated and stops at the limit.
Swept(limit) == {b \in Due : /\ b <= TotalBudgetsCreated
                             /\ Cardinality({c \in Due : c < b}) < limit}

ArchiveInactiveBudgets(caller, limit) ==
  LET gone == Swept(limit) IN
  /\ IsAdmin(caller)
  /\ ArchiveRetentionPeriod # 0
  /\ archive' = [b \in Archived \cup gone |->
                   IF b \in gone
                   THEN [budget |-> budget[b], deactivated_at |-> InactiveSince(b),
                         archived_at |-> timestamp,
                         contribution_ids |-> BudgetContributions[b]]
                   ELSE archive[b]]
  /\ budget' = [b \in Live \ gone |-> budget[b]]
  /\ BudgetDeactivatedAt' = [b \in 1..MaxBudgets |-> IF b \in gone THEN None
                                                     ELSE BudgetDeactivatedAt[b]]
  /\ UNCHANGED <<admin, BudgetMember, history, counters, ArchiveRetentionPeriod, wallet,
                 timestamp>>

SetAdmin(caller, a) ==
  /\ IsAdmin(caller)
  /\ admin' = a
  /\ UNCHANGED <<budget, archive, BudgetMember, history, BudgetDeactivatedAt, counters,
                 ArchiveRetentionPeriod, wallet, timestamp>>

CloseLedger ==
  /\ timestamp < MaxTime
  /\ timestamp' = timestamp + 1
  /\ UNCHANGED <<admin, budget, archive, BudgetMember, history, BudgetDeactivatedAt,
                 counters, ArchiveRetentionPeriod, wallet>>

Next ==
  \/ \E a \in Users : Initialize(a)
  \/ \E c \in Users, t \in Tokens, ms \in MemberLists : CreateBudget(c, t, ms, << >>)
  \/ \E c \in Users, t \in Tokens, ms \in MemberLists, r \in Rules :
       CreateBudget(c, t, ms, <<r>>)
  \/ \E c \in Users, b \in Live, a \in Amounts : ContributeToBudget(c, b, a)
  \/ \E c \in Users, b \in Live, r \in Accounts, a \in Amounts : SpendFromBudget(c, b, r, a)
  \/ \E c, o \in Users, b \in Live : TransferBudgetOwnership(c, b, o)
  \/ \E c, u \in Users, b \in Live : AddMemberToBudget(c, b, u)
  \/ \E c \in Users, b \in Live, r \in Rules : AddSpendingRule(c, b, r)
  \/ \E c \in Users, s \in Retentions : SetArchiveRetentionPeriod(c, s)
  \/ \E c \in Users, b \in Live : DeactivateBudget(c, b)
  \/ \E c \in Users, n \in SweepLimits : ArchiveInactiveBudgets(c, n)
  \/ \E c, a \in Users : SetAdmin(c, a)
  \/ CloseLedger

Spec == Init /\ [][Next]_vars

------------------------------------------------------------------------------
\* Every reachable state is well formed; balances and contributions are not
\* negative.
TypeOK ==
  /\ admin \in Users \cup {None}
  /\ TotalBudgetsCreated \in Nat /\ TotalContributionsProcessed \in Nat
  /\ Live \subseteq 1..MaxBudgets /\ Archived \subseteq 1..MaxBudgets
  /\ budget \in [Live -> Budget]
  /\ \A b \in Live : budget[b].balance >= 0
  /\ wallet \in [Tokens -> [Accounts -> Nat]]
  /\ timestamp \in Nat

\* The record of budget b, live or archived.
RecordOf(b) == IF b \in Live THEN budget[b] ELSE archive[b].budget
Everything == Live \cup Archived

\* The balances of the budgets in token t, by number.
Held(t) == [b \in 1..MaxBudgets |->
              IF b \in Everything /\ RecordOf(b).token = t THEN RecordOf(b).balance ELSE 0]

\* For each token the contract holds at least the balances of all budgets in
\* that token, the archived ones included: no budget is spent from another.
Backed == \A t \in Tokens : wallet[t][Contract] >= SumTo(Held(t), MaxBudgets)

\* What was contributed to budget b, in order.
Given(b) == [i \in DOMAIN BudgetContributions[b] |->
               contribution[BudgetContributions[b][i]].amount]

\* The contribution history of a budget adds up to its total, also in the
\* archive, and no budget spends more than was contributed.
HistoryAddsUp ==
  \A b \in Everything :
    LET ids == BudgetContributions[b] IN
    /\ RecordOf(b).total_contributed = SumTo(Given(b), Len(ids))
    /\ \A i \in DOMAIN ids : contribution[ids[i]].budget_id = b
    /\ RecordOf(b).balance \in 0..RecordOf(b).total_contributed
    /\ b \in Archived => archive[b].contribution_ids = ids

\* The money is there and the books say where it came from.
MoneyBacked == Backed /\ HistoryAddsUp

\* The members a budget lists are exactly the addresses that may spend from it.
MembersAgree ==
  \A b \in Live : {budget[b].members[i] : i \in DOMAIN budget[b].members}
                    = {u \in Users : <<b, u>> \in BudgetMember}

\* Every budget ever created is either live or archived, never both.
LiveOrArchived == /\ Live \cap Archived = {}
                  /\ Everything = 1..TotalBudgetsCreated

\* No budget is lost, and who may spend from it is who it lists.
RegisterAgrees == LiveOrArchived /\ MembersAgree

\* Money cannot move in an inactive budget: from its deactivation on, through
\* the sweep and in the archive, balance and total stay what they were.
FrozenWhenInactive ==
  [][\A b \in Everything : (b \in Archived \/ ~budget[b].is_active) =>
       /\ b \in DOMAIN budget' \cup DOMAIN archive'
       /\ RecordOf(b)'.balance = RecordOf(b).balance
       /\ RecordOf(b)'.total_contributed = RecordOf(b).total_contributed
       /\ ~RecordOf(b)'.is_active]_vars

\* A budget is archived only after the retention period in force has passed
\* since its first deactivation, which later deactivations do not move, and
\* its archive record never changes.
ArchiveRespectsRetention ==
  [][/\ \A b \in DOMAIN archive' :
          /\ b \in Archived => archive'[b] = archive[b]
          /\ b \notin Archived =>
               archive'[b].archived_at >= archive'[b].deactivated_at + ArchiveRetentionPeriod
     /\ \A b \in Live : ~budget[b].is_active =>
          IF b \in DOMAIN budget' THEN BudgetDeactivatedAt'[b] = BudgetDeactivatedAt[b]
          ELSE archive'[b].deactivated_at = BudgetDeactivatedAt[b]]_vars

------------------------------------------------------------------------------
\* What the documents say and the code does not do.

\* types.rs, TotalBudgetsCreated: "Total number of budgets created".
EveryBudgetIsCounted == Cardinality(Everything) <= TotalBudgetsCreated
===============================================================================
