-------------------------- MODULE SharedBudgetsProofs --------------------------
(***************************************************************************)
(* Proofs about SharedBudgets.tla for any users, tokens, amounts, rules    *)
(* and bounds, provided the deployer initializes the contract before       *)
(* anybody creates a budget (EarlyCalls is FALSE): type correctness, that  *)
(* the contract holds the balance of every budget and its books add up,    *)
(* that no budget is lost, and that inactive money is frozen.              *)
(***************************************************************************)
EXTENDS SharedBudgets, SumTheorems, SequenceTheorems

\* What the type invariant leaves open: the archive, the history and the keys.
\* Nothing exists before there is an administrator, which is why the counters
\* that initialize resets are 0 already; and a budget that does not exist yet
\* has no history and no members.
Contribution == [budget_id : 1..MaxBudgets, contributor : Users, amount : Nat, timestamp : Nat]

Stored ==
  /\ admin = None => TotalBudgetsCreated = 0 /\ TotalContributionsProcessed = 0
  /\ \A b \in Archived : archive[b].budget \in Budget /\ ~archive[b].budget.is_active
  /\ contribution \in [1..TotalContributionsProcessed -> Contribution]
  /\ BudgetContributions \in [1..MaxBudgets -> Seq(1..TotalContributionsProcessed)]
  /\ \A b \in 1..MaxBudgets : b > TotalBudgetsCreated => BudgetContributions[b] = << >>
  /\ BudgetMember \subseteq (1..TotalBudgetsCreated) \X Users
  /\ BudgetDeactivatedAt \in [1..MaxBudgets -> Nat \cup {None}]
  /\ \A b \in Live : ~budget[b].is_active => BudgetDeactivatedAt[b] # None

Shape == TypeOK /\ Stored /\ LiveOrArchived

------------------------------------------------------------------------------
\* The shape of the state.

LEMMA Numbers ==
  ASSUME Shape
  PROVE  /\ TotalBudgetsCreated \in Nat /\ TotalBudgetsCreated <= MaxBudgets
         /\ Live \subseteq 1..TotalBudgetsCreated /\ Archived \subseteq 1..TotalBudgetsCreated
         /\ TotalBudgetsCreated + 1 \notin Live /\ TotalBudgetsCreated + 1 \notin Archived
         /\ MaxBudgets \in Nat
         /\ \A b \in Live : budget[b] \in Budget /\ budget[b].balance \in Nat
<1>1. TotalBudgetsCreated \in Nat /\ MaxBudgets \in Nat
  BY BoundAssumption DEF Shape, TypeOK
<1>2. Everything = 1..TotalBudgetsCreated /\ Everything \subseteq 1..MaxBudgets
  BY DEF Shape, TypeOK, LiveOrArchived, Everything
<1>3. TotalBudgetsCreated <= MaxBudgets
  BY <1>1, <1>2
<1>4. \A b \in Live : budget[b] \in Budget /\ budget[b].balance \in Nat
  BY DEF Shape, TypeOK, Budget
<1> QED
  BY <1>1, <1>2, <1>3, <1>4 DEF Everything

\* What each entry point makes of a budget.
LEMMA Updated ==
  ASSUME NEW r \in Budget
  PROVE  /\ \A a \in Int : [r EXCEPT !.balance = a] \in Budget
         /\ \A a, c \in Int : [r EXCEPT !.balance = a, !.total_contributed = c] \in Budget
         /\ \A u \in Users : [r EXCEPT !.creator = u] \in Budget
         /\ \A ms \in Seq(Users) : [r EXCEPT !.members = ms] \in Budget
         /\ \A rs \in Seq(Rule) : [r EXCEPT !.spending_rules = rs] \in Budget
         /\ [r EXCEPT !.is_active = FALSE] \in Budget
BY DEF Budget

\* Replacing one live budget by a well-formed one keeps the shape, if nothing
\* else of it changes and an inactive budget has the time it became so.
LEMMA OneReplaced ==
  ASSUME Shape, NEW b \in Live, NEW r \in Budget, r.balance >= 0,
         budget' = [budget EXCEPT ![b] = r], wallet' \in [Tokens -> [Accounts -> Nat]],
         r.is_active \/ BudgetDeactivatedAt'[b] # None,
         \A c \in Live : c # b => BudgetDeactivatedAt'[c] = BudgetDeactivatedAt[c],
         BudgetDeactivatedAt' \in [1..MaxBudgets -> Nat \cup {None}],
         UNCHANGED <<admin, archive, TotalBudgetsCreated, timestamp>>,
         BudgetMember' \subseteq (1..TotalBudgetsCreated) \X Users,
         TotalContributionsProcessed' \in Nat, admin # None \/ TotalContributionsProcessed' = 0,
         contribution' \in [1..TotalContributionsProcessed' -> Contribution],
         BudgetContributions' \in [1..MaxBudgets -> Seq(1..TotalContributionsProcessed')],
         \A c \in 1..MaxBudgets : c # b => BudgetContributions'[c] = BudgetContributions[c]
  PROVE  Shape'
<1>1. Live' = Live /\ Archived' = Archived /\ Everything' = Everything
  BY DEF Live, Archived, Everything
<1>2. \A c \in Live : budget'[c] = IF c = b THEN r ELSE budget[c]
  BY DEF Live
<1>3. budget' \in [Live -> Budget] /\ \A c \in Live : budget'[c].balance >= 0
  BY <1>2 DEF Shape, TypeOK, Live
<1>4. TypeOK'
  BY <1>1, <1>3 DEF Shape, TypeOK
<1>5. b <= TotalBudgetsCreated /\ b \in 1..MaxBudgets /\ TotalBudgetsCreated \in Nat
  BY Numbers DEF Shape, TypeOK
<1>6. \A c \in 1..MaxBudgets : c > TotalBudgetsCreated' => BudgetContributions'[c] = << >>
  BY <1>5 DEF Shape, Stored
<1>7. \A c \in Live' : ~budget'[c].is_active => BudgetDeactivatedAt'[c] # None
  BY <1>1, <1>2 DEF Shape, Stored
<1>8. \A c \in Archived' : archive'[c].budget \in Budget /\ ~archive'[c].budget.is_active
  BY <1>1 DEF Shape, Stored
<1>9. admin' = None => TotalBudgetsCreated' = 0 /\ TotalContributionsProcessed' = 0
  BY DEF Shape, Stored
<1>10. Stored'
  BY <1>6, <1>7, <1>8, <1>9 DEF Stored
<1>11. LiveOrArchived'
  BY <1>1 DEF Shape, LiveOrArchived
<1> QED
  BY <1>4, <1>10, <1>11 DEF Shape

LEMMA ShapeInit == ASSUME Init PROVE Shape
<1>1. Live = {} /\ Archived = {} /\ Everything = {}
  BY DEF Init, Live, Archived, Everything
<1>2. TypeOK
  BY <1>1, InputAssumption DEF Init, TypeOK, Live
<1>3. contribution \in [1..0 -> Contribution]
  BY DEF Init
<1>4. Stored
  BY <1>1, <1>3 DEF Init, Stored
<1>5. LiveOrArchived
  BY <1>1 DEF Init, LiveOrArchived
<1> QED
  BY <1>2, <1>4, <1>5 DEF Shape

\* initialize resets counters that are 0 already.
LEMMA InitializeResetsNothing ==
  ASSUME Shape, NEW a \in Users, Initialize(a)
  PROVE  UNCHANGED <<TotalBudgetsCreated, TotalContributionsProcessed>>
BY DEF Shape, Stored, Initialize

LEMMA InitializeShape ==
  ASSUME Shape, NEW a \in Users, Initialize(a)
  PROVE  Shape'
<1>1. UNCHANGED <<TotalBudgetsCreated, TotalContributionsProcessed, budget, archive,
                  BudgetMember, contribution, BudgetContributions, BudgetDeactivatedAt, wallet,
                  timestamp>>
  BY InitializeResetsNothing DEF Initialize, history
<1>2. admin' \in Users
  BY DEF Initialize
<1>3. TypeOK'
  BY <1>1, <1>2 DEF Shape, TypeOK, Live, Archived
<1>4. Stored'
  BY <1>1, <1>2, AddressAssumption DEF Shape, Stored, Live, Archived
<1>5. LiveOrArchived'
  BY <1>1 DEF Shape, LiveOrArchived, Everything, Live, Archived
<1> QED
  BY <1>3, <1>4, <1>5 DEF Shape

LEMMA CreateShape ==
  ASSUME Shape, ~EarlyCalls, NEW u \in Users, NEW t \in Tokens, NEW ms \in Seq(Users),
         NEW rules \in Seq(Rule), CreateBudget(u, t, ms, rules)
  PROVE  Shape'
<1>1. PICK id : id = TotalBudgetsCreated + 1
  OBVIOUS
<1>2. /\ admin # None /\ id <= MaxBudgets /\ TotalBudgetsCreated' = id
      /\ BudgetMember' = BudgetMember \cup {<<id, ms[i]>> : i \in DOMAIN ms}
      /\ UNCHANGED <<admin, archive, contribution, BudgetContributions, BudgetDeactivatedAt,
                     TotalContributionsProcessed, wallet, timestamp>>
  BY <1>1 DEF CreateBudget, NextBudgetId, history
<1>3. PICK r : r = [creator |-> u, token |-> t, members |-> ms, balance |-> 0,
                    total_contributed |-> 0, spending_rules |-> rules, is_active |-> TRUE,
                    created_at |-> timestamp]
  OBVIOUS
<1>4. budget' = [b \in Live \cup {id} |-> IF b = id THEN r ELSE budget[b]]
  BY <1>1, <1>3 DEF CreateBudget, NextBudgetId
<1>5. r \in Budget /\ r.balance = 0 /\ r.is_active
  BY <1>3 DEF Shape, TypeOK, Budget
<1>6. /\ id \in 1..MaxBudgets /\ TotalBudgetsCreated \in Nat /\ id = TotalBudgetsCreated + 1
      /\ id \notin Live /\ id \notin Archived
  BY <1>1, <1>2, Numbers
<1>7. Live' = Live \cup {id} /\ Archived' = Archived
  BY <1>2, <1>4 DEF Live, Archived
<1>8. \A b \in Live : budget'[b] = budget[b] /\ b # id
  BY <1>4, <1>6
<1>9. budget'[id] = r
  BY <1>4
<1>10. budget' \in [Live' -> Budget] /\ \A b \in Live' : budget'[b].balance >= 0
  <2>1. \A b \in Live' : budget'[b] \in Budget /\ budget'[b].balance >= 0
    BY <1>5, <1>7, <1>8, <1>9, Numbers
  <2> QED
    BY <2>1, <1>4, <1>7
<1>11. TypeOK'
  BY <1>2, <1>6, <1>7, <1>10 DEF Shape, TypeOK
<1>12. BudgetMember' \subseteq (1..TotalBudgetsCreated') \X Users
  <2>1. BudgetMember \subseteq (1..TotalBudgetsCreated) \X Users
    BY DEF Shape, Stored
  <2>2. (1..TotalBudgetsCreated) \X Users \subseteq (1..id) \X Users
    BY <1>6
  <2>3. \A i \in DOMAIN ms : <<id, ms[i]>> \in (1..id) \X Users
    BY <1>6
  <2> QED
    BY <1>2, <2>1, <2>2, <2>3
<1>13. \A b \in Live' : ~budget'[b].is_active => BudgetDeactivatedAt'[b] # None
  BY <1>2, <1>5, <1>7, <1>8, <1>9 DEF Shape, Stored
<1>14. \A b \in 1..MaxBudgets : b > TotalBudgetsCreated' => BudgetContributions'[b] = << >>
  BY <1>2, <1>6 DEF Shape, Stored
<1>15. Stored'
  BY <1>2, <1>7, <1>12, <1>13, <1>14 DEF Shape, Stored
<1>16. LiveOrArchived'
  BY <1>2, <1>6, <1>7 DEF Shape, LiveOrArchived, Everything
<1> QED
  BY <1>11, <1>15, <1>16 DEF Shape

\* A transfer keeps the balances natural numbers if the sender has the amount.
LEMMA MoveType ==
  ASSUME NEW w \in [Tokens -> [Accounts -> Nat]], NEW t \in Tokens, NEW from \in Accounts,
         NEW to \in Accounts, NEW amount \in Nat, w[t][from] >= amount
  PROVE  /\ Move(w, t, from, to, amount) \in [Tokens -> [Accounts -> Nat]]
         /\ \A k \in Tokens : k # t => Move(w, t, from, to, amount)[k] = w[k]
         /\ \A u \in Accounts : Move(w, t, from, to, amount)[t][u]
              = w[t][u] + (IF u = to THEN amount ELSE 0) - (IF u = from THEN amount ELSE 0)
<1> DEFINE row == [u \in Accounts |-> w[t][u] + (IF u = to THEN amount ELSE 0)
                                              - (IF u = from THEN amount ELSE 0)]
<1>1. w[t] \in [Accounts -> Nat]
  OBVIOUS
<1>2. \A u \in Accounts : row[u] \in Nat
  BY <1>1
<1>3. row \in [Accounts -> Nat]
  BY <1>2
<1>4. Move(w, t, from, to, amount) = [w EXCEPT ![t] = row]
  BY DEF Move
<1>5. \A u \in Accounts : row[u]
              = w[t][u] + (IF u = to THEN amount ELSE 0) - (IF u = from THEN amount ELSE 0)
  OBVIOUS
<1> HIDE DEF row
<1> QED
  BY <1>3, <1>4, <1>5

\* What a contribution changes: the record of the budget becomes r, entry
\* becomes the n-th of the history, and the wallets move.
Contributed(u, b, amount, n, r, entry) ==
  /\ TotalContributionsProcessed \in Nat /\ amount \in Nat /\ amount > 0
  /\ n = TotalContributionsProcessed + 1 /\ TotalContributionsProcessed' = n
  /\ budget[b].is_active /\ r.is_active
  /\ r.balance = budget[b].balance + amount
  /\ r.total_contributed = budget[b].total_contributed + amount
  /\ r.token = budget[b].token /\ r.members = budget[b].members
  /\ budget' = [budget EXCEPT ![b] = r]
  /\ entry.budget_id = b /\ entry.amount = amount
  /\ contribution' = [i \in (1..TotalContributionsProcessed) \cup {n} |->
                        IF i = n THEN entry ELSE contribution[i]]
  /\ BudgetContributions'
       = [BudgetContributions EXCEPT ![b] = Append(BudgetContributions[b], n)]
  /\ wallet[budget[b].token][u] >= amount
  /\ wallet' = Move(wallet, budget[b].token, u, Contract, amount)
  /\ UNCHANGED <<admin, archive, BudgetMember, BudgetDeactivatedAt, TotalBudgetsCreated,
                 ArchiveRetentionPeriod, timestamp>>

LEMMA ContributeEffect ==
  ASSUME Shape, NEW u \in Users, NEW b \in Live, NEW amount \in Amounts,
         ContributeToBudget(u, b, amount)
  PROVE  \E n \in Nat, r \in Budget, entry \in Contribution :
           Contributed(u, b, amount, n, r, entry)
<1> PICK n : n = TotalContributionsProcessed + 1
  OBVIOUS
<1> PICK r : r = [budget[b] EXCEPT !.balance = budget[b].balance + amount,
                                   !.total_contributed = budget[b].total_contributed + amount]
  OBVIOUS
<1> PICK entry : entry = [budget_id |-> b, contributor |-> u, amount |-> amount,
                          timestamp |-> timestamp]
  OBVIOUS
<1>1. /\ amount \in Nat /\ amount > 0 /\ TotalContributionsProcessed \in Nat /\ n \in Nat
      /\ timestamp \in Nat /\ b \in 1..MaxBudgets
      /\ DOMAIN contribution = 1..TotalContributionsProcessed
  BY InputAssumption DEF ContributeToBudget, Shape, TypeOK, Stored
<1>2. budget[b] \in Budget /\ b \in DOMAIN budget
  BY Numbers DEF Live
<1>3. r \in Budget
  <2>1. budget[b].balance + amount \in Int /\ budget[b].total_contributed + amount \in Int
    BY <1>1, <1>2 DEF Budget
  <2> QED
    BY <1>2, <2>1 DEF Budget
<1>4. /\ r.balance = budget[b].balance + amount
      /\ r.total_contributed = budget[b].total_contributed + amount
      /\ r.token = budget[b].token /\ r.members = budget[b].members
      /\ r.is_active = budget[b].is_active
  BY <1>2 DEF Budget
<1>5. budget' = [budget EXCEPT ![b] = r]
  BY <1>2 DEF ContributeToBudget, Budget
<1>6. entry \in Contribution /\ entry.amount = amount /\ entry.budget_id = b
  BY <1>1 DEF Contribution
<1>7. contribution' = [i \in (1..TotalContributionsProcessed) \cup {n} |->
                         IF i = n THEN entry ELSE contribution[i]]
  BY <1>1 DEF ContributeToBudget
<1>8. /\ BudgetContributions'
           = [BudgetContributions EXCEPT ![b] = Append(BudgetContributions[b], n)]
      /\ TotalContributionsProcessed' = n
      /\ wallet[budget[b].token][u] >= amount /\ budget[b].is_active
      /\ wallet' = Move(wallet, budget[b].token, u, Contract, amount)
      /\ UNCHANGED <<admin, archive, BudgetMember, BudgetDeactivatedAt,
                     TotalBudgetsCreated, ArchiveRetentionPeriod, timestamp>>
  BY DEF ContributeToBudget, AcceptsMoney
<1>9. Contributed(u, b, amount, n, r, entry)
  BY <1>1, <1>4, <1>5, <1>6, <1>7, <1>8 DEF Contributed
<1> QED
  BY <1>1, <1>3, <1>6, <1>9

LEMMA SeqSubset ==
  ASSUME NEW S, NEW T, S \subseteq T, NEW s \in Seq(S)
  PROVE  s \in Seq(T)
<1>1. Len(s) \in Nat /\ s \in [1..Len(s) -> S]
  OBVIOUS
<1>2. s \in [1..Len(s) -> T]
  BY <1>1
<1> QED
  BY <1>1, <1>2

\* The history after a contribution is well formed.
LEMMA HistoryGrows ==
  ASSUME Shape, NEW b \in Live, NEW n, n = TotalContributionsProcessed + 1,
         NEW entry \in Contribution
  PROVE  /\ [i \in (1..TotalContributionsProcessed) \cup {n} |->
               IF i = n THEN entry ELSE contribution[i]] \in [1..n -> Contribution]
         /\ [BudgetContributions EXCEPT ![b] = Append(BudgetContributions[b], n)]
              \in [1..MaxBudgets -> Seq(1..n)]
<1>1. /\ TotalContributionsProcessed \in Nat /\ b \in 1..MaxBudgets
      /\ contribution \in [1..TotalContributionsProcessed -> Contribution]
      /\ BudgetContributions \in [1..MaxBudgets -> Seq(1..TotalContributionsProcessed)]
  BY DEF Shape, TypeOK, Stored
<1>2. (1..TotalContributionsProcessed) \cup {n} = 1..n
  BY <1>1
<1>3. \A c \in 1..MaxBudgets : BudgetContributions[c] \in Seq(1..n)
  <2>1. \A c \in 1..MaxBudgets : BudgetContributions[c] \in Seq(1..TotalContributionsProcessed)
    BY <1>1
  <2>2. 1..TotalContributionsProcessed \subseteq 1..n
    BY <1>2
  <2> QED
    BY <2>1, <2>2, SeqSubset
<1>4. Append(BudgetContributions[b], n) \in Seq(1..n)
  <2>1. n \in 1..n
    BY <1>1
  <2> QED
    BY <1>1, <1>3, <2>1
<1> QED
  BY <1>1, <1>2, <1>3, <1>4

LEMMA ContributeShape ==
  ASSUME Shape, ~EarlyCalls, NEW u \in Users, NEW b \in Live, NEW amount \in Amounts,
         ContributeToBudget(u, b, amount)
  PROVE  Shape'
<1>1. PICK n \in Nat, r \in Budget, entry \in Contribution :
        Contributed(u, b, amount, n, r, entry)
  BY ContributeEffect
<1> USE DEF Contributed
<1>2. budget[b] \in Budget /\ budget[b].balance \in Nat /\ b \in 1..TotalBudgetsCreated
  BY Numbers
<1>3. r.balance >= 0 /\ r.is_active
  BY <1>1, <1>2
<1>4. wallet' \in [Tokens -> [Accounts -> Nat]]
  BY <1>1, <1>2, MoveType DEF Shape, TypeOK, Budget, Accounts
<1>5. /\ contribution' \in [1..TotalContributionsProcessed' -> Contribution]
      /\ BudgetContributions' \in [1..MaxBudgets -> Seq(1..TotalContributionsProcessed')]
  BY <1>1, HistoryGrows
<1>6. \A c \in 1..MaxBudgets : c # b => BudgetContributions'[c] = BudgetContributions[c]
  BY <1>1 DEF Shape, Stored
<1>7. BudgetMember' \subseteq (1..TotalBudgetsCreated) \X Users
  BY <1>1 DEF Shape, Stored
<1>8. BudgetDeactivatedAt' \in [1..MaxBudgets -> Nat \cup {None}]
  BY <1>1 DEF Shape, Stored
<1>9. admin # None /\ TotalContributionsProcessed' \in Nat
  BY <1>1, <1>2 DEF Shape, Stored
<1> QED
  BY <1>1, <1>3, <1>4, <1>5, <1>6, <1>7, <1>8, <1>9, OneReplaced

\* What the other entry points that work on one live budget change: its record
\* becomes r, and nothing of the history.
Rewritten(b, r) ==
  /\ budget' = [budget EXCEPT ![b] = r]
  /\ UNCHANGED <<admin, archive, contribution, BudgetContributions, TotalBudgetsCreated,
                 TotalContributionsProcessed, ArchiveRetentionPeriod, timestamp>>

LEMMA RewrittenShape ==
  ASSUME Shape, NEW b \in Live, NEW r \in Budget, Rewritten(b, r), r.balance >= 0,
         wallet' \in [Tokens -> [Accounts -> Nat]],
         r.is_active \/ BudgetDeactivatedAt'[b] # None,
         \A c \in Live : c # b => BudgetDeactivatedAt'[c] = BudgetDeactivatedAt[c],
         BudgetDeactivatedAt' \in [1..MaxBudgets -> Nat \cup {None}],
         BudgetMember' \subseteq (1..TotalBudgetsCreated) \X Users
  PROVE  Shape'
<1>1. /\ UNCHANGED <<admin, archive, TotalBudgetsCreated, timestamp>>
      /\ UNCHANGED <<contribution, BudgetContributions, TotalContributionsProcessed>>
      /\ budget' = [budget EXCEPT ![b] = r]
  BY DEF Rewritten
<1>2. b <= TotalBudgetsCreated /\ TotalBudgetsCreated \in Nat /\ b \in 1..TotalBudgetsCreated
  BY Numbers
<1>3. admin # None \/ TotalContributionsProcessed' = 0
  BY <1>1, <1>2 DEF Shape, Stored
<1>4. /\ TotalContributionsProcessed' \in Nat
      /\ contribution' \in [1..TotalContributionsProcessed' -> Contribution]
      /\ BudgetContributions' \in [1..MaxBudgets -> Seq(1..TotalContributionsProcessed')]
      /\ \A c \in 1..MaxBudgets : c # b => BudgetContributions'[c] = BudgetContributions[c]
  BY <1>1 DEF Shape, TypeOK, Stored
<1> QED
  BY <1>1, <1>3, <1>4, OneReplaced

LEMMA SpendEffect ==
  ASSUME Shape, NEW u \in Users, NEW b \in Live, NEW to \in Accounts, NEW amount \in Amounts,
         SpendFromBudget(u, b, to, amount)
  PROVE  \E r \in Budget :
           /\ Rewritten(b, r)
           /\ amount \in Nat /\ amount > 0 /\ budget[b].is_active /\ r.is_active
           /\ budget[b].balance >= amount /\ r.balance = budget[b].balance - amount
           /\ r.total_contributed = budget[b].total_contributed
           /\ r.token = budget[b].token /\ r.members = budget[b].members
           /\ wallet[budget[b].token][Contract] >= amount
           /\ wallet' = Move(wallet, budget[b].token, Contract, to, amount)
           /\ UNCHANGED <<BudgetMember, BudgetDeactivatedAt>>
<1>1. PICK r : r = [budget[b] EXCEPT !.balance = budget[b].balance - amount]
  OBVIOUS
<1>2. /\ amount \in Nat /\ amount > 0 /\ budget[b].is_active
      /\ budget[b].balance >= amount
      /\ wallet[budget[b].token][Contract] >= amount
      /\ wallet' = Move(wallet, budget[b].token, Contract, to, amount)
      /\ UNCHANGED <<BudgetMember, BudgetDeactivatedAt>>
  BY InputAssumption DEF SpendFromBudget, AcceptsMoney, Covered
<1>3. budget[b] \in Budget /\ b \in DOMAIN budget
  BY Numbers DEF Live
<1>4. r \in Budget
  BY <1>1, <1>2, <1>3 DEF Budget
<1>5. /\ r.balance = budget[b].balance - amount
      /\ r.total_contributed = budget[b].total_contributed
      /\ r.token = budget[b].token /\ r.members = budget[b].members
      /\ r.is_active = budget[b].is_active
  BY <1>1, <1>3 DEF Budget
<1>6. Rewritten(b, r)
  BY <1>1, <1>3 DEF SpendFromBudget, Debited, Rewritten, Budget, history, counters
<1> QED
  BY <1>2, <1>4, <1>5, <1>6

LEMMA SpendShape ==
  ASSUME Shape, NEW u \in Users, NEW b \in Live, NEW to \in Accounts, NEW amount \in Amounts,
         SpendFromBudget(u, b, to, amount)
  PROVE  Shape'
<1>1. PICK r \in Budget :
           /\ Rewritten(b, r)
           /\ amount \in Nat /\ amount > 0 /\ budget[b].is_active /\ r.is_active
           /\ budget[b].balance >= amount /\ r.balance = budget[b].balance - amount
           /\ r.total_contributed = budget[b].total_contributed
           /\ r.token = budget[b].token /\ r.members = budget[b].members
           /\ wallet[budget[b].token][Contract] >= amount
           /\ wallet' = Move(wallet, budget[b].token, Contract, to, amount)
           /\ UNCHANGED <<BudgetMember, BudgetDeactivatedAt>>
  BY SpendEffect
<1>2. budget[b] \in Budget /\ budget[b].balance \in Nat
  BY Numbers
<1>3. r.balance >= 0
  BY <1>1, <1>2
<1>4. wallet' \in [Tokens -> [Accounts -> Nat]]
  BY <1>1, <1>2, MoveType DEF Shape, TypeOK, Budget, Accounts
<1>5. /\ BudgetMember' \subseteq (1..TotalBudgetsCreated) \X Users
      /\ BudgetDeactivatedAt' \in [1..MaxBudgets -> Nat \cup {None}]
  BY <1>1 DEF Shape, Stored
<1> QED
  BY <1>1, <1>3, <1>4, <1>5, RewrittenShape

\* What the calls that move no money make of a budget.
KeepsMoney(b, r) ==
  /\ Rewritten(b, r) /\ wallet' = wallet
  /\ r.balance = budget[b].balance /\ r.total_contributed = budget[b].total_contributed
  /\ r.token = budget[b].token

LEMMA TransferEffect ==
  ASSUME Shape, NEW u \in Users, NEW b \in Live, NEW o \in Users,
         TransferBudgetOwnership(u, b, o)
  PROVE  \E r \in Budget :
           /\ KeepsMoney(b, r)
           /\ r.is_active = budget[b].is_active /\ r.members = budget[b].members
           /\ UNCHANGED <<BudgetMember, BudgetDeactivatedAt>>
<1>1. PICK r : r = [budget[b] EXCEPT !.creator = o]
  OBVIOUS
<1>2. budget[b] \in Budget /\ b \in DOMAIN budget
  BY Numbers DEF Live
<1>3. r \in Budget
  BY <1>1, <1>2 DEF Budget
<1>4. /\ r.balance = budget[b].balance
      /\ r.total_contributed = budget[b].total_contributed
      /\ r.token = budget[b].token /\ r.members = budget[b].members
      /\ r.is_active = budget[b].is_active
  BY <1>1, <1>2 DEF Budget
<1>5. Rewritten(b, r) /\ UNCHANGED <<wallet, BudgetMember, BudgetDeactivatedAt>>
  BY <1>1, <1>2 DEF TransferBudgetOwnership, Rewritten, history, counters
<1> QED
  BY <1>3, <1>4, <1>5 DEF KeepsMoney

LEMMA AddMemberEffect ==
  ASSUME Shape, NEW u \in Users, NEW b \in Live, NEW m \in Users, AddMemberToBudget(u, b, m)
  PROVE  \E r \in Budget :
           /\ KeepsMoney(b, r)
           /\ r.is_active = budget[b].is_active
           /\ r.members = Append(budget[b].members, m)
           /\ BudgetMember' = BudgetMember \cup {<<b, m>>}
           /\ UNCHANGED BudgetDeactivatedAt
<1>1. PICK r : r = [budget[b] EXCEPT !.members = Append(budget[b].members, m)]
  OBVIOUS
<1>2. budget[b] \in Budget /\ b \in DOMAIN budget
  BY Numbers DEF Live
<1>3. r \in Budget
  <2>1. budget[b].members \in Seq(Users)
    BY <1>2 DEF Budget
  <2>2. Append(budget[b].members, m) \in Seq(Users)
    BY <2>1
  <2> QED
    BY <1>1, <1>2, <2>2, Updated
<1>4. /\ r.balance = budget[b].balance
      /\ r.total_contributed = budget[b].total_contributed
      /\ r.token = budget[b].token /\ r.members = Append(budget[b].members, m)
      /\ r.is_active = budget[b].is_active
  BY <1>1, <1>2 DEF Budget
<1>5. Rewritten(b, r)
  BY <1>1, <1>2 DEF AddMemberToBudget, Enrolled, Rewritten, history, counters
<1>6. BudgetMember' = BudgetMember \cup {<<b, m>>} /\ UNCHANGED <<wallet, BudgetDeactivatedAt>>
  BY DEF AddMemberToBudget
<1> QED
  BY <1>3, <1>4, <1>5, <1>6 DEF KeepsMoney

LEMMA AddRuleEffect ==
  ASSUME Shape, NEW u \in Users, NEW b \in Live, NEW rule \in Rules, AddSpendingRule(u, b, rule)
  PROVE  \E r \in Budget :
           /\ KeepsMoney(b, r)
           /\ r.is_active = budget[b].is_active /\ r.members = budget[b].members
           /\ UNCHANGED <<BudgetMember, BudgetDeactivatedAt>>
<1>1. PICK r : r = [budget[b] EXCEPT !.spending_rules = Append(budget[b].spending_rules, rule)]
  OBVIOUS
<1>2. budget[b] \in Budget /\ b \in DOMAIN budget
  BY Numbers DEF Live
<1>3. r \in Budget
  <2>1. budget[b].spending_rules \in Seq(Rule) /\ rule \in Rule
    BY <1>2, InputAssumption DEF Budget
  <2>2. Append(budget[b].spending_rules, rule) \in Seq(Rule)
    BY <2>1
  <2> QED
    BY <1>1, <1>2, <2>2, Updated
<1>4. /\ r.balance = budget[b].balance
      /\ r.total_contributed = budget[b].total_contributed
      /\ r.token = budget[b].token /\ r.members = budget[b].members
      /\ r.is_active = budget[b].is_active
  BY <1>1, <1>2 DEF Budget
<1>5. Rewritten(b, r) /\ UNCHANGED <<wallet, BudgetMember, BudgetDeactivatedAt>>
  BY <1>1, <1>2 DEF AddSpendingRule, Rewritten, history, counters
<1> QED
  BY <1>3, <1>4, <1>5 DEF KeepsMoney

\* A second deactivation keeps the time of the first.
LEMMA DeactivateEffect ==
  ASSUME Shape, NEW u \in Users, NEW b \in Live, DeactivateBudget(u, b)
  PROVE  \E r \in Budget :
           /\ KeepsMoney(b, r)
           /\ ~r.is_active /\ r.members = budget[b].members
           /\ BudgetMember' = BudgetMember
           /\ BudgetDeactivatedAt' \in [1..MaxBudgets -> Nat \cup {None}]
           /\ BudgetDeactivatedAt'[b] # None
           /\ \A c \in Live : c # b \/ ~budget[b].is_active
                                => BudgetDeactivatedAt'[c] = BudgetDeactivatedAt[c]
<1>1. PICK r : r = [budget[b] EXCEPT !.is_active = FALSE]
  OBVIOUS
<1>2. budget[b] \in Budget /\ b \in DOMAIN budget /\ b \in 1..MaxBudgets
  BY Numbers DEF Live, Shape, TypeOK
<1>3. r \in Budget
  BY <1>1, <1>2 DEF Budget
<1>4. /\ r.balance = budget[b].balance
      /\ r.total_contributed = budget[b].total_contributed
      /\ r.token = budget[b].token /\ r.members = budget[b].members
      /\ r.is_active = FALSE
  BY <1>1, <1>2 DEF Budget
<1>5. Rewritten(b, r) /\ UNCHANGED <<wallet, BudgetMember>>
  BY <1>1, <1>2 DEF DeactivateBudget, Rewritten, history, counters
<1>6. DeactivationTime(b) \in Nat
  BY AddressAssumption DEF DeactivationTime, Shape, TypeOK, Stored
<1>7. BudgetDeactivatedAt' = [BudgetDeactivatedAt EXCEPT ![b] = DeactivationTime(b)]
  BY DEF DeactivateBudget
<1>8. BudgetDeactivatedAt \in [1..MaxBudgets -> Nat \cup {None}] /\ Live \subseteq 1..MaxBudgets
  BY DEF Shape, TypeOK, Stored
<1>9. /\ BudgetDeactivatedAt' \in [1..MaxBudgets -> Nat \cup {None}]
      /\ BudgetDeactivatedAt'[b] = DeactivationTime(b)
      /\ \A c \in Live : c # b => BudgetDeactivatedAt'[c] = BudgetDeactivatedAt[c]
  BY <1>2, <1>6, <1>7, <1>8
<1>10. ~budget[b].is_active => BudgetDeactivatedAt'[b] = BudgetDeactivatedAt[b]
  BY <1>9 DEF DeactivationTime
<1>11. BudgetDeactivatedAt'[b] # None
  BY <1>6, <1>9, AddressAssumption
<1>12. KeepsMoney(b, r) /\ ~r.is_active
  BY <1>4, <1>5 DEF KeepsMoney
<1> QED
  BY <1>3, <1>4, <1>5, <1>9, <1>10, <1>11, <1>12

LEMMA KeepsMoneyShape ==
  ASSUME Shape, NEW b \in Live, NEW r \in Budget, KeepsMoney(b, r),
         r.is_active \/ BudgetDeactivatedAt'[b] # None,
         \A c \in Live : c # b => BudgetDeactivatedAt'[c] = BudgetDeactivatedAt[c],
         BudgetDeactivatedAt' \in [1..MaxBudgets -> Nat \cup {None}],
         BudgetMember' \subseteq (1..TotalBudgetsCreated) \X Users
  PROVE  Shape'
<1>1. Rewritten(b, r) /\ r.balance = budget[b].balance /\ wallet' = wallet
  BY DEF KeepsMoney
<1>2. r.balance >= 0
  BY <1>1, Numbers
<1>3. wallet' \in [Tokens -> [Accounts -> Nat]]
  BY <1>1 DEF Shape, TypeOK
<1> QED
  BY <1>1, <1>2, <1>3, RewrittenShape

LEMMA ManageShape ==
  ASSUME Shape, NEW u \in Users, NEW b \in Live,
         \/ \E o \in Users : TransferBudgetOwnership(u, b, o)
         \/ \E m \in Users : AddMemberToBudget(u, b, m)
         \/ \E rule \in Rules : AddSpendingRule(u, b, rule)
         \/ DeactivateBudget(u, b)
  PROVE  Shape'
<1>1. /\ BudgetDeactivatedAt \in [1..MaxBudgets -> Nat \cup {None}]
      /\ BudgetMember \subseteq (1..TotalBudgetsCreated) \X Users
      /\ ~budget[b].is_active => BudgetDeactivatedAt[b] # None
      /\ b \in 1..TotalBudgetsCreated
  BY Numbers DEF Shape, Stored
<1>2. ASSUME NEW o \in Users, TransferBudgetOwnership(u, b, o) PROVE Shape'
  <2>1. PICK r \in Budget :
           /\ KeepsMoney(b, r)
           /\ r.is_active = budget[b].is_active /\ r.members = budget[b].members
           /\ UNCHANGED <<BudgetMember, BudgetDeactivatedAt>>
    BY <1>2, TransferEffect
  <2> QED
    BY <1>1, <2>1, KeepsMoneyShape
<1>3. ASSUME NEW m \in Users, AddMemberToBudget(u, b, m) PROVE Shape'
  <2>1. PICK r \in Budget :
           /\ KeepsMoney(b, r)
           /\ r.is_active = budget[b].is_active
           /\ r.members = Append(budget[b].members, m)
           /\ BudgetMember' = BudgetMember \cup {<<b, m>>}
           /\ UNCHANGED BudgetDeactivatedAt
    BY <1>3, AddMemberEffect
  <2>2. BudgetMember' \subseteq (1..TotalBudgetsCreated) \X Users
    BY <1>1, <2>1
  <2> QED
    BY <1>1, <2>1, <2>2, KeepsMoneyShape
<1>4. ASSUME NEW rule \in Rules, AddSpendingRule(u, b, rule) PROVE Shape'
  <2>1. PICK r \in Budget :
           /\ KeepsMoney(b, r)
           /\ r.is_active = budget[b].is_active /\ r.members = budget[b].members
           /\ UNCHANGED <<BudgetMember, BudgetDeactivatedAt>>
    BY <1>4, AddRuleEffect
  <2> QED
    BY <1>1, <2>1, KeepsMoneyShape
<1>5. ASSUME DeactivateBudget(u, b) PROVE Shape'
  <2>1. PICK r \in Budget :
           /\ KeepsMoney(b, r)
           /\ ~r.is_active /\ r.members = budget[b].members
           /\ BudgetMember' = BudgetMember
           /\ BudgetDeactivatedAt' \in [1..MaxBudgets -> Nat \cup {None}]
           /\ BudgetDeactivatedAt'[b] # None
           /\ \A c \in Live : c # b \/ ~budget[b].is_active
                                => BudgetDeactivatedAt'[c] = BudgetDeactivatedAt[c]
    BY <1>5, DeactivateEffect
  <2> QED
    BY <1>1, <2>1, KeepsMoneyShape
<1> QED
  BY <1>2, <1>3, <1>4, <1>5

\* The sweep moves the budgets that are due into the archive, as they are.
LEMMA ArchiveEffect ==
  ASSUME Shape, NEW u \in Users, NEW limit \in SweepLimits, ArchiveInactiveBudgets(u, limit)
  PROVE  \E gone \in SUBSET Live :
           /\ \A b \in gone : /\ ~budget[b].is_active
                              /\ timestamp >= InactiveSince(b) + ArchiveRetentionPeriod
           /\ Live' = Live \ gone /\ Archived' = Archived \cup gone
           /\ Everything' = Everything
           /\ \A b \in Live' : budget'[b] = budget[b]
           /\ budget' = [b \in Live' |-> budget'[b]]
           /\ \A b \in Archived : archive'[b] = archive[b]
           /\ \A b \in gone : archive'[b]
                = [budget |-> budget[b], deactivated_at |-> InactiveSince(b),
                   archived_at |-> timestamp, contribution_ids |-> BudgetContributions[b]]
           /\ BudgetDeactivatedAt' \in [1..MaxBudgets -> Nat \cup {None}]
           /\ \A b \in Live' : BudgetDeactivatedAt'[b] = BudgetDeactivatedAt[b]
           /\ UNCHANGED <<admin, BudgetMember, contribution, BudgetContributions,
                          TotalBudgetsCreated, TotalContributionsProcessed,
                          ArchiveRetentionPeriod, wallet, timestamp>>
<1>1. PICK gone : gone = Swept(limit)
  OBVIOUS
<1>2. /\ gone \subseteq Live
      /\ \A b \in gone : /\ ~budget[b].is_active
                         /\ timestamp >= InactiveSince(b) + ArchiveRetentionPeriod
  BY <1>1 DEF Swept, Due
<1>3. /\ archive' = [b \in Archived \cup gone |->
                   IF b \in gone
                   THEN [budget |-> budget[b], deactivated_at |-> InactiveSince(b),
                         archived_at |-> timestamp,
                         contribution_ids |-> BudgetContributions[b]]
                   ELSE archive[b]]
      /\ budget' = [b \in Live \ gone |-> budget[b]]
      /\ BudgetDeactivatedAt' = [b \in 1..MaxBudgets |-> IF b \in gone THEN None
                                                     ELSE BudgetDeactivatedAt[b]]
      /\ UNCHANGED <<admin, BudgetMember, contribution, BudgetContributions,
                     TotalBudgetsCreated, TotalContributionsProcessed,
                     ArchiveRetentionPeriod, wallet, timestamp>>
  BY <1>1 DEF ArchiveInactiveBudgets, history, counters
<1>4. Live' = Live \ gone /\ Archived' = Archived \cup gone
  BY <1>3 DEF Live, Archived
<1>5. Everything' = Everything
  BY <1>2, <1>4 DEF Everything
<1>6. \A b \in Live' : budget'[b] = budget[b]
  BY <1>3, <1>4
<1>7. \A b \in Archived : b \notin gone /\ archive'[b] = archive[b]
  BY <1>2, <1>3 DEF Shape, LiveOrArchived
<1>8. \A b \in gone : archive'[b]
                = [budget |-> budget[b], deactivated_at |-> InactiveSince(b),
                   archived_at |-> timestamp, contribution_ids |-> BudgetContributions[b]]
  BY <1>3
<1>9. /\ BudgetDeactivatedAt' \in [1..MaxBudgets -> Nat \cup {None}]
      /\ \A b \in Live' : BudgetDeactivatedAt'[b] = BudgetDeactivatedAt[b]
  BY <1>3, <1>4 DEF Shape, TypeOK, Stored
<1>10. budget' = [b \in Live' |-> budget'[b]]
  BY <1>3, <1>4
<1> QED
  BY <1>2, <1>3, <1>4, <1>5, <1>6, <1>7, <1>8, <1>9, <1>10

\* What a sweep leaves: the well-formed records, some of them elsewhere.
Moved(gone) ==
  /\ \A b \in gone : /\ ~budget[b].is_active
                     /\ timestamp >= InactiveSince(b) + ArchiveRetentionPeriod
  /\ Live' = Live \ gone /\ Archived' = Archived \cup gone
  /\ Everything' = Everything
  /\ \A b \in Live' : budget'[b] = budget[b]
  /\ budget' = [b \in Live' |-> budget'[b]]
  /\ \A b \in Archived : archive'[b] = archive[b]
  /\ \A b \in gone : archive'[b]
       = [budget |-> budget[b], deactivated_at |-> InactiveSince(b),
          archived_at |-> timestamp, contribution_ids |-> BudgetContributions[b]]
  /\ BudgetDeactivatedAt' \in [1..MaxBudgets -> Nat \cup {None}]
  /\ \A b \in Live' : BudgetDeactivatedAt'[b] = BudgetDeactivatedAt[b]
  /\ UNCHANGED <<admin, BudgetMember, contribution, BudgetContributions,
                 TotalBudgetsCreated, TotalContributionsProcessed,
                 ArchiveRetentionPeriod, wallet, timestamp>>

LEMMA ArchiveShape ==
  ASSUME Shape, NEW gone \in SUBSET Live, Moved(gone)
  PROVE  Shape'
<1> USE DEF Moved
<1>1. /\ Live' \subseteq Live /\ Live' \subseteq 1..MaxBudgets /\ Archived' \subseteq 1..MaxBudgets
      /\ Live' \cap Archived' = {}
  BY DEF Shape, TypeOK, LiveOrArchived
<1>2. \A b \in Live' : budget'[b] \in Budget /\ budget'[b].balance >= 0
  BY <1>1 DEF Shape, TypeOK
<1>3. budget' \in [Live' -> Budget]
  BY <1>2
<1>4. /\ admin' \in Users \cup {None}
      /\ TotalBudgetsCreated' \in Nat /\ TotalContributionsProcessed' \in Nat
      /\ wallet' \in [Tokens -> [Accounts -> Nat]] /\ timestamp' \in Nat
  BY DEF Shape, TypeOK
<1>5. TypeOK'
  BY <1>1, <1>2, <1>3, <1>4 DEF TypeOK
<1>6. \A b \in Archived' : archive'[b].budget \in Budget /\ ~archive'[b].budget.is_active
  <2>1. \A b \in Live : budget[b] \in Budget
    BY Numbers
  <2>2. ASSUME NEW b \in gone
        PROVE  archive'[b].budget \in Budget /\ ~archive'[b].budget.is_active
    <3>1. archive'[b] = [budget |-> budget[b], deactivated_at |-> InactiveSince(b),
                         archived_at |-> timestamp, contribution_ids |-> BudgetContributions[b]]
      OBVIOUS
    <3>2. ~budget[b].is_active
      OBVIOUS
    <3> HIDE DEF Moved
    <3>3. archive'[b].budget = budget[b]
      BY <3>1
    <3> QED
      BY <2>1, <3>2, <3>3
  <2>3. \A b \in Archived : archive'[b].budget \in Budget /\ ~archive'[b].budget.is_active
    BY DEF Shape, Stored
  <2>4. Archived' = Archived \cup gone
    OBVIOUS
  <2> QED
    BY <2>2, <2>3, <2>4
<1>7. \A b \in Live' : ~budget'[b].is_active => BudgetDeactivatedAt'[b] # None
  BY <1>1 DEF Shape, Stored
<1>8. /\ admin' = None => TotalBudgetsCreated' = 0 /\ TotalContributionsProcessed' = 0
      /\ contribution' \in [1..TotalContributionsProcessed' -> Contribution]
      /\ BudgetContributions' \in [1..MaxBudgets -> Seq(1..TotalContributionsProcessed')]
      /\ \A b \in 1..MaxBudgets : b > TotalBudgetsCreated' => BudgetContributions'[b] = << >>
      /\ BudgetMember' \subseteq (1..TotalBudgetsCreated') \X Users
      /\ BudgetDeactivatedAt' \in [1..MaxBudgets -> Nat \cup {None}]
  BY DEF Shape, Stored
<1>9. Stored'
  BY <1>6, <1>7, <1>8 DEF Stored
<1>10. LiveOrArchived'
  BY <1>1 DEF Shape, LiveOrArchived
<1> QED
  BY <1>5, <1>9, <1>10 DEF Shape

\* The calls that change neither a budget nor money nor the history.
Settings ==
  \/ \E u \in Users, s \in Retentions : SetArchiveRetentionPeriod(u, s)
  \/ \E u, a \in Users : SetAdmin(u, a)
  \/ CloseLedger
  \/ UNCHANGED vars

LEMMA SettingsEffect ==
  ASSUME Shape, Settings
  PROVE  /\ UNCHANGED <<budget, archive, BudgetMember, contribution, BudgetContributions,
                        BudgetDeactivatedAt, TotalBudgetsCreated, TotalContributionsProcessed,
                        wallet>>
         /\ admin' = admin \/ (admin # None /\ admin' \in Users)
         /\ timestamp' \in Nat
<1>1. timestamp \in Nat
  BY DEF Shape, TypeOK
<1>2. CASE \E u \in Users, s \in Retentions : SetArchiveRetentionPeriod(u, s)
  BY <1>1, <1>2 DEF SetArchiveRetentionPeriod, history, counters
<1>3. CASE \E u, a \in Users : SetAdmin(u, a)
  BY <1>1, <1>3 DEF SetAdmin, IsAdmin, history, counters
<1>4. CASE CloseLedger
  BY <1>1, <1>4 DEF CloseLedger, history, counters
<1>5. CASE UNCHANGED vars
  BY <1>1, <1>5 DEF vars, history, counters
<1> QED
  BY <1>2, <1>3, <1>4, <1>5 DEF Settings

LEMMA SettingsShape == ASSUME Shape, Settings PROVE Shape'
<1>1. /\ UNCHANGED <<budget, archive, BudgetMember, contribution, BudgetContributions,
                     BudgetDeactivatedAt, TotalBudgetsCreated, TotalContributionsProcessed,
                     wallet>>
      /\ admin' = admin \/ (admin # None /\ admin' \in Users)
      /\ timestamp' \in Nat
  BY SettingsEffect
<1>2. Live' = Live /\ Archived' = Archived /\ Everything' = Everything
  BY <1>1 DEF Live, Archived, Everything
<1>3. TypeOK'
  BY <1>1, <1>2 DEF Shape, TypeOK
<1>4. admin' = None => TotalBudgetsCreated = 0 /\ TotalContributionsProcessed = 0
  BY <1>1, AddressAssumption DEF Shape, Stored
<1>5. Stored'
  BY <1>1, <1>2, <1>4 DEF Shape, Stored
<1>6. LiveOrArchived'
  BY <1>1, <1>2 DEF Shape, LiveOrArchived
<1> QED
  BY <1>3, <1>5, <1>6 DEF Shape

\* Every step is one of these.
LEMMA Steps ==
  ASSUME Shape, [Next]_vars
  PROVE  \/ \E a \in Users : Initialize(a)
         \/ \E u \in Users, t \in Tokens, ms \in Seq(Users), rules \in Seq(Rule) :
              CreateBudget(u, t, ms, rules)
         \/ \E u \in Users, b \in Live, a \in Amounts : ContributeToBudget(u, b, a)
         \/ \E u \in Users, b \in Live, to \in Accounts, a \in Amounts :
              SpendFromBudget(u, b, to, a)
         \/ \E u \in Users, b \in Live :
              \/ \E o \in Users : TransferBudgetOwnership(u, b, o)
              \/ \E m \in Users : AddMemberToBudget(u, b, m)
              \/ \E rule \in Rules : AddSpendingRule(u, b, rule)
              \/ DeactivateBudget(u, b)
         \/ \E gone \in SUBSET Live : Moved(gone)
         \/ Settings
<1>1. << >> \in Seq(Rule) /\ \A rule \in Rules : <<rule>> \in Seq(Rule)
  BY InputAssumption
<1>2. ASSUME NEW u \in Users, NEW limit \in SweepLimits, ArchiveInactiveBudgets(u, limit)
      PROVE  \E gone \in SUBSET Live : Moved(gone)
  BY <1>2, ArchiveEffect DEF Moved
<1>3. ASSUME NEW c \in Users, NEW t \in Tokens, NEW ms \in MemberLists,
             \/ CreateBudget(c, t, ms, << >>)
             \/ \E rule \in Rules : CreateBudget(c, t, ms, <<rule>>)
      PROVE  \E u \in Users, k \in Tokens, l \in Seq(Users), rules \in Seq(Rule) :
               CreateBudget(u, k, l, rules)
  BY <1>1, <1>3, InputAssumption
<1>4. CASE UNCHANGED vars
  BY <1>4 DEF Settings
<1>5. CASE Next
  BY <1>2, <1>3, <1>5 DEF Next, Settings
<1> QED
  BY <1>4, <1>5

LEMMA ShapeNext ==
  ASSUME ~EarlyCalls, Shape, [Next]_vars
  PROVE  Shape'
BY Steps, InitializeShape, CreateShape, ContributeShape, SpendShape, ManageShape, ArchiveShape,
   SettingsShape

\* Every reachable state of the shared budgets contract is well formed, if it
\* is initialized before it is used.
THEOREM TypeCorrect == ~EarlyCalls => (Spec => []TypeOK)
<1> SUFFICES ASSUME ~EarlyCalls PROVE Spec => []TypeOK
  OBVIOUS
<1>1. Init => Shape
  BY ShapeInit
<1>2. Shape /\ [Next]_vars => Shape'
  BY ShapeNext
<1>3. Shape => TypeOK
  BY DEF Shape
<1> QED
  BY <1>1, <1>2, <1>3, PTL DEF Spec

------------------------------------------------------------------------------
\* Who may spend is who the budget lists.

LEMMA SameMembers ==
  ASSUME MembersAgree, BudgetMember' = BudgetMember, Live' \subseteq Live,
         \A b \in Live' : budget'[b].members = budget[b].members
  PROVE  MembersAgree'
BY DEF MembersAgree

LEMMA RecordReplaced ==
  ASSUME NEW b \in Live, NEW r, budget' = [budget EXCEPT ![b] = r]
  PROVE  /\ Live' = Live /\ budget'[b] = r
         /\ \A c \in Live : c # b => budget'[c] = budget[c]
BY DEF Live

LEMMA CreateMembers ==
  ASSUME Shape, MembersAgree, NEW u \in Users, NEW t \in Tokens, NEW ms \in Seq(Users),
         NEW rules \in Seq(Rule), CreateBudget(u, t, ms, rules)
  PROVE  MembersAgree'
<1>1. PICK id : id = TotalBudgetsCreated + 1
  OBVIOUS
<1>2. id \notin Live /\ \A x \in Users : <<id, x>> \notin BudgetMember
  BY <1>1, Numbers DEF Shape, Stored
<1>3. BudgetMember' = BudgetMember \cup {<<id, ms[i]>> : i \in DOMAIN ms}
  BY <1>1 DEF CreateBudget, NextBudgetId
<1>4. /\ Live' = Live \cup {id}
      /\ budget'[id].members = ms
      /\ \A b \in Live : budget'[b] = budget[b]
  BY <1>1, <1>2 DEF CreateBudget, NextBudgetId, Live
<1>5. {budget'[id].members[i] : i \in DOMAIN budget'[id].members}
        = {x \in Users : <<id, x>> \in BudgetMember'}
  <2>1. \A x \in Users : <<id, x>> \in BudgetMember' <=> \E i \in DOMAIN ms : x = ms[i]
    BY <1>2, <1>3
  <2>2. \A i \in DOMAIN ms : ms[i] \in Users
    OBVIOUS
  <2> QED
    BY <1>4, <2>1, <2>2
<1>6. ASSUME NEW b \in Live
      PROVE  {budget'[b].members[i] : i \in DOMAIN budget'[b].members}
               = {x \in Users : <<b, x>> \in BudgetMember'}
  <2>1. b # id
    BY <1>2
  <2>2. \A x \in Users : <<b, x>> \in BudgetMember' <=> <<b, x>> \in BudgetMember
    BY <1>3, <2>1
  <2>3. {budget[b].members[i] : i \in DOMAIN budget[b].members}
          = {x \in Users : <<b, x>> \in BudgetMember}
    BY DEF MembersAgree
  <2> QED
    BY <1>4, <2>2, <2>3
<1> QED
  BY <1>4, <1>5, <1>6 DEF MembersAgree

LEMMA AddMemberMembers ==
  ASSUME Shape, MembersAgree, NEW u \in Users, NEW b \in Live, NEW m \in Users,
         AddMemberToBudget(u, b, m)
  PROVE  MembersAgree'
<1>1. PICK r \in Budget :
           /\ KeepsMoney(b, r)
           /\ r.is_active = budget[b].is_active
           /\ r.members = Append(budget[b].members, m)
           /\ BudgetMember' = BudgetMember \cup {<<b, m>>}
           /\ UNCHANGED BudgetDeactivatedAt
  BY AddMemberEffect
<1>2. /\ Live' = Live /\ budget'[b] = r
      /\ \A c \in Live : c # b => budget'[c] = budget[c]
  BY <1>1, RecordReplaced DEF KeepsMoney, Rewritten
<1>3. PICK ms \in Seq(Users) : ms = budget[b].members
  BY Numbers DEF Budget
<1>4. r.members = Append(ms, m)
  BY <1>1, <1>3
<1>5. DOMAIN Append(ms, m) = DOMAIN ms \cup {Len(ms) + 1}
      /\ Append(ms, m)[Len(ms) + 1] = m /\ \A i \in DOMAIN ms : Append(ms, m)[i] = ms[i]
  OBVIOUS
<1>6. {Append(ms, m)[i] : i \in DOMAIN Append(ms, m)} = {ms[i] : i \in DOMAIN ms} \cup {m}
  BY <1>5
<1>7. {ms[i] : i \in DOMAIN ms} = {x \in Users : <<b, x>> \in BudgetMember}
  BY <1>3 DEF MembersAgree
<1>8. {r.members[i] : i \in DOMAIN r.members} = {x \in Users : <<b, x>> \in BudgetMember'}
  <2>1. \A x \in Users : <<b, x>> \in BudgetMember' <=> <<b, x>> \in BudgetMember \/ x = m
    BY <1>1
  <2> QED
    BY <1>4, <1>6, <1>7, <2>1
<1>9. ASSUME NEW c \in Live, c # b
      PROVE  {budget'[c].members[i] : i \in DOMAIN budget'[c].members}
               = {x \in Users : <<c, x>> \in BudgetMember'}
  <2>1. \A x \in Users : <<c, x>> \in BudgetMember' <=> <<c, x>> \in BudgetMember
    BY <1>1, <1>9
  <2>2. {budget[c].members[i] : i \in DOMAIN budget[c].members}
          = {x \in Users : <<c, x>> \in BudgetMember}
    BY DEF MembersAgree
  <2> QED
    BY <1>2, <1>9, <2>1, <2>2
<1> QED
  BY <1>2, <1>8, <1>9 DEF MembersAgree

LEMMA ManageMembers ==
  ASSUME Shape, MembersAgree, NEW u \in Users, NEW b \in Live,
         \/ \E o \in Users : TransferBudgetOwnership(u, b, o)
         \/ \E m \in Users : AddMemberToBudget(u, b, m)
         \/ \E rule \in Rules : AddSpendingRule(u, b, rule)
         \/ DeactivateBudget(u, b)
  PROVE  MembersAgree'
<1>1. ASSUME NEW r \in Budget, KeepsMoney(b, r), r.members = budget[b].members,
             BudgetMember' = BudgetMember
      PROVE  MembersAgree'
  <2>1. /\ Live' = Live /\ budget'[b] = r
        /\ \A c \in Live : c # b => budget'[c] = budget[c]
    BY <1>1, RecordReplaced DEF KeepsMoney, Rewritten
  <2> QED
    BY <1>1, <2>1, SameMembers
<1>2. CASE \E o \in Users : TransferBudgetOwnership(u, b, o)
  BY <1>1, <1>2, TransferEffect
<1>3. CASE \E m \in Users : AddMemberToBudget(u, b, m)
  BY <1>3, AddMemberMembers
<1>4. CASE \E rule \in Rules : AddSpendingRule(u, b, rule)
  BY <1>1, <1>4, AddRuleEffect
<1>5. CASE DeactivateBudget(u, b)
  BY <1>1, <1>5, DeactivateEffect
<1> QED
  BY <1>2, <1>3, <1>4, <1>5

LEMMA MembersNext ==
  ASSUME ~EarlyCalls, Shape, MembersAgree, [Next]_vars
  PROVE  MembersAgree'
<1>1. ASSUME NEW a \in Users, Initialize(a) PROVE MembersAgree'
  BY <1>1, SameMembers DEF Initialize, Live
<1>2. ASSUME NEW u \in Users, NEW b \in Live, NEW a \in Amounts, ContributeToBudget(u, b, a)
      PROVE  MembersAgree'
  <2>1. PICK n \in Nat, r \in Budget, entry \in Contribution : Contributed(u, b, a, n, r, entry)
    BY <1>2, ContributeEffect
  <2>2. budget' = [budget EXCEPT ![b] = r] /\ r.members = budget[b].members
        /\ BudgetMember' = BudgetMember
    BY <2>1 DEF Contributed
  <2>3. /\ Live' = Live /\ budget'[b] = r
        /\ \A c \in Live : c # b => budget'[c] = budget[c]
    BY <2>2, RecordReplaced
  <2> QED
    BY <2>2, <2>3, SameMembers
<1>3. ASSUME NEW u \in Users, NEW b \in Live, NEW to \in Accounts, NEW a \in Amounts,
             SpendFromBudget(u, b, to, a)
      PROVE  MembersAgree'
  <2>1. PICK r \in Budget : /\ Rewritten(b, r) /\ r.members = budget[b].members
                            /\ BudgetMember' = BudgetMember
    BY <1>3, SpendEffect
  <2>2. /\ Live' = Live /\ budget'[b] = r
        /\ \A c \in Live : c # b => budget'[c] = budget[c]
    BY <2>1, RecordReplaced DEF Rewritten
  <2> QED
    BY <2>1, <2>2, SameMembers
<1>4. ASSUME NEW gone \in SUBSET Live, Moved(gone) PROVE MembersAgree'
  BY <1>4, SameMembers DEF Moved
<1>5. ASSUME Settings PROVE MembersAgree'
  BY <1>5, SettingsEffect, SameMembers DEF Live
<1> QED
  BY <1>1, <1>2, <1>3, <1>4, <1>5, Steps, CreateMembers, ManageMembers

\* No budget is lost: every number up to the count of budgets is either live or
\* archived; and the member keys that allow spending are the listed members.
THEOREM RegisterHolds == ~EarlyCalls => (Spec => []RegisterAgrees)
<1> SUFFICES ASSUME ~EarlyCalls PROVE Spec => []RegisterAgrees
  OBVIOUS
<1>1. Init => Shape /\ MembersAgree
  BY ShapeInit DEF Init, MembersAgree, Live
<1>2. Shape /\ MembersAgree /\ [Next]_vars => (Shape /\ MembersAgree)'
  BY ShapeNext, MembersNext
<1>3. Shape /\ MembersAgree => RegisterAgrees
  BY DEF Shape, RegisterAgrees
<1> QED
  BY <1>1, <1>2, <1>3, PTL DEF Spec

------------------------------------------------------------------------------
\* Every total is what the history says.

\* The amounts given to a budget are natural numbers.
LEMMA GivenType ==
  ASSUME Shape, NEW b \in 1..MaxBudgets
  PROVE  /\ BudgetContributions[b] \in Seq(1..TotalContributionsProcessed)
         /\ DOMAIN Given(b) = 1..Len(BudgetContributions[b])
         /\ Len(BudgetContributions[b]) \in Nat
         /\ \A i \in 1..Len(BudgetContributions[b]) :
              /\ BudgetContributions[b][i] \in 1..TotalContributionsProcessed
              /\ Given(b)[i] = contribution[BudgetContributions[b][i]].amount
              /\ Given(b)[i] \in Nat
<1>1. BudgetContributions[b] \in Seq(1..TotalContributionsProcessed)
  BY DEF Shape, Stored
<1>2. \A n \in 1..TotalContributionsProcessed : contribution[n].amount \in Nat
  BY DEF Shape, Stored, Contribution
<1>3. DOMAIN BudgetContributions[b] = 1..Len(BudgetContributions[b])
      /\ Len(BudgetContributions[b]) \in Nat
  BY <1>1
<1>4. \A i \in 1..Len(BudgetContributions[b]) :
        BudgetContributions[b][i] \in 1..TotalContributionsProcessed
  <2>1. PICK ids, S : ids = BudgetContributions[b] /\ S = 1..TotalContributionsProcessed
    OBVIOUS
  <2>2. ids \in Seq(S)
    BY <1>1, <2>1
  <2>3. \A i \in 1..Len(ids) : ids[i] \in S
    BY <2>2
  <2> QED
    BY <2>1, <2>3
<1>5. /\ DOMAIN Given(b) = 1..Len(BudgetContributions[b])
      /\ \A i \in 1..Len(BudgetContributions[b]) :
           Given(b)[i] = contribution[BudgetContributions[b][i]].amount
  BY <1>3 DEF Given
<1> QED
  BY <1>1, <1>2, <1>3, <1>4, <1>5

\* One budget's books add up.
BooksOf(b) ==
  /\ RecordOf(b).total_contributed = SumTo(Given(b), Len(BudgetContributions[b]))
  /\ \A i \in DOMAIN BudgetContributions[b] :
       contribution[BudgetContributions[b][i]].budget_id = b
  /\ RecordOf(b).balance \in 0..RecordOf(b).total_contributed
  /\ b \in Archived => archive[b].contribution_ids = BudgetContributions[b]

LEMMA BooksOfAll == HistoryAddsUp <=> \A b \in Everything : BooksOf(b)
BY DEF HistoryAddsUp, BooksOf

\* A step that leaves a budget's history alone keeps its books, if its total
\* stays and its balance does not exceed it.
LEMMA BooksKept ==
  ASSUME Shape, NEW b \in Everything, BooksOf(b),
         BudgetContributions'[b] = BudgetContributions[b],
         \A i \in 1..TotalContributionsProcessed : contribution'[i] = contribution[i],
         RecordOf(b)'.total_contributed = RecordOf(b).total_contributed,
         RecordOf(b)'.balance \in 0..RecordOf(b).total_contributed,
         b \in Archived' => archive'[b].contribution_ids = BudgetContributions[b]
  PROVE  BooksOf(b)'
<1>1. b \in 1..MaxBudgets
  BY DEF Shape, TypeOK, Everything
<1>2. /\ BudgetContributions[b] \in Seq(1..TotalContributionsProcessed)
      /\ \A i \in 1..Len(BudgetContributions[b]) :
           BudgetContributions[b][i] \in 1..TotalContributionsProcessed
      /\ DOMAIN BudgetContributions[b] = 1..Len(BudgetContributions[b])
  BY <1>1, GivenType
<1>3. Given(b)' = Given(b)
  BY <1>2 DEF Given
<1>4. \A i \in DOMAIN BudgetContributions[b] :
        contribution'[BudgetContributions[b][i]].budget_id = b
  BY <1>2 DEF BooksOf
<1> QED
  BY <1>3, <1>4 DEF BooksOf

LEMMA CreateBooks ==
  ASSUME Shape, HistoryAddsUp, NEW u \in Users, NEW t \in Tokens, NEW ms \in Seq(Users),
         NEW rules \in Seq(Rule), CreateBudget(u, t, ms, rules)
  PROVE  /\ HistoryAddsUp'
         /\ Everything \subseteq Everything'
         /\ \A b \in Everything : RecordOf(b)' = RecordOf(b)
         /\ \A b \in Everything' \ Everything : RecordOf(b)'.balance = 0
<1>1. PICK id : id = TotalBudgetsCreated + 1
  OBVIOUS
<1>2. id \notin Live /\ id \notin Archived /\ id > TotalBudgetsCreated /\ id \in 1..MaxBudgets
  BY <1>1, Numbers DEF CreateBudget, NextBudgetId
<1>3. /\ Live' = Live \cup {id}
      /\ budget'[id].balance = 0 /\ budget'[id].total_contributed = 0
      /\ \A b \in Live : budget'[b] = budget[b]
      /\ UNCHANGED <<archive, contribution, BudgetContributions>>
  BY <1>1, <1>2 DEF CreateBudget, NextBudgetId, Live, history
<1>4. Archived' = Archived /\ Everything' = Everything \cup {id} /\ id \notin Everything
  BY <1>2, <1>3 DEF Archived, Everything
<1>5. \A b \in Everything : RecordOf(b)' = RecordOf(b)
  BY <1>2, <1>3, <1>4 DEF RecordOf, Everything
<1>6. RecordOf(id)'.balance = 0 /\ RecordOf(id)'.total_contributed = 0
  BY <1>3 DEF RecordOf
<1>7. BooksOf(id)'
  <2>1. BudgetContributions'[id] = << >>
    BY <1>2, <1>3 DEF Shape, Stored
  <2>2. PICK f : f = Given(id)'
    OBVIOUS
  <2>3. SumTo(f, 0) = 0
    BY SumZero
  <2>4. Len(BudgetContributions'[id]) = 0 /\ DOMAIN BudgetContributions'[id] = {}
    BY <2>1
  <2>5. SumTo(Given(id)', Len(BudgetContributions'[id])) = 0
    BY <2>2, <2>3, <2>4
  <2> QED
    BY <1>2, <1>4, <1>6, <2>4, <2>5 DEF BooksOf
<1>8. ASSUME NEW b \in Everything PROVE BooksOf(b)'
  <2>1. BooksOf(b)
    BY BooksOfAll
  <2>2. b \in Archived' => archive'[b].contribution_ids = BudgetContributions[b]
    BY <1>3, <1>4, <2>1 DEF BooksOf
  <2> QED
    BY <1>3, <1>5, <2>1, <2>2, BooksKept DEF BooksOf
<1>9. \A b \in Everything' : BooksOf(b)'
  BY <1>4, <1>7, <1>8
<1>10. HistoryAddsUp'
  BY <1>9 DEF HistoryAddsUp, BooksOf
<1> QED
  BY <1>4, <1>5, <1>6, <1>10

\* Replacing the record of a live budget, its history unchanged.
LEMMA RewrittenBooks ==
  ASSUME Shape, HistoryAddsUp, NEW b \in Live, NEW r, Rewritten(b, r),
         r.total_contributed = budget[b].total_contributed,
         r.balance \in 0..budget[b].balance
  PROVE  HistoryAddsUp'
<1>1. /\ Live' = Live /\ Archived' = Archived /\ Everything' = Everything
      /\ budget'[b] = r /\ \A c \in Live : c # b => budget'[c] = budget[c]
      /\ UNCHANGED <<archive, contribution, BudgetContributions>>
  BY RecordReplaced DEF Rewritten, Archived, Everything
<1>2. ASSUME NEW c \in Everything PROVE BooksOf(c)'
  <2>1. BooksOf(c)
    BY BooksOfAll
  <2>2. RecordOf(c)' = IF c = b THEN r ELSE RecordOf(c)
    BY <1>1 DEF RecordOf
  <2>3. RecordOf(c)'.total_contributed = RecordOf(c).total_contributed
    BY <2>2 DEF RecordOf
  <2>4. RecordOf(b).balance = budget[b].balance /\ budget[b] \in Budget
        /\ budget[b].balance \in Nat /\ budget[b].total_contributed \in Int
        /\ RecordOf(b).total_contributed = budget[b].total_contributed
    BY Numbers DEF RecordOf, Budget
  <2>5. RecordOf(c)'.balance \in 0..RecordOf(c).total_contributed
    BY <2>1, <2>2, <2>4 DEF BooksOf
  <2>6. c \in Archived' => archive'[c].contribution_ids = BudgetContributions[c]
    BY <1>1, <2>1 DEF BooksOf
  <2> QED
    BY <1>1, <2>1, <2>3, <2>5, <2>6, BooksKept
<1> QED
  BY <1>1, <1>2 DEF HistoryAddsUp, BooksOf

LEMMA AppendFacts ==
  ASSUME NEW S, NEW s \in Seq(S), NEW e
  PROVE  /\ Len(s) \in Nat /\ DOMAIN s = 1..Len(s)
         /\ Len(Append(s, e)) = Len(s) + 1 /\ DOMAIN Append(s, e) = 1..(Len(s) + 1)
         /\ Append(s, e)[Len(s) + 1] = e
         /\ \A i \in 1..Len(s) : Append(s, e)[i] = s[i]
OBVIOUS

\* A contribution adds its amount to the history of one budget and to its total.
LEMMA ContributeBooks ==
  ASSUME Shape, HistoryAddsUp, NEW u \in Users, NEW b \in Live, NEW amount \in Amounts,
         ContributeToBudget(u, b, amount)
  PROVE  HistoryAddsUp'
<1>1. PICK n \in Nat, r \in Budget, entry \in Contribution :
        Contributed(u, b, amount, n, r, entry)
  BY ContributeEffect
<1>2. /\ n = TotalContributionsProcessed + 1 /\ TotalContributionsProcessed \in Nat
      /\ amount \in Nat
      /\ r.balance = budget[b].balance + amount
      /\ r.total_contributed = budget[b].total_contributed + amount
      /\ entry.budget_id = b /\ entry.amount = amount
      /\ budget' = [budget EXCEPT ![b] = r]
      /\ archive' = archive
      /\ contribution' = [i \in (1..TotalContributionsProcessed) \cup {n} |->
                        IF i = n THEN entry ELSE contribution[i]]
      /\ BudgetContributions'
           = [BudgetContributions EXCEPT ![b] = Append(BudgetContributions[b], n)]
  BY <1>1 DEF Contributed
<1>3. /\ Live' = Live /\ Archived' = Archived /\ Everything' = Everything
      /\ budget'[b] = r /\ \A c \in Live : c # b => budget'[c] = budget[c]
  BY <1>2, RecordReplaced DEF Archived, Everything
<1>4. /\ contribution'[n] = entry
      /\ \A i \in 1..TotalContributionsProcessed : contribution'[i] = contribution[i]
  BY <1>2
<1>5. b \in 1..MaxBudgets /\ BudgetContributions \in [1..MaxBudgets -> Seq(1..TotalContributionsProcessed)]
      /\ Everything \subseteq 1..MaxBudgets
  BY DEF Shape, TypeOK, Stored, Everything
<1>6. /\ BudgetContributions'[b] = Append(BudgetContributions[b], n)
      /\ \A c \in Everything : c # b => BudgetContributions'[c] = BudgetContributions[c]
  BY <1>2, <1>5
<1>7. ASSUME NEW c \in Everything, c # b PROVE BooksOf(c)'
  <2>1. BooksOf(c)
    BY BooksOfAll
  <2>2. RecordOf(c)' = RecordOf(c)
    BY <1>2, <1>3, <1>7 DEF RecordOf
  <2>3. c \in Archived' => archive'[c].contribution_ids = BudgetContributions[c]
    BY <1>2, <1>3, <2>1 DEF BooksOf
  <2> QED
    BY <1>4, <1>6, <1>7, <2>1, <2>2, <2>3, BooksKept DEF BooksOf
<1>8. BooksOf(b)'
  <2>1. PICK ids : ids = BudgetContributions[b]
    OBVIOUS
  <2>2. PICK f, g : f = Given(b) /\ g = Given(b)'
    OBVIOUS
  <2>3. /\ ids \in Seq(1..TotalContributionsProcessed) /\ Len(ids) \in Nat
        /\ \A i \in 1..Len(ids) : /\ ids[i] \in 1..TotalContributionsProcessed
                                  /\ f[i] = contribution[ids[i]].amount
                                  /\ f[i] \in Nat
    BY <1>5, <2>1, <2>2, GivenType
  <2>4. /\ BudgetContributions'[b] = Append(ids, n)
        /\ Len(Append(ids, n)) = Len(ids) + 1 /\ DOMAIN Append(ids, n) = 1..(Len(ids) + 1)
        /\ Append(ids, n)[Len(ids) + 1] = n
        /\ \A i \in 1..Len(ids) : Append(ids, n)[i] = ids[i]
    BY <1>6, <2>1, <2>3, AppendFacts
  <2>5. \A i \in 1..(Len(ids) + 1) : g[i] = contribution'[Append(ids, n)[i]].amount
    BY <2>2, <2>4 DEF Given
  <2>6. \A i \in 1..Len(ids) : g[i] = f[i]
    BY <1>4, <2>3, <2>4, <2>5
  <2>7. g[Len(ids) + 1] = amount
    <3>1. Len(ids) + 1 \in 1..(Len(ids) + 1)
      BY <2>3
    <3>2. g[Len(ids) + 1] = contribution'[n].amount
      BY <2>4, <2>5, <3>1
    <3>3. contribution'[n] = entry /\ entry.amount = amount
      BY <1>2, <1>4
    <3> QED
      BY <3>2, <3>3
  <2>8. \A i \in 1..(Len(ids) + 1) : g[i] \in Int
    <3>1. \A i \in 1..(Len(ids) + 1) : i \in 1..Len(ids) \/ i = Len(ids) + 1
      BY <2>3
    <3>2. \A i \in 1..Len(ids) : g[i] \in Nat
      BY <2>3, <2>6
    <3>3. g[Len(ids) + 1] \in Nat
      BY <1>2, <2>7
    <3> QED
      BY <3>1, <3>2, <3>3
  <2>9. SumTo(g, Len(ids) + 1) = SumTo(g, Len(ids)) + amount
    BY <2>3, <2>7, <2>8, SumStep
  <2>10. SumTo(f, Len(ids)) = SumTo(g, Len(ids))
    BY <2>3, <2>6, SumCongruence
  <2>11. BooksOf(b) /\ RecordOf(b) = budget[b] /\ RecordOf(b)' = r /\ b \notin Archived'
    BY <1>3, BooksOfAll DEF RecordOf, Everything, Shape, LiveOrArchived
  <2>12. budget[b].balance \in Nat /\ budget[b].total_contributed \in Int
    BY Numbers DEF Budget
  <2>13. r.total_contributed = SumTo(g, Len(ids) + 1)
    BY <1>2, <2>1, <2>2, <2>9, <2>10, <2>11 DEF BooksOf
  <2>14. r.balance \in 0..r.total_contributed
    BY <1>2, <2>11, <2>12 DEF BooksOf
  <2>15. \A i \in 1..(Len(ids) + 1) : contribution'[Append(ids, n)[i]].budget_id = b
    <3>1. \A i \in 1..Len(ids) : contribution[ids[i]].budget_id = b
      BY <2>1, <2>3, <2>11 DEF BooksOf
    <3> QED
      BY <1>2, <1>4, <2>3, <2>4, <3>1
  <2> QED
    BY <2>2, <2>4, <2>11, <2>13, <2>14, <2>15 DEF BooksOf
<1> QED
  BY <1>3, <1>7, <1>8 DEF HistoryAddsUp, BooksOf

\* The sweep takes the history along.
LEMMA MovedRecords ==
  ASSUME Shape, NEW gone \in SUBSET Live, Moved(gone), NEW b \in Everything
  PROVE  RecordOf(b)' = RecordOf(b)
<1>1. /\ Live' = Live \ gone /\ Archived' = Archived \cup gone /\ Live \cap Archived = {}
      /\ \A c \in Live' : budget'[c] = budget[c]
      /\ \A c \in Archived : archive'[c] = archive[c]
  BY DEF Moved, Shape, LiveOrArchived
<1>2. CASE b \in gone
  <2>1. archive'[b] = [budget |-> budget[b], deactivated_at |-> InactiveSince(b),
                       archived_at |-> timestamp, contribution_ids |-> BudgetContributions[b]]
    BY <1>2 DEF Moved
  <2>2. archive'[b].budget = budget[b]
    BY <2>1
  <2>3. b \in Live /\ b \notin Live'
    BY <1>1, <1>2
  <2> QED
    BY <2>2, <2>3 DEF RecordOf
<1>3. CASE b \in Live \ gone
  BY <1>1, <1>3 DEF RecordOf
<1>4. CASE b \in Archived
  BY <1>1, <1>4 DEF RecordOf
<1> QED
  BY <1>2, <1>3, <1>4 DEF Everything

LEMMA MovedBooks ==
  ASSUME Shape, HistoryAddsUp, NEW gone \in SUBSET Live, Moved(gone)
  PROVE  HistoryAddsUp'
<1>1. ASSUME NEW b \in Everything PROVE BooksOf(b)'
  <2>1. BooksOf(b)
    BY BooksOfAll
  <2>2. RecordOf(b)' = RecordOf(b)
    BY MovedRecords
  <2>3. ASSUME b \in Archived'
        PROVE  archive'[b].contribution_ids = BudgetContributions[b]
    <3>1. CASE b \in gone
      <4>1. archive'[b] = [budget |-> budget[b], deactivated_at |-> InactiveSince(b),
                 archived_at |-> timestamp, contribution_ids |-> BudgetContributions[b]]
        BY <3>1 DEF Moved
      <4> QED
        BY <4>1
    <3>2. CASE b \in Archived
      BY <2>1, <3>2 DEF Moved, BooksOf
    <3> QED
      BY <2>3, <3>1, <3>2 DEF Moved
  <2>4. UNCHANGED <<contribution, BudgetContributions>>
    BY DEF Moved
  <2>5. /\ RecordOf(b)'.total_contributed = RecordOf(b).total_contributed
        /\ RecordOf(b)'.balance \in 0..RecordOf(b).total_contributed
    BY <2>1, <2>2 DEF BooksOf
  <2> QED
    BY <2>1, <2>3, <2>4, <2>5, BooksKept
<1>2. Everything' = Everything
  BY DEF Moved
<1> QED
  BY <1>1, <1>2 DEF HistoryAddsUp, BooksOf

LEMMA ManageRecord ==
  ASSUME Shape, NEW u \in Users, NEW b \in Live,
         \/ \E o \in Users : TransferBudgetOwnership(u, b, o)
         \/ \E m \in Users : AddMemberToBudget(u, b, m)
         \/ \E rule \in Rules : AddSpendingRule(u, b, rule)
         \/ DeactivateBudget(u, b)
  PROVE  \E r \in Budget : KeepsMoney(b, r)
BY TransferEffect, AddMemberEffect, AddRuleEffect, DeactivateEffect

LEMMA HistoryNext ==
  ASSUME ~EarlyCalls, Shape, HistoryAddsUp, [Next]_vars
  PROVE  HistoryAddsUp'
<1>1. ASSUME UNCHANGED <<budget, archive, contribution, BudgetContributions>>
      PROVE  HistoryAddsUp'
  BY <1>1 DEF HistoryAddsUp, Everything, Live, Archived, RecordOf, Given
<1>2. ASSUME NEW a \in Users, Initialize(a) PROVE HistoryAddsUp'
  BY <1>1, <1>2 DEF Initialize, history
<1>3. ASSUME NEW u \in Users, NEW b \in Live, NEW to \in Accounts, NEW a \in Amounts,
             SpendFromBudget(u, b, to, a)
      PROVE  HistoryAddsUp'
  <2>1. PICK r \in Budget :
           /\ Rewritten(b, r) /\ a \in Nat
           /\ budget[b].balance >= a /\ r.balance = budget[b].balance - a
           /\ r.total_contributed = budget[b].total_contributed
    BY <1>3, SpendEffect
  <2>2. r.balance \in 0..budget[b].balance
    BY <2>1, Numbers
  <2> QED
    BY <2>1, <2>2, RewrittenBooks
<1>4. ASSUME NEW u \in Users, NEW b \in Live,
             \/ \E o \in Users : TransferBudgetOwnership(u, b, o)
             \/ \E m \in Users : AddMemberToBudget(u, b, m)
             \/ \E rule \in Rules : AddSpendingRule(u, b, rule)
             \/ DeactivateBudget(u, b)
      PROVE  HistoryAddsUp'
  <2>1. PICK r \in Budget : KeepsMoney(b, r)
    BY <1>4, ManageRecord
  <2>2. r.balance \in 0..budget[b].balance
    BY <2>1, Numbers DEF KeepsMoney
  <2> QED
    BY <2>1, <2>2, RewrittenBooks DEF KeepsMoney
<1>5. ASSUME Settings PROVE HistoryAddsUp'
  BY <1>1, <1>5, SettingsEffect
<1> QED
  BY <1>2, <1>3, <1>4, <1>5, Steps, CreateBooks, ContributeBooks, MovedBooks

------------------------------------------------------------------------------
\* The contract holds every balance.

LEMMA HeldType ==
  ASSUME Shape, NEW t \in Tokens
  PROVE  \A b \in 1..MaxBudgets : Held(t)[b] \in Int
<1>1. \A b \in Everything : RecordOf(b).balance \in Int
  BY DEF Everything, RecordOf, Shape, TypeOK, Stored, Budget
<1> QED
  BY <1>1 DEF Held

\* A step that moves no budget's money changes no total; new budgets are empty.
LEMMA HeldKept ==
  ASSUME Shape, Everything \subseteq Everything',
         \A b \in Everything : /\ RecordOf(b)'.token = RecordOf(b).token
                               /\ RecordOf(b)'.balance = RecordOf(b).balance,
         \A b \in Everything' \ Everything : RecordOf(b)'.balance = 0,
         NEW t \in Tokens
  PROVE  SumTo(Held(t)', MaxBudgets) = SumTo(Held(t), MaxBudgets)
<1>1. PICK f, g : f = Held(t) /\ g = Held(t)'
  OBVIOUS
<1>2. \A b \in 1..MaxBudgets : f[b] \in Int
  BY <1>1, HeldType
<1>3. \A b \in 1..MaxBudgets : f[b] = g[b]
  BY <1>1 DEF Held
<1>4. MaxBudgets \in Nat
  BY BoundAssumption
<1> QED
  BY <1>1, <1>2, <1>3, <1>4, SumCongruence

\* What one budget gains or loses, the total of its token gains or loses.
LEMMA HeldPoint ==
  ASSUME Shape, NEW b \in Live, NEW r \in Budget, budget' = [budget EXCEPT ![b] = r],
         archive' = archive, r.token = budget[b].token, NEW t \in Tokens
  PROVE  SumTo(Held(t)', MaxBudgets)
           = SumTo(Held(t), MaxBudgets)
               + (IF t = r.token THEN r.balance - budget[b].balance ELSE 0)
<1>1. PICK f, g : f = Held(t) /\ g = Held(t)'
  OBVIOUS
<1>2. /\ Live' = Live /\ Archived' = Archived /\ Everything' = Everything
      /\ budget'[b] = r /\ \A c \in Live : c # b => budget'[c] = budget[c]
  BY RecordReplaced DEF Archived, Everything
<1>3. \A c \in Everything : RecordOf(c)' = IF c = b THEN r ELSE RecordOf(c)
  BY <1>2 DEF RecordOf
<1>4. \A c \in 1..MaxBudgets : f[c] \in Int
  BY <1>1, HeldType
<1>5. \A c \in 1..MaxBudgets : c # b => f[c] = g[c]
  BY <1>1, <1>2, <1>3 DEF Held
<1>6. /\ b \in 1..MaxBudgets /\ MaxBudgets \in Nat /\ b \in Everything
      /\ RecordOf(b) = budget[b] /\ budget[b].balance \in Int /\ r.balance \in Int
  BY Numbers DEF Shape, TypeOK, RecordOf, Everything, Budget
<1>7. /\ f[b] = IF t = r.token THEN budget[b].balance ELSE 0
      /\ g[b] = IF t = r.token THEN r.balance ELSE 0
  BY <1>1, <1>2, <1>3, <1>6 DEF Held
<1>8. \A c \in 1..MaxBudgets : f[c] \in Int /\ g[c] \in Int
  BY <1>4, <1>5, <1>6, <1>7
<1>9. SumTo(g, MaxBudgets) = SumTo(f, MaxBudgets) + g[b] - f[b]
  BY <1>5, <1>6, <1>8, SumPoint
<1>10. SumTo(f, MaxBudgets) \in Int
  BY <1>6, <1>8, SumType
<1>11. g[b] - f[b] = IF t = r.token THEN r.balance - budget[b].balance ELSE 0
  BY <1>6, <1>7
<1>12. SumTo(g, MaxBudgets) = SumTo(f, MaxBudgets)
               + (IF t = r.token THEN r.balance - budget[b].balance ELSE 0)
  BY <1>6, <1>8, <1>9, <1>10, <1>11
<1> QED
  BY <1>1, <1>12

LEMMA HeldTotal ==
  ASSUME Shape, NEW t \in Tokens
  PROVE  SumTo(Held(t), MaxBudgets) \in Int
<1>1. PICK f : f = Held(t)
  OBVIOUS
<1>2. \A b \in 1..MaxBudgets : f[b] \in Int
  BY <1>1, HeldType
<1> QED
  BY <1>1, <1>2, SumType, BoundAssumption

LEMMA ContributeBacked ==
  ASSUME Shape, Backed, NEW u \in Users, NEW b \in Live, NEW amount \in Amounts,
         ContributeToBudget(u, b, amount)
  PROVE  Backed'
<1>1. PICK n \in Nat, r \in Budget, entry \in Contribution :
        Contributed(u, b, amount, n, r, entry)
  BY ContributeEffect
<1>2. /\ amount \in Nat /\ budget' = [budget EXCEPT ![b] = r] /\ archive' = archive
      /\ r.balance = budget[b].balance + amount /\ r.token = budget[b].token
      /\ wallet[budget[b].token][u] >= amount
      /\ wallet' = Move(wallet, budget[b].token, u, Contract, amount)
  BY <1>1 DEF Contributed
<1>3. budget[b].token \in Tokens /\ budget[b].balance \in Int
  BY Numbers DEF Budget
<1>4. /\ wallet \in [Tokens -> [Accounts -> Nat]] /\ u \in Accounts /\ Contract \in Accounts
      /\ u # Contract
  BY AddressAssumption DEF Shape, TypeOK, Accounts
<1>5. /\ wallet'[budget[b].token][Contract] = wallet[budget[b].token][Contract] + amount
      /\ \A k \in Tokens : k # budget[b].token => wallet'[k] = wallet[k]
  <2>1. wallet'[budget[b].token][Contract] = wallet[budget[b].token][Contract]
          + (IF Contract = Contract THEN amount ELSE 0) - (IF Contract = u THEN amount ELSE 0)
    <3>1. \A x \in Accounts : Move(wallet, budget[b].token, u, Contract, amount)[budget[b].token][x]
            = wallet[budget[b].token][x]
                + (IF x = Contract THEN amount ELSE 0) - (IF x = u THEN amount ELSE 0)
      BY <1>2, <1>3, <1>4, MoveType
    <3> QED
      BY <1>2, <1>4, <3>1
  <2>2. wallet[budget[b].token][Contract] \in Nat
    BY <1>3, <1>4
  <2>3. \A k \in Tokens : k # budget[b].token => wallet'[k] = wallet[k]
    BY <1>2, <1>3, <1>4, MoveType
  <2> QED
    BY <1>2, <1>4, <2>1, <2>2, <2>3
<1>6. ASSUME NEW t \in Tokens PROVE wallet'[t][Contract] >= SumTo(Held(t)', MaxBudgets)
  <2>1. SumTo(Held(t)', MaxBudgets) = SumTo(Held(t), MaxBudgets)
               + (IF t = r.token THEN r.balance - budget[b].balance ELSE 0)
    BY <1>2, HeldPoint
  <2>2. wallet[t][Contract] >= SumTo(Held(t), MaxBudgets) /\ wallet[t][Contract] \in Nat
        /\ SumTo(Held(t), MaxBudgets) \in Int
    BY <1>4, HeldTotal DEF Backed
  <2>3. CASE t = r.token
    BY <1>2, <1>3, <1>5, <2>1, <2>2, <2>3
  <2>4. CASE t # r.token
    BY <1>2, <1>5, <2>1, <2>2, <2>4
  <2> QED
    BY <2>3, <2>4
<1> QED
  BY <1>6 DEF Backed

\* The recipient may be the contract itself, which then holds more than it owes.
LEMMA SpendBacked ==
  ASSUME Shape, Backed, NEW u \in Users, NEW b \in Live, NEW to \in Accounts,
         NEW amount \in Amounts, SpendFromBudget(u, b, to, amount)
  PROVE  Backed'
<1>1. PICK r \in Budget :
           /\ Rewritten(b, r) /\ amount \in Nat
           /\ r.balance = budget[b].balance - amount /\ r.token = budget[b].token
           /\ wallet[budget[b].token][Contract] >= amount
           /\ wallet' = Move(wallet, budget[b].token, Contract, to, amount)
  BY SpendEffect
<1>2. budget' = [budget EXCEPT ![b] = r] /\ archive' = archive
  BY <1>1 DEF Rewritten
<1>3. budget[b].token \in Tokens /\ budget[b].balance \in Int
  BY Numbers DEF Budget
<1>4. /\ wallet \in [Tokens -> [Accounts -> Nat]] /\ Contract \in Accounts
  BY DEF Shape, TypeOK, Accounts
<1>5. /\ wallet'[budget[b].token][Contract] >= wallet[budget[b].token][Contract] - amount
      /\ wallet'[budget[b].token][Contract] \in Int
      /\ \A k \in Tokens : k # budget[b].token => wallet'[k] = wallet[k]
  <2>1. wallet'[budget[b].token][Contract] = wallet[budget[b].token][Contract]
          + (IF Contract = to THEN amount ELSE 0)
          - (IF Contract = Contract THEN amount ELSE 0)
    BY <1>1, <1>3, <1>4, MoveType
  <2>2. wallet[budget[b].token][Contract] \in Nat
    BY <1>3, <1>4
  <2>3. \A k \in Tokens : k # budget[b].token => wallet'[k] = wallet[k]
    BY <1>1, <1>3, <1>4, MoveType
  <2> QED
    BY <1>1, <2>1, <2>2, <2>3
<1>6. ASSUME NEW t \in Tokens PROVE wallet'[t][Contract] >= SumTo(Held(t)', MaxBudgets)
  <2>1. SumTo(Held(t)', MaxBudgets) = SumTo(Held(t), MaxBudgets)
               + (IF t = r.token THEN r.balance - budget[b].balance ELSE 0)
    BY <1>1, <1>2, HeldPoint
  <2>2. wallet[t][Contract] >= SumTo(Held(t), MaxBudgets) /\ wallet[t][Contract] \in Nat
        /\ SumTo(Held(t), MaxBudgets) \in Int
    BY <1>4, HeldTotal DEF Backed
  <2>3. CASE t = r.token
    BY <1>1, <1>3, <1>5, <2>1, <2>2, <2>3
  <2>4. CASE t # r.token
    BY <1>1, <1>5, <2>1, <2>2, <2>4
  <2> QED
    BY <2>3, <2>4
<1> QED
  BY <1>6 DEF Backed

LEMMA BackedKept ==
  ASSUME Shape, Backed, wallet' = wallet, Everything \subseteq Everything',
         \A b \in Everything : /\ RecordOf(b)'.token = RecordOf(b).token
                               /\ RecordOf(b)'.balance = RecordOf(b).balance,
         \A b \in Everything' \ Everything : RecordOf(b)'.balance = 0
  PROVE  Backed'
<1>1. ASSUME NEW t \in Tokens PROVE wallet'[t][Contract] >= SumTo(Held(t)', MaxBudgets)
  <2>1. SumTo(Held(t)', MaxBudgets) = SumTo(Held(t), MaxBudgets)
    BY HeldKept
  <2> QED
    BY <2>1 DEF Backed
<1> QED
  BY <1>1 DEF Backed

LEMMA BackedNext ==
  ASSUME ~EarlyCalls, Shape, HistoryAddsUp, Backed, [Next]_vars
  PROVE  Backed'
<1>1. ASSUME UNCHANGED <<budget, archive, wallet>> PROVE Backed'
  <2>1. Everything' = Everything /\ \A b \in Everything : RecordOf(b)' = RecordOf(b)
    BY <1>1 DEF Everything, Live, Archived, RecordOf
  <2> QED
    BY <1>1, <2>1, BackedKept
<1>2. ASSUME NEW a \in Users, Initialize(a) PROVE Backed'
  BY <1>1, <1>2 DEF Initialize
<1>3. ASSUME NEW u \in Users, NEW t \in Tokens, NEW ms \in Seq(Users), NEW rules \in Seq(Rule),
             CreateBudget(u, t, ms, rules)
      PROVE  Backed'
  <2>1. /\ Everything \subseteq Everything'
        /\ \A b \in Everything : RecordOf(b)' = RecordOf(b)
        /\ \A b \in Everything' \ Everything : RecordOf(b)'.balance = 0
    BY <1>3, CreateBooks
  <2>2. wallet' = wallet
    BY <1>3 DEF CreateBudget
  <2> QED
    BY <2>1, <2>2, BackedKept
<1>4. ASSUME NEW u \in Users, NEW b \in Live,
             \/ \E o \in Users : TransferBudgetOwnership(u, b, o)
             \/ \E m \in Users : AddMemberToBudget(u, b, m)
             \/ \E rule \in Rules : AddSpendingRule(u, b, rule)
             \/ DeactivateBudget(u, b)
      PROVE  Backed'
  <2>1. PICK r \in Budget : KeepsMoney(b, r)
    BY <1>4, ManageRecord
  <2>2. /\ Live' = Live /\ budget'[b] = r /\ Archived' = Archived
        /\ \A c \in Live : c # b => budget'[c] = budget[c]
        /\ archive' = archive /\ wallet' = wallet
        /\ r.balance = budget[b].balance /\ r.token = budget[b].token
    BY <2>1, RecordReplaced DEF KeepsMoney, Rewritten, Archived
  <2>3. Everything' = Everything
    BY <2>2 DEF Everything
  <2>4. \A c \in Everything : RecordOf(c)' = IF c = b THEN r ELSE RecordOf(c)
    BY <2>2 DEF RecordOf
  <2>5. RecordOf(b) = budget[b]
    BY DEF RecordOf
  <2>6. \A c \in Everything : /\ RecordOf(c)'.token = RecordOf(c).token
                              /\ RecordOf(c)'.balance = RecordOf(c).balance
    BY <2>2, <2>4, <2>5
  <2> QED
    BY <2>2, <2>3, <2>6, BackedKept
<1>5. ASSUME NEW gone \in SUBSET Live, Moved(gone) PROVE Backed'
  <2>1. \A b \in Everything : RecordOf(b)' = RecordOf(b)
    BY <1>5, MovedRecords
  <2>2. Everything' = Everything /\ wallet' = wallet
    BY <1>5 DEF Moved
  <2> QED
    BY <2>1, <2>2, BackedKept
<1>6. ASSUME Settings PROVE Backed'
  BY <1>1, <1>6, SettingsEffect
<1> QED
  BY <1>2, <1>3, <1>4, <1>5, <1>6, Steps, ContributeBacked, SpendBacked

\* In every token the contract holds at least what its budgets, archived ones
\* included, are recorded to hold, and every total is the sum of the recorded
\* contributions.
THEOREM MoneyIsBacked == ~EarlyCalls => (Spec => []MoneyBacked)
<1> SUFFICES ASSUME ~EarlyCalls PROVE Spec => []MoneyBacked
  OBVIOUS
<1>1. ASSUME Init PROVE Shape /\ HistoryAddsUp /\ Backed
  <2>1. Shape
    BY <1>1, ShapeInit
  <2>2. Everything = {}
    BY <1>1 DEF Init, Everything, Live, Archived
  <2>3. HistoryAddsUp
    BY <2>2 DEF HistoryAddsUp
  <2>4. ASSUME NEW t \in Tokens PROVE wallet[t][Contract] >= SumTo(Held(t), MaxBudgets)
    <3>1. PICK f : f = Held(t)
      OBVIOUS
    <3>2. \A b \in 1..MaxBudgets : f[b] = 0
      BY <2>2, <3>1 DEF Held
    <3>3. SumTo(f, MaxBudgets) = 0
      BY <3>2, SumOfZeros, BoundAssumption
    <3>4. wallet[t][Contract] \in Nat
      BY <2>1 DEF Shape, TypeOK, Accounts
    <3> QED
      BY <3>1, <3>3, <3>4
  <2> QED
    BY <2>1, <2>3, <2>4 DEF Backed
<1>2. Shape /\ HistoryAddsUp /\ Backed /\ [Next]_vars => (Shape /\ HistoryAddsUp /\ Backed)'
  BY ShapeNext, HistoryNext, BackedNext
<1>3. Shape /\ HistoryAddsUp /\ Backed => MoneyBacked
  BY DEF MoneyBacked
<1> QED
  BY <1>1, <1>2, <1>3, PTL DEF Spec

------------------------------------------------------------------------------
\* Inactive money is frozen, and the sweep waits for the retention period.

\* What an active-only entry point does to the other budgets.
LEMMA OthersKept ==
  ASSUME Shape, NEW b \in Live, NEW r, budget' = [budget EXCEPT ![b] = r],
         archive' = archive
  PROVE  /\ Everything' = Everything
         /\ \A c \in Everything : c # b => RecordOf(c)' = RecordOf(c)
         /\ RecordOf(b)' = r /\ RecordOf(b) = budget[b] /\ b \notin Archived
<1>1. /\ Live' = Live /\ budget'[b] = r /\ Archived' = Archived
      /\ \A c \in Live : c # b => budget'[c] = budget[c]
  BY RecordReplaced DEF Archived
<1>2. Everything' = Everything
  BY <1>1 DEF Everything
<1>3. \A c \in Everything : RecordOf(c)' = IF c = b THEN r ELSE RecordOf(c)
  BY <1>1 DEF RecordOf
<1>4. b \in Everything /\ RecordOf(b) = budget[b] /\ b \notin Archived
  BY DEF RecordOf, Everything, Shape, LiveOrArchived
<1> QED
  BY <1>2, <1>3, <1>4

\* Inactive, by where the record is.
Inert(b) == b \in Archived \/ ~budget[b].is_active

LEMMA InertIsInactive ==
  ASSUME Shape, NEW b \in Everything, Inert(b)
  PROVE  ~RecordOf(b).is_active
<1>1. CASE b \in Archived
  BY <1>1 DEF RecordOf, Shape, Stored, LiveOrArchived
<1>2. CASE b \notin Archived
  BY <1>2 DEF Inert, RecordOf, Everything
<1> QED
  BY <1>1, <1>2

Frozen(b) ==
  /\ b \in Everything'
  /\ RecordOf(b)'.balance = RecordOf(b).balance
  /\ RecordOf(b)'.total_contributed = RecordOf(b).total_contributed
  /\ ~RecordOf(b)'.is_active

LEMMA FrozenStep ==
  ASSUME ~EarlyCalls, Shape, HistoryAddsUp, [Next]_vars, NEW b \in Everything, Inert(b)
  PROVE  Frozen(b)
<1>1. ~RecordOf(b).is_active
  BY InertIsInactive
<1>2. ASSUME b \in Everything', RecordOf(b)' = RecordOf(b) PROVE Frozen(b)
  BY <1>1, <1>2 DEF Frozen
<1>3. ASSUME UNCHANGED <<budget, archive>> PROVE Frozen(b)
  BY <1>2, <1>3 DEF Everything, Live, Archived, RecordOf
<1>4. ASSUME NEW a \in Users, Initialize(a) PROVE Frozen(b)
  BY <1>3, <1>4 DEF Initialize
<1>5. ASSUME NEW u \in Users, NEW t \in Tokens, NEW ms \in Seq(Users), NEW rules \in Seq(Rule),
             CreateBudget(u, t, ms, rules)
      PROVE  Frozen(b)
  BY <1>2, <1>5, CreateBooks
<1>6. ASSUME NEW u \in Users, NEW c \in Live, NEW a \in Amounts, ContributeToBudget(u, c, a)
      PROVE  Frozen(b)
  <2>1. PICK n \in Nat, r \in Budget, entry \in Contribution : Contributed(u, c, a, n, r, entry)
    BY <1>6, ContributeEffect
  <2>2. budget' = [budget EXCEPT ![c] = r] /\ archive' = archive /\ budget[c].is_active
    BY <2>1 DEF Contributed
  <2>3. Everything' = Everything /\ c \notin Archived
        /\ \A d \in Everything : d # c => RecordOf(d)' = RecordOf(d)
    BY <2>2, OthersKept
  <2>4. b # c
    BY <2>2, <2>3 DEF Inert
  <2> QED
    BY <1>2, <2>3, <2>4
<1>7. ASSUME NEW u \in Users, NEW c \in Live, NEW to \in Accounts, NEW a \in Amounts,
             SpendFromBudget(u, c, to, a)
      PROVE  Frozen(b)
  <2>1. PICK r \in Budget : Rewritten(c, r) /\ budget[c].is_active
    BY <1>7, SpendEffect
  <2>2. budget' = [budget EXCEPT ![c] = r] /\ archive' = archive
    BY <2>1 DEF Rewritten
  <2>3. Everything' = Everything /\ c \notin Archived
        /\ \A d \in Everything : d # c => RecordOf(d)' = RecordOf(d)
    BY <2>2, OthersKept
  <2>4. b # c
    BY <2>1, <2>3 DEF Inert
  <2> QED
    BY <1>2, <2>3, <2>4
<1>8. ASSUME NEW u \in Users, NEW c \in Live,
             \/ \E o \in Users : TransferBudgetOwnership(u, c, o)
             \/ \E m \in Users : AddMemberToBudget(u, c, m)
             \/ \E rule \in Rules : AddSpendingRule(u, c, rule)
             \/ DeactivateBudget(u, c)
      PROVE  Frozen(b)
  <2>1. PICK r \in Budget : KeepsMoney(c, r) /\ (~budget[c].is_active => ~r.is_active)
    BY <1>8, TransferEffect, AddMemberEffect, AddRuleEffect, DeactivateEffect
  <2>2. /\ budget' = [budget EXCEPT ![c] = r] /\ archive' = archive
        /\ r.balance = budget[c].balance /\ r.total_contributed = budget[c].total_contributed
    BY <2>1 DEF KeepsMoney, Rewritten
  <2>3. /\ Everything' = Everything /\ RecordOf(c)' = r /\ RecordOf(c) = budget[c]
        /\ \A d \in Everything : d # c => RecordOf(d)' = RecordOf(d)
    BY <2>2, OthersKept
  <2>4. CASE b = c
    BY <1>1, <2>1, <2>2, <2>3, <2>4 DEF Frozen
  <2>5. CASE b # c
    BY <1>2, <2>3, <2>5
  <2> QED
    BY <2>4, <2>5
<1>9. ASSUME NEW gone \in SUBSET Live, Moved(gone) PROVE Frozen(b)
  <2>1. RecordOf(b)' = RecordOf(b) /\ Everything' = Everything
    BY <1>9, MovedRecords DEF Moved
  <2> QED
    BY <1>2, <2>1
<1>10. ASSUME Settings PROVE Frozen(b)
  BY <1>3, <1>10, SettingsEffect
<1> QED
  BY <1>4, <1>5, <1>6, <1>7, <1>8, <1>9, <1>10, Steps

\* Once a budget is deactivated its balance and its total never change again,
\* through the sweep and in the archive.
THEOREM InactiveIsFrozen == ~EarlyCalls => (Spec => FrozenWhenInactive)
<1> SUFFICES ASSUME ~EarlyCalls PROVE Spec => FrozenWhenInactive
  OBVIOUS
<1>1. ASSUME Init PROVE Shape /\ HistoryAddsUp
  <2>1. Everything = {}
    BY <1>1 DEF Init, Everything, Live, Archived
  <2> QED
    BY <1>1, <2>1, ShapeInit DEF HistoryAddsUp
<1>2. Shape /\ HistoryAddsUp /\ [Next]_vars => (Shape /\ HistoryAddsUp)'
  BY ShapeNext, HistoryNext
<1>3. Shape /\ HistoryAddsUp /\ [Next]_vars =>
        [\A b \in Everything : (b \in Archived \/ ~budget[b].is_active) =>
           /\ b \in DOMAIN budget' \cup DOMAIN archive'
           /\ RecordOf(b)'.balance = RecordOf(b).balance
           /\ RecordOf(b)'.total_contributed = RecordOf(b).total_contributed
           /\ ~RecordOf(b)'.is_active]_vars
  BY FrozenStep DEF Frozen, Inert, Everything, Live, Archived
<1> QED
  BY <1>1, <1>2, <1>3, PTL DEF Spec, FrozenWhenInactive

\* What a step does to the archive and to the deactivation times.
RetentionKept ==
  /\ \A b \in DOMAIN archive' :
       /\ b \in Archived => archive'[b] = archive[b]
       /\ b \notin Archived =>
            archive'[b].archived_at >= archive'[b].deactivated_at + ArchiveRetentionPeriod
  /\ \A b \in Live : ~budget[b].is_active =>
       IF b \in DOMAIN budget' THEN BudgetDeactivatedAt'[b] = BudgetDeactivatedAt[b]
       ELSE archive'[b].deactivated_at = BudgetDeactivatedAt[b]

LEMMA RetentionStep ==
  ASSUME ~EarlyCalls, Shape, [Next]_vars
  PROVE  RetentionKept
<1>1. ASSUME archive' = archive, Live \subseteq DOMAIN budget',
             \A b \in Live : ~budget[b].is_active
                               => BudgetDeactivatedAt'[b] = BudgetDeactivatedAt[b]
      PROVE  RetentionKept
  BY <1>1 DEF RetentionKept, Archived
<1>2. ASSUME NEW a \in Users, Initialize(a) PROVE RetentionKept
  BY <1>1, <1>2 DEF Initialize, Live
<1>3. ASSUME NEW u \in Users, NEW t \in Tokens, NEW ms \in Seq(Users), NEW rules \in Seq(Rule),
             CreateBudget(u, t, ms, rules)
      PROVE  RetentionKept
  <2>1. Live \subseteq DOMAIN budget' /\ UNCHANGED <<archive, BudgetDeactivatedAt>>
    BY <1>3 DEF CreateBudget
  <2> QED
    BY <1>1, <2>1
<1>4. ASSUME NEW u \in Users, NEW c \in Live, NEW a \in Amounts, ContributeToBudget(u, c, a)
      PROVE  RetentionKept
  BY <1>1, <1>4 DEF ContributeToBudget, Live
<1>5. ASSUME NEW u \in Users, NEW c \in Live, NEW to \in Accounts, NEW a \in Amounts,
             SpendFromBudget(u, c, to, a)
      PROVE  RetentionKept
  BY <1>1, <1>5 DEF SpendFromBudget, Live
<1>6. ASSUME NEW u \in Users, NEW c \in Live,
             \/ \E o \in Users : TransferBudgetOwnership(u, c, o)
             \/ \E m \in Users : AddMemberToBudget(u, c, m)
             \/ \E rule \in Rules : AddSpendingRule(u, c, rule)
             \/ DeactivateBudget(u, c)
      PROVE  RetentionKept
  <2>1. PICK r \in Budget :
          /\ KeepsMoney(c, r)
          /\ \A b \in Live : ~budget[b].is_active
                               => BudgetDeactivatedAt'[b] = BudgetDeactivatedAt[b]
    <3>1. CASE DeactivateBudget(u, c)
      <4>1. PICK r \in Budget :
           /\ KeepsMoney(c, r)
           /\ \A b \in Live : b # c \/ ~budget[c].is_active
                                => BudgetDeactivatedAt'[b] = BudgetDeactivatedAt[b]
        BY <3>1, DeactivateEffect
      <4> QED
        BY <4>1
    <3>2. CASE ~DeactivateBudget(u, c)
      BY <1>6, <3>2, TransferEffect, AddMemberEffect, AddRuleEffect
    <3> QED
      BY <3>1, <3>2
  <2>2. archive' = archive /\ DOMAIN budget' = Live
    BY <2>1 DEF KeepsMoney, Rewritten, Live
  <2> QED
    BY <1>1, <2>1, <2>2
<1>7. ASSUME NEW gone \in SUBSET Live, Moved(gone) PROVE RetentionKept
  <2>1. /\ Live' = Live \ gone /\ Archived' = Archived \cup gone
        /\ \A b \in gone : timestamp >= InactiveSince(b) + ArchiveRetentionPeriod
        /\ \A b \in Archived : archive'[b] = archive[b]
        /\ \A b \in Live' : BudgetDeactivatedAt'[b] = BudgetDeactivatedAt[b]
    BY <1>7 DEF Moved
  <2>2. ASSUME NEW b \in gone
        PROVE  archive'[b].archived_at = timestamp /\ archive'[b].deactivated_at = InactiveSince(b)
    <3>1. archive'[b] = [budget |-> budget[b], deactivated_at |-> InactiveSince(b),
                         archived_at |-> timestamp, contribution_ids |-> BudgetContributions[b]]
      BY <1>7 DEF Moved
    <3> QED
      BY <3>1
  <2>3. \A b \in gone : ~budget[b].is_active => InactiveSince(b) = BudgetDeactivatedAt[b]
    BY DEF InactiveSince, Shape, Stored
  <2> QED
    BY <2>1, <2>2, <2>3 DEF RetentionKept, Live, Archived
<1>8. ASSUME Settings PROVE RetentionKept
  BY <1>1, <1>8, SettingsEffect DEF Live
<1> QED
  BY <1>2, <1>3, <1>4, <1>5, <1>6, <1>7, <1>8, Steps

\* A budget reaches the archive only after the retention period since its first
\* deactivation, and its archive record is final.
THEOREM RetentionIsRespected == ~EarlyCalls => (Spec => ArchiveRespectsRetention)
<1> SUFFICES ASSUME ~EarlyCalls PROVE Spec => ArchiveRespectsRetention
  OBVIOUS
<1>1. Init => Shape
  BY ShapeInit
<1>2. Shape /\ [Next]_vars => Shape'
  BY ShapeNext
<1>3. Shape /\ [Next]_vars => [RetentionKept]_vars
  BY RetentionStep
<1>4. [RetentionKept]_vars =>
        [/\ \A b \in DOMAIN archive' :
              /\ b \in Archived => archive'[b] = archive[b]
              /\ b \notin Archived =>
                   archive'[b].archived_at >= archive'[b].deactivated_at + ArchiveRetentionPeriod
         /\ \A b \in Live : ~budget[b].is_active =>
              IF b \in DOMAIN budget' THEN BudgetDeactivatedAt'[b] = BudgetDeactivatedAt[b]
              ELSE archive'[b].deactivated_at = BudgetDeactivatedAt[b]]_vars
  BY DEF RetentionKept
<1> QED
  BY <1>1, <1>2, <1>3, <1>4, PTL DEF Spec, ArchiveRespectsRetention
===============================================================================
