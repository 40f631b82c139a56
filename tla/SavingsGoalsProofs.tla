-------------------------- MODULE SavingsGoalsProofs --------------------------
(***************************************************************************)
(* Proofs about SavingsGoals.tla for any users, requests, amounts and      *)
(* bounds: type correctness, that an idempotency token is spent once, that *)
(* flags, milestones and certificates agree with the balance, that         *)
(* prerequisites never form a cycle, that contributing and reversing move  *)
(* exactly the recorded amounts, that the register lists every goal of a   *)
(* user once, and that alerts were due.                                    *)
(***************************************************************************)
EXTENDS SavingsGoals, SumTheorems, FiniteSetTheorems

\* The type invariant with the maps as functions.  There are no goals before
\* there is an administrator, so the counters initialize resets are 0 already.
Shape ==
  /\ TypeOK
  /\ admin = None => LastGoalId = 0 /\ TotalGoalsCreated = 0
  /\ contributions \in [AllIds -> Seq(ContributionRecord)]
  /\ usedTokens \in [AllIds -> SUBSET IdempotencyTokens]
  /\ triggered \in [AllIds -> SUBSET MILESTONES]
  /\ GoalClosedAt \in [AllIds -> Nat \cup {None}]
  /\ Certificate \in [AllIds -> Nat \cup {None}]
  /\ GoalPrereqs \in [AllIds -> SUBSET Ids]

------------------------------------------------------------------------------
\* Progress.

LEMMA PercentType ==
  ASSUME NEW c \in Int, NEW t \in Nat \ {0}
  PROVE  Percent(c, t) \in Nat
<1>1. PICK n \in Int : n = IF c >= 0 THEN (c * 100) \div t ELSE -(((-c) * 100) \div t)
  OBVIOUS
<1>2. Percent(c, t) = n % U32
  BY <1>1 DEF Percent, AsU32
<1>3. n % U32 \in Nat
  BY BoundAssumption
<1> QED
  BY <1>2, <1>3

\* Whoever has reached 100% has reached everything.
LEMMA FullIsAll ==
  ASSUME NEW c \in Int, NEW t \in Nat \ {0}, 100 \in ReachedBy(c, t)
  PROVE  ReachedBy(c, t) = MILESTONES
<1>1. PICK p \in Nat : p = Percent(c, t)
  BY PercentType
<1>2. p >= 100
  BY <1>1 DEF ReachedBy
<1> QED
  BY <1>1, <1>2 DEF ReachedBy, MILESTONES

\* The milestones a record has reached and its goal has not announced yet.
News(g, r) == ReachedBy(r.current_amount, r.target_amount) \ triggered[g]

\* The record after the check: balance and terms stay, completion is recomputed,
\* and reaching 100% for the first time closes the goal.
Checked(g, r) == [r EXCEPT !.is_complete = Filled(r),
                           !.is_active = r.is_active /\ 100 \notin News(g, r)]

LEMMA CheckedFacts ==
  ASSUME NEW g, NEW r \in GoalRecord
  PROVE  /\ Checked(g, r) \in GoalRecord
         /\ Checked(g, r).current_amount = r.current_amount
         /\ Checked(g, r).target_amount = r.target_amount
         /\ Checked(g, r).user = r.user /\ Checked(g, r).deadline = r.deadline
         /\ Checked(g, r).is_complete = Filled(r)
         /\ Checked(g, r).is_active = (r.is_active /\ 100 \notin News(g, r))
<1>1. Filled(r) \in BOOLEAN
  BY DEF Filled, GoalRecord
<1> HIDE DEF Filled, News
<1> QED
  BY <1>1 DEF Checked, GoalRecord

\* What the check on the goals of S makes of the records G.
Announced(G, S) ==
  /\ goal' = [g \in DOMAIN G |-> IF g \in S THEN Checked(g, G[g]) ELSE G[g]]
  /\ triggered' = [g \in AllIds |-> IF g \in S THEN triggered[g] \cup News(g, G[g])
                                               ELSE triggered[g]]
  /\ GoalClosedAt' = [g \in AllIds |->
       IF g \in S /\ 100 \in News(g, G[g]) /\ G[g].is_active THEN sequence
       ELSE GoalClosedAt[g]]
  /\ Certificate' = [g \in AllIds |->
       IF g \in S /\ 100 \in News(g, G[g]) /\ Certificate[g] = None THEN timestamp
       ELSE Certificate[g]]

LEMMA CheckEffect ==
  ASSUME NEW n \in Nat, NEW G \in [1..n -> GoalRecord], NEW S \in SUBSET (1..n),
         CheckMilestones(G, S)
  PROVE  Announced(G, S)
<1> DEFINE Fresh(g) == ReachedBy(G[g].current_amount, G[g].target_amount) \ triggered[g]
<1> DEFINE Full(g) == g \in S /\ 100 \in Fresh(g)
<1>1. \A g : Fresh(g) = News(g, G[g])
  BY DEF News
<1>2. /\ goal' = [g \in DOMAIN G |->
           IF g \in S THEN [G[g] EXCEPT !.is_complete = Filled(G[g]),
                                        !.is_active = @ /\ ~Full(g)] ELSE G[g]]
      /\ triggered' = [g \in AllIds |-> IF g \in S THEN triggered[g] \cup Fresh(g)
                                                   ELSE triggered[g]]
      /\ GoalClosedAt' = [g \in AllIds |-> IF Full(g) /\ G[g].is_active THEN sequence
                                                          ELSE GoalClosedAt[g]]
      /\ Certificate' = [g \in AllIds |-> IF Full(g) /\ Certificate[g] = None THEN timestamp
                                                          ELSE Certificate[g]]
  BY DEF CheckMilestones
<1> HIDE DEF Fresh
<1>3. \A g \in S : [G[g] EXCEPT !.is_complete = Filled(G[g]), !.is_active = @ /\ ~Full(g)]
                     = Checked(g, G[g])
  <2> SUFFICES ASSUME NEW g \in S
               PROVE  [G[g] EXCEPT !.is_complete = Filled(G[g]), !.is_active = @ /\ ~Full(g)]
                        = Checked(g, G[g])
    OBVIOUS
  <2>1. G[g] \in GoalRecord /\ g \in 1..n
    OBVIOUS
  <2>2. (G[g].is_active /\ ~Full(g)) = (G[g].is_active /\ 100 \notin News(g, G[g]))
    BY <1>1
  <2>3. [G[g] EXCEPT !.is_complete = Filled(G[g]), !.is_active = @ /\ ~Full(g)]
          = [G[g] EXCEPT !.is_complete = Filled(G[g]), !.is_active = G[g].is_active /\ ~Full(g)]
    BY <2>1 DEF GoalRecord
  <2> QED
    BY <2>2, <2>3 DEF Checked
<1>4. goal' = [g \in DOMAIN G |-> IF g \in S THEN Checked(g, G[g]) ELSE G[g]]
  BY <1>2, <1>3
<1> QED
  BY <1>1, <1>2, <1>4 DEF Announced

LEMMA GoalFacts ==
  ASSUME Shape
  PROVE  /\ LastGoalId \in Nat /\ MaxGoals \in Nat /\ LastGoalId <= MaxGoals
         /\ Ids = 1..LastGoalId /\ Ids \subseteq AllIds
         /\ \A g \in Ids : goal[g] \in GoalRecord
         /\ timestamp \in Nat /\ sequence \in Nat
         /\ None \notin Nat /\ None \notin Users
<1>1. /\ LastGoalId \in 0..MaxGoals /\ goal \in [1..LastGoalId -> GoalRecord]
      /\ timestamp \in Nat /\ sequence \in Nat
  BY DEF Shape, TypeOK
<1>2. MaxGoals \in Nat /\ None \notin Nat /\ None \notin Users
  BY BoundAssumption
<1> QED
  BY <1>1, <1>2 DEF Ids, AllIds

\* The check keeps every map in its type.
LEMMA CheckShape ==
  ASSUME Shape, NEW n \in Nat, NEW G \in [1..n -> GoalRecord], NEW S \in SUBSET (1..n),
         CheckMilestones(G, S)
  PROVE  /\ goal' \in [1..n -> GoalRecord]
         /\ triggered' \in [AllIds -> SUBSET MILESTONES]
         /\ GoalClosedAt' \in [AllIds -> Nat \cup {None}]
         /\ Certificate' \in [AllIds -> Nat \cup {None}]
<1>1. Announced(G, S)
  BY CheckEffect
<1>2. \A g \in 1..n : Checked(g, G[g]) \in GoalRecord
  BY CheckedFacts
<1>3. \A g, r : News(g, r) \subseteq MILESTONES
  BY DEF News, ReachedBy
<1>4. timestamp \in Nat /\ sequence \in Nat
  BY GoalFacts
<1>5. goal' \in [1..n -> GoalRecord]
  BY <1>1, <1>2 DEF Announced
<1>6. triggered' \in [AllIds -> SUBSET MILESTONES]
  BY <1>1, <1>3 DEF Shape, Announced
<1>7. GoalClosedAt' \in [AllIds -> Nat \cup {None}]
  BY <1>1, <1>4 DEF Shape, Announced
<1>8. Certificate' \in [AllIds -> Nat \cup {None}]
  BY <1>1, <1>4 DEF Shape, Announced
<1> QED
  BY <1>5, <1>6, <1>7, <1>8

\* A step that creates no goal keeps the shape if it keeps the types.
LEMMA SameGoalsShape ==
  ASSUME Shape, UNCHANGED <<GoalByName, LastGoalId, TotalGoalsCreated>>,
         goal' \in [Ids -> GoalRecord], batches' \in Nat,
         admin' = admin \/ admin' \in Users,
         contributions' \in [AllIds -> Seq(ContributionRecord)],
         usedTokens' \in [AllIds -> SUBSET IdempotencyTokens],
         triggered' \in [AllIds -> SUBSET MILESTONES],
         GoalClosedAt' \in [AllIds -> Nat \cup {None}],
         Certificate' \in [AllIds -> Nat \cup {None}],
         GoalPrereqs' \in [AllIds -> SUBSET Ids],
         timestamp' \in Nat, sequence' \in Nat
  PROVE  Shape'
<1>1. Ids' = Ids /\ Ids = 1..LastGoalId
  BY GoalFacts DEF Ids
<1>2. ASSUME admin' = None PROVE LastGoalId' = 0 /\ TotalGoalsCreated' = 0
  <2>1. admin = None
    BY <1>2, BoundAssumption
  <2>2. LastGoalId = 0 /\ TotalGoalsCreated = 0
    BY <2>1 DEF Shape
  <2> QED
    BY <2>2
<1>3. /\ admin' \in Users \cup {None}
      /\ LastGoalId' \in 0..MaxGoals /\ TotalGoalsCreated' \in Nat
      /\ goal' \in [1..LastGoalId' -> GoalRecord]
      /\ DOMAIN GoalByName' \subseteq Users \X Names
      /\ \A k \in DOMAIN GoalByName' : GoalByName'[k] \in Ids'
  BY <1>1 DEF Shape, TypeOK
<1>4. TypeOK'
  BY <1>1, <1>3 DEF TypeOK
<1> QED
  BY <1>1, <1>2, <1>4 DEF Shape

\* The calls that touch no goal, no contribution and no prerequisite.
Quiet ==
  /\ UNCHANGED <<goal, GoalByName, UserGoals, LastGoalId, TotalGoalsCreated, contributions,
                 usedTokens, triggered, GoalClosedAt, Certificate, GoalPrereqs>>
  /\ batches' \in Nat /\ (admin' = admin \/ admin' \in Users)
  /\ timestamp' \in Nat /\ sequence' \in Nat

LEMMA QuietSteps ==
  ASSUME Shape,
         \/ \E a \in Users : Initialize(a)
         \/ \E c, a \in Users : SetAdmin(c, a)
         \/ \E c \in Users, ts \in ThresholdLists : SetDefaultAlertThresholds(c, ts)
         \/ \E c \in Users, g \in Ids, ts \in ThresholdLists : SetGoalAlertThresholds(c, g, ts)
         \/ \E g \in Ids : ProcessGoalAlerts(g)
         \/ \E c \in Users, g \in Ids : RecordGoalSnapshot(c, g)
         \/ CloseLedger
         \/ UNCHANGED vars
  PROVE  Quiet
<1>1. timestamp \in Nat /\ sequence \in Nat /\ batches \in Nat
  BY DEF Shape, TypeOK
<1>2. CASE \E a \in Users : Initialize(a)
  BY <1>1, <1>2 DEF Initialize, Shape, deposits, progress, clock, Quiet
<1>3. CASE \E c, a \in Users : SetAdmin(c, a)
  BY <1>1, <1>3 DEF SetAdmin, register, deposits, progress, clock, Quiet
<1>4. CASE \E c \in Users, ts \in ThresholdLists : SetDefaultAlertThresholds(c, ts)
  BY <1>1, <1>4 DEF SetDefaultAlertThresholds, register, deposits, progress, clock, Quiet
<1>5. CASE \E c \in Users, g \in Ids, ts \in ThresholdLists : SetGoalAlertThresholds(c, g, ts)
  BY <1>1, <1>5 DEF SetGoalAlertThresholds, register, deposits, progress, clock, Quiet
<1>6. CASE \E g \in Ids : ProcessGoalAlerts(g)
  BY <1>1, <1>6 DEF ProcessGoalAlerts, register, deposits, progress, clock, Quiet
<1>7. CASE \E c \in Users, g \in Ids : RecordGoalSnapshot(c, g)
  BY <1>1, <1>7 DEF RecordGoalSnapshot, register, deposits, progress, clock, Quiet
<1>8. CASE CloseLedger
  BY <1>1, <1>8, BoundAssumption
     DEF CloseLedger, register, deposits, progress, Quiet
<1>9. CASE UNCHANGED vars
  BY <1>1, <1>9 DEF vars, register, deposits, progress, clock, Quiet
<1> QED
  BY <1>2, <1>3, <1>4, <1>5, <1>6, <1>7, <1>8, <1>9

LEMMA QuietShape == ASSUME Shape, Quiet PROVE Shape'
<1>1. goal \in [Ids -> GoalRecord]
  BY GoalFacts DEF Shape, TypeOK
<1>2. /\ UNCHANGED <<goal, GoalByName, LastGoalId, TotalGoalsCreated, contributions, usedTokens,
                     triggered, GoalClosedAt, Certificate, GoalPrereqs>>
      /\ batches' \in Nat /\ (admin' = admin \/ admin' \in Users)
      /\ timestamp' \in Nat /\ sequence' \in Nat
  BY DEF Quiet
<1>3. /\ contributions' \in [AllIds -> Seq(ContributionRecord)]
      /\ usedTokens' \in [AllIds -> SUBSET IdempotencyTokens]
      /\ triggered' \in [AllIds -> SUBSET MILESTONES]
      /\ GoalClosedAt' \in [AllIds -> Nat \cup {None}]
      /\ Certificate' \in [AllIds -> Nat \cup {None}]
      /\ GoalPrereqs' \in [AllIds -> SUBSET Ids]
  BY <1>2 DEF Shape
<1> QED
  BY <1>1, <1>2, <1>3, SameGoalsShape

------------------------------------------------------------------------------
\* What the calls that move money change.

LEMMA WithBalanceFacts ==
  ASSUME NEW r \in GoalRecord, NEW a \in Int
  PROVE  /\ WithBalance(r, a) \in GoalRecord
         /\ WithBalance(r, a).current_amount = a
         /\ WithBalance(r, a).target_amount = r.target_amount
         /\ WithBalance(r, a).user = r.user /\ WithBalance(r, a).deadline = r.deadline
         /\ WithBalance(r, a).is_active = r.is_active
         /\ WithBalance(r, a).is_complete = Filled(WithBalance(r, a))
<1>1. (a >= r.target_amount) \in BOOLEAN
  BY DEF GoalRecord
<1>2. /\ WithBalance(r, a) \in GoalRecord
      /\ WithBalance(r, a).current_amount = a
      /\ WithBalance(r, a).target_amount = r.target_amount
      /\ WithBalance(r, a).user = r.user /\ WithBalance(r, a).deadline = r.deadline
      /\ WithBalance(r, a).is_active = r.is_active
  BY <1>1 DEF WithBalance, GoalRecord
<1>3. WithBalance(r, a).is_complete = (a >= r.target_amount)
  BY DEF WithBalance, GoalRecord
<1>4. Filled(WithBalance(r, a)) = (a >= r.target_amount)
  BY <1>2 DEF Filled
<1> QED
  BY <1>2, <1>3, <1>4

\* The calls that move money leave alone who there is and who waits for whom.
Elsewhere == UNCHANGED <<admin, GoalByName, UserGoals, LastGoalId, TotalGoalsCreated, batches,
                         GoalPrereqs, timestamp, sequence>>

\* The new record r of goal g differs in its balance only.
Rebalanced(g, r) ==
  /\ r \in GoalRecord /\ r.user = goal[g].user /\ r.deadline = goal[g].deadline
  /\ r.target_amount = goal[g].target_amount
  /\ r.is_complete = Filled(r)

\* A contribution of k: r is the record before the milestone check, entry the
\* new contribution.
Contributed(g, k, r, entry) ==
  /\ Rebalanced(g, r) /\ r.is_active /\ goal[g].is_active
  /\ CheckMilestones([goal EXCEPT ![g] = r], {g})
  /\ entry \in ContributionRecord
  /\ entry.amount = r.current_amount - goal[g].current_amount
  /\ entry.amount < 0 => goal[g].current_amount > goal[g].target_amount
  /\ entry.token = k /\ ~entry.reversed
  /\ k \notin usedTokens[g]
  /\ contributions' = [contributions EXCEPT ![g] = Append(contributions[g], entry)]
  /\ usedTokens' = [usedTokens EXCEPT ![g] = usedTokens[g] \cup {k}]
  /\ Elsewhere

LEMMA ContributeEffect ==
  ASSUME Shape, NEW u \in Users, NEW g \in Ids, NEW amount \in Amounts,
         NEW k \in IdempotencyTokens, ContributeToGoal(u, g, amount, k)
  PROVE  \E r, entry : Contributed(g, k, r, entry)
<1>1. PICK capped : capped = IF goal[g].current_amount + amount > goal[g].target_amount
                             THEN goal[g].target_amount ELSE goal[g].current_amount + amount
  OBVIOUS
<1>2. PICK r : r = WithBalance(goal[g], capped)
  OBVIOUS
<1>3. PICK entry : entry = [amount |-> capped - goal[g].current_amount,
                            contributed_at |-> timestamp, token |-> k, reversed |-> FALSE]
  OBVIOUS
<1>4. goal[g] \in GoalRecord /\ timestamp \in Nat /\ amount \in Int /\ amount > 0
  BY GoalFacts, InputAssumption DEF ContributeToGoal
<1>5. goal[g].current_amount \in Int /\ goal[g].target_amount \in Nat
  BY <1>4 DEF GoalRecord
<1>6. capped \in Int /\ (capped < goal[g].current_amount
                           => goal[g].current_amount > goal[g].target_amount)
  BY <1>1, <1>4, <1>5
<1>7. /\ r \in GoalRecord /\ r.current_amount = capped
      /\ r.target_amount = goal[g].target_amount
      /\ r.user = goal[g].user /\ r.deadline = goal[g].deadline
      /\ r.is_active = goal[g].is_active /\ r.is_complete = Filled(r)
  BY <1>2, <1>4, <1>6, WithBalanceFacts
<1>8. k # EmptyToken /\ k \notin usedTokens[g] /\ goal[g].is_active
  BY DEF ContributeToGoal, FreshToken
<1>9. entry \in ContributionRecord
  BY <1>3, <1>4, <1>5, <1>6, <1>8 DEF ContributionRecord
<1>10. entry.amount = r.current_amount - goal[g].current_amount /\ entry.token = k
       /\ ~entry.reversed
  BY <1>3, <1>7
<1>11. contributions' = [contributions EXCEPT ![g] = Append(contributions[g], entry)]
  BY <1>1, <1>3 DEF ContributeToGoal
<1>12. usedTokens' = [usedTokens EXCEPT ![g] = usedTokens[g] \cup {k}]
  BY DEF ContributeToGoal
<1>13. CheckMilestones([goal EXCEPT ![g] = r], {g})
  BY <1>1, <1>2 DEF ContributeToGoal, Update
<1>14. Elsewhere
  BY DEF ContributeToGoal, Elsewhere, register, clock
<1>15. entry.amount < 0 => goal[g].current_amount > goal[g].target_amount
  BY <1>5, <1>6, <1>7, <1>10
<1>16. Contributed(g, k, r, entry)
  BY <1>7, <1>8, <1>9, <1>10, <1>11, <1>12, <1>13, <1>14, <1>15 DEF Contributed, Rebalanced
<1> QED
  BY <1>16

\* A reversal of contribution c.
Reversed(g, c, r, entry) ==
  /\ c \in 1..Len(contributions[g]) /\ ~contributions[g][c].reversed
  /\ Rebalanced(g, r) /\ r.is_active = goal[g].is_active
  /\ r.current_amount = goal[g].current_amount - contributions[g][c].amount
  /\ goal' = [goal EXCEPT ![g] = r]
  /\ entry \in ContributionRecord /\ entry.reversed
  /\ entry.amount = contributions[g][c].amount /\ entry.token = contributions[g][c].token
  /\ contributions' = [contributions EXCEPT ![g] = [contributions[g] EXCEPT ![c] = entry]]
  /\ UNCHANGED <<usedTokens, triggered, GoalClosedAt, Certificate>>
  /\ Elsewhere

LEMMA SeqFacts ==
  ASSUME NEW S, NEW s \in Seq(S)
  PROVE  Len(s) \in Nat /\ DOMAIN s = 1..Len(s) /\ \A i \in 1..Len(s) : s[i] \in S
OBVIOUS

LEMMA ReverseEffect ==
  ASSUME Shape, NEW u \in Users, NEW g \in Ids, NEW c, ReverseContribution(u, g, c)
  PROVE  \E r, entry : Reversed(g, c, r, entry)
<1>1. PICK old : old = contributions[g][c]
  OBVIOUS
<1>2. PICK entry : entry = [old EXCEPT !.reversed = TRUE]
  OBVIOUS
<1>3. PICK r : r = WithBalance(goal[g], goal[g].current_amount - old.amount)
  OBVIOUS
<1>4. goal[g] \in GoalRecord /\ g \in AllIds /\ contributions[g] \in Seq(ContributionRecord)
      /\ contributions \in [AllIds -> Seq(ContributionRecord)]
  BY GoalFacts DEF Shape
<1>5. c \in DOMAIN contributions[g] /\ ~old.reversed
  BY <1>1 DEF ReverseContribution, Reversible
<1>6. old \in ContributionRecord /\ c \in 1..Len(contributions[g])
  BY <1>1, <1>4, <1>5, SeqFacts
<1>7. /\ entry \in ContributionRecord /\ entry.reversed
      /\ entry.amount = old.amount /\ entry.token = old.token
  BY <1>2, <1>6 DEF ContributionRecord
<1>8. goal[g].current_amount - old.amount \in Int
  <2>1. goal[g].current_amount \in Int
    BY <1>4 DEF GoalRecord
  <2>2. old.amount \in Int
    BY <1>6 DEF ContributionRecord
  <2> QED
    BY <2>1, <2>2
<1>9. /\ r \in GoalRecord /\ r.current_amount = goal[g].current_amount - old.amount
      /\ r.target_amount = goal[g].target_amount
      /\ r.user = goal[g].user /\ r.deadline = goal[g].deadline
      /\ r.is_active = goal[g].is_active /\ r.is_complete = Filled(r)
  BY <1>3, <1>4, <1>8, WithBalanceFacts
<1>10. contributions' = [contributions EXCEPT ![g] = [contributions[g] EXCEPT ![c] = entry]]
  BY <1>1, <1>2, <1>4, <1>5 DEF ReverseContribution
<1>11. goal' = [goal EXCEPT ![g] = r]
  BY <1>1, <1>3 DEF ReverseContribution, Update
<1>12. Elsewhere /\ UNCHANGED <<usedTokens, triggered, GoalClosedAt, Certificate>>
  BY DEF ReverseContribution, Elsewhere, register, clock, progress
<1>13. Reversed(g, c, r, entry)
  BY <1>1, <1>5, <1>6, <1>7, <1>9, <1>10, <1>11, <1>12 DEF Reversed, Rebalanced
<1> QED
  BY <1>13

LEMMA GrossCosts ==
  ASSUME NEW r \in GoalRecord, NEW amount \in Int, amount > 0
  PROVE  Gross(r, amount) \in Nat /\ Gross(r, amount) > 0
<1>1. r.penalty_bps \in Nat /\ r.is_complete \in BOOLEAN
  BY DEF GoalRecord
<1>2. PICK p \in Nat : p = amount * r.penalty_bps
  BY <1>1
<1>3. p \div 10000 \in Nat
  BY <1>2
<1>4. Gross(r, amount) = amount \/ Gross(r, amount) = amount + (p \div 10000)
  BY <1>1, <1>2 DEF Gross
<1> QED
  BY <1>3, <1>4

\* Both withdrawals lower the balance by a positive amount it covers.
Lowered(g, r) ==
  /\ Rebalanced(g, r) /\ IsOpen(goal[g])
  /\ r.current_amount >= 0 /\ r.current_amount < goal[g].current_amount
  /\ UNCHANGED <<contributions, usedTokens>>
  /\ Elsewhere

\* The record the balance is taken from.
Debited(g, amount) == WithBalance(goal[g], goal[g].current_amount - Gross(goal[g], amount))

LEMMA MayWithdrawFacts ==
  ASSUME Shape, NEW u \in Users, NEW g \in Ids, NEW amount \in Amounts,
         MayWithdraw(u, goal[g], amount)
  PROVE  /\ Rebalanced(g, Debited(g, amount)) /\ IsOpen(goal[g])
         /\ Debited(g, amount).is_active = goal[g].is_active
         /\ Debited(g, amount).current_amount >= 0
         /\ Debited(g, amount).current_amount < goal[g].current_amount
<1>1. goal[g] \in GoalRecord /\ amount \in Int
  BY GoalFacts, InputAssumption
<1>2. amount > 0
  BY DEF MayWithdraw
<1>3. PICK x \in Nat : x = Gross(goal[g], amount) /\ x > 0
  BY <1>1, <1>2, GrossCosts
<1>4. x <= goal[g].current_amount /\ IsOpen(goal[g])
  BY <1>3 DEF MayWithdraw
<1>5. PICK b \in Int : b = goal[g].current_amount
  BY <1>1 DEF GoalRecord
<1>6. PICK r : r = WithBalance(goal[g], b - x)
  OBVIOUS
<1>7. r = Debited(g, amount)
  BY <1>3, <1>5, <1>6 DEF Debited
<1>8. /\ r \in GoalRecord /\ r.current_amount = b - x
      /\ r.target_amount = goal[g].target_amount
      /\ r.user = goal[g].user /\ r.deadline = goal[g].deadline
      /\ r.is_active = goal[g].is_active /\ r.is_complete = Filled(r)
  BY <1>1, <1>6, WithBalanceFacts
<1>9. b - x >= 0 /\ b - x < b
  BY <1>3, <1>4, <1>5
<1> QED
  BY <1>4, <1>5, <1>7, <1>8, <1>9 DEF Rebalanced

LEMMA WithdrawEffect ==
  ASSUME Shape, NEW u \in Users, NEW g \in Ids, NEW amount \in Amounts,
         WithdrawFromGoal(u, g, amount)
  PROVE  \E r \in GoalRecord :
           /\ Lowered(g, r) /\ r.is_active = goal[g].is_active
           /\ goal' = [goal EXCEPT ![g] = r]
           /\ UNCHANGED <<triggered, GoalClosedAt, Certificate>>
<1>1. PICK r : r = Debited(g, amount)
  OBVIOUS
<1>2. /\ Rebalanced(g, r) /\ IsOpen(goal[g]) /\ r.is_active = goal[g].is_active
      /\ r.current_amount >= 0 /\ r.current_amount < goal[g].current_amount
  BY <1>1, MayWithdrawFacts DEF WithdrawFromGoal
<1>3. goal' = [goal EXCEPT ![g] = r]
  BY <1>1 DEF WithdrawFromGoal, Update, Debited
<1>4. Elsewhere /\ UNCHANGED <<contributions, usedTokens, triggered, GoalClosedAt, Certificate>>
  BY DEF WithdrawFromGoal, Elsewhere, register, clock, progress, deposits
<1> QED
  BY <1>2, <1>3, <1>4 DEF Lowered, Rebalanced

LEMMA PartialWithdrawEffect ==
  ASSUME Shape, NEW u \in Users, NEW g \in Ids, NEW amount \in Amounts,
         PartialWithdraw(u, g, amount)
  PROVE  \E r \in GoalRecord : Lowered(g, r) /\ CheckMilestones([goal EXCEPT ![g] = r], {g})
<1>1. PICK left : left = Debited(g, amount)
  OBVIOUS
<1>2. PICK r : r = [left EXCEPT !.is_active =
                      left.is_active \/ (goal[g].is_complete /\ ~left.is_complete)]
  OBVIOUS
<1>3. /\ Rebalanced(g, left) /\ IsOpen(goal[g])
      /\ left.current_amount >= 0 /\ left.current_amount < goal[g].current_amount
  BY <1>1, MayWithdrawFacts DEF PartialWithdraw
<1>4. left \in GoalRecord
  BY <1>3 DEF Rebalanced
<1>5. CheckMilestones([goal EXCEPT ![g] = r], {g})
  <2>1. [left EXCEPT !.is_active = @ \/ (goal[g].is_complete /\ ~left.is_complete)] = r
    BY <1>2, <1>4 DEF GoalRecord
  <2> QED
    BY <1>1, <2>1 DEF PartialWithdraw, Update, Debited
<1>6. /\ r \in GoalRecord /\ r.current_amount = left.current_amount
      /\ r.target_amount = left.target_amount /\ r.user = left.user /\ r.deadline = left.deadline
      /\ r.is_complete = left.is_complete
  <2>1. (left.is_active \/ (goal[g].is_complete /\ ~left.is_complete)) \in BOOLEAN
    BY <1>4, GoalFacts DEF GoalRecord
  <2> QED
    BY <1>2, <1>4, <2>1 DEF GoalRecord
<1>7. Rebalanced(g, r)
  BY <1>3, <1>6 DEF Rebalanced, Filled
<1>8. Elsewhere /\ UNCHANGED <<contributions, usedTokens>>
  BY DEF PartialWithdraw, Elsewhere, register, clock, deposits
<1> QED
  BY <1>3, <1>5, <1>6, <1>7, <1>8 DEF Lowered

\* A merge empties and closes the source and checks the target.
Merged(s, t, rs, rt) ==
  /\ s # t /\ goal[s].is_active /\ goal[t].is_active
  /\ rs \in GoalRecord /\ rs.current_amount = 0 /\ ~rs.is_active
  /\ rs.is_complete = goal[s].is_complete /\ rs.target_amount = goal[s].target_amount
  /\ rs.user = goal[s].user /\ rs.deadline = goal[s].deadline
  /\ Rebalanced(t, rt) /\ rt.is_active
  /\ rt.current_amount = goal[t].current_amount + goal[s].current_amount
  /\ CheckMilestones([[goal EXCEPT ![s] = rs] EXCEPT ![t] = rt], {t})
  /\ UNCHANGED <<contributions, usedTokens>>
  /\ Elsewhere

LEMMA MergeEffect ==
  ASSUME Shape, NEW u \in Users, NEW s \in Ids, NEW t \in Ids, MergeGoals(u, s, t)
  PROVE  \E rs, rt \in GoalRecord : Merged(s, t, rs, rt)
<1>1. PICK rs : rs = [goal[s] EXCEPT !.current_amount = 0, !.is_active = FALSE]
  OBVIOUS
<1>2. PICK rt : rt = WithBalance(goal[t], goal[t].current_amount + goal[s].current_amount)
  OBVIOUS
<1>3. goal[s] \in GoalRecord /\ goal[t] \in GoalRecord
  BY GoalFacts
<1>4. /\ rs \in GoalRecord /\ rs.current_amount = 0 /\ ~rs.is_active
      /\ rs.is_complete = goal[s].is_complete /\ rs.target_amount = goal[s].target_amount
      /\ rs.user = goal[s].user /\ rs.deadline = goal[s].deadline
  <2>1. PICK x \in GoalRecord : x = goal[s]
    BY <1>3
  <2>2. PICK y : y = [x EXCEPT !.current_amount = 0]
    OBVIOUS
  <2>3. /\ y \in GoalRecord /\ y.current_amount = 0 /\ y.is_complete = x.is_complete
        /\ y.target_amount = x.target_amount /\ y.user = x.user /\ y.deadline = x.deadline
    BY <2>2 DEF GoalRecord
  <2>4. rs = [y EXCEPT !.is_active = FALSE]
    BY <1>1, <2>1, <2>2
  <2>5. /\ rs \in GoalRecord /\ ~rs.is_active /\ rs.current_amount = y.current_amount
        /\ rs.is_complete = y.is_complete /\ rs.target_amount = y.target_amount
        /\ rs.user = y.user /\ rs.deadline = y.deadline
    BY <2>3, <2>4 DEF GoalRecord
  <2> QED
    BY <2>1, <2>3, <2>5
<1>5. goal[t].current_amount + goal[s].current_amount \in Int
  BY <1>3 DEF GoalRecord
<1>6. /\ rt \in GoalRecord
      /\ rt.current_amount = goal[t].current_amount + goal[s].current_amount
      /\ rt.target_amount = goal[t].target_amount
      /\ rt.user = goal[t].user /\ rt.deadline = goal[t].deadline
      /\ rt.is_active = goal[t].is_active /\ rt.is_complete = Filled(rt)
  BY <1>2, <1>3, <1>5, WithBalanceFacts
<1>7. s # t /\ goal[s].is_active /\ goal[t].is_active
  BY DEF MergeGoals
<1>8. CheckMilestones([[goal EXCEPT ![s] = rs] EXCEPT ![t] = rt], {t})
  <2>1. CheckMilestones([goal EXCEPT ![s] = rs, ![t] = rt], {t})
    BY <1>1, <1>2 DEF MergeGoals
  <2> QED
    BY <2>1
<1>9. Elsewhere /\ UNCHANGED <<contributions, usedTokens>>
  BY DEF MergeGoals, Elsewhere, register, clock, deposits
<1>10. Merged(s, t, rs, rt)
  BY <1>4, <1>6, <1>7, <1>8, <1>9 DEF Merged, Rebalanced
<1> QED
  BY <1>4, <1>6, <1>10

------------------------------------------------------------------------------
\* Creation.

\* The elements of a finite set of positions are numbered 1, 2, ... in order.
Rank(S, i) == Cardinality({j \in S : j <= i})

LEMMA Ranks ==
  ASSUME NEW n \in Nat, NEW S \in SUBSET (1..n)
  PROVE  /\ IsFiniteSet(S) /\ Cardinality(S) \in Nat
         /\ {Rank(S, i) : i \in S} = 1..Cardinality(S)
<1> DEFINE P == {m \in Nat : \A T \in SUBSET (1..m) : {Rank(T, i) : i \in T} = 1..Cardinality(T)}
<1>1. \A m \in Nat : \A T \in SUBSET (1..m) : IsFiniteSet(T) /\ Cardinality(T) \in Nat
  <2> SUFFICES ASSUME NEW m \in Nat, NEW T \in SUBSET (1..m)
               PROVE  IsFiniteSet(T) /\ Cardinality(T) \in Nat
    OBVIOUS
  <2>1. IsFiniteSet(1..m)
    BY FS_Interval
  <2>2. IsFiniteSet(T)
    BY <2>1, FS_Subset
  <2> QED
    BY <2>2, FS_CardinalityType
<1>2. 0 \in P
  <2>1. \A T \in SUBSET (1..0) : T = {}
    OBVIOUS
  <2>2. {Rank({}, i) : i \in {}} = {} /\ Cardinality({}) = 0 /\ 1..0 = {}
    BY FS_EmptySet
  <2> QED
    BY <2>1, <2>2
<1>3. ASSUME NEW m \in Nat, m \in P PROVE m + 1 \in P
  <2>0. m + 1 \in Nat /\ \A T \in SUBSET (1..m) : {Rank(T, i) : i \in T} = 1..Cardinality(T)
    BY <1>3
  <2>1. SUFFICES ASSUME NEW T \in SUBSET (1..(m + 1))
                 PROVE  {Rank(T, i) : i \in T} = 1..Cardinality(T)
    BY <2>0
  <2>2. CASE m + 1 \notin T
    <3>1. T \in SUBSET (1..m)
      BY <2>2
    <3> QED
      BY <2>0, <3>1
  <2>3. CASE m + 1 \in T
    <3> DEFINE U == T \ {m + 1}
    <3>1. U \in SUBSET (1..m)
      OBVIOUS
    <3>2. IsFiniteSet(U) /\ Cardinality(U) \in Nat
      BY <1>1, <3>1
    <3>3. T = U \cup {m + 1}
      BY <2>3
    <3>4. Cardinality(T) = Cardinality(U) + 1
      BY <3>2, <3>3, FS_AddElement
    <3>5. \A i \in U : {j \in T : j <= i} = {j \in U : j <= i}
      BY <3>1
    <3>6. \A i \in U : Rank(T, i) = Rank(U, i)
      BY <3>5 DEF Rank
    <3>7. {j \in T : j <= m + 1} = T
      <4>1. \A j \in T : j <= m + 1
        OBVIOUS
      <4> QED
        BY <4>1
    <3>8. Rank(T, m + 1) = Cardinality(U) + 1
      BY <3>4, <3>7 DEF Rank
    <3>9. {Rank(U, i) : i \in U} = 1..Cardinality(U)
      BY <2>0, <3>1
    <3>10. {Rank(T, i) : i \in T} = {Rank(U, i) : i \in U} \cup {Cardinality(U) + 1}
      <4> HIDE DEF U
      <4> QED
        BY <3>3, <3>6, <3>8
    <3>11. 1..(Cardinality(U) + 1) = 1..Cardinality(U) \cup {Cardinality(U) + 1}
      BY <3>2
    <3> QED
      BY <3>4, <3>9, <3>10, <3>11
  <2> QED
    BY <2>2, <2>3
<1>4. \A m \in Nat : m \in P
  BY <1>2, <1>3, NatSetInduction
<1> QED
  BY <1>1, <1>4

\* The goal a request asks for.
NewGoalFor(q) ==
  NewGoal(q.user, q.goal_name, q.target_amount, q.initial_contribution, q.deadline,
          q.lock_duration_seconds, q.expiration_seconds, q.penalty_bps)

LEMMA NewGoalType ==
  ASSUME Shape, NEW q \in GoalRequest, q.target_amount > 0
  PROVE  /\ NewGoalFor(q) \in GoalRecord
         /\ NewGoalFor(q).current_amount = q.initial_contribution
         /\ ~NewGoalFor(q).is_complete
<1>1. timestamp \in Nat
  BY GoalFacts
<1>2. /\ q.user \in Users /\ q.goal_name \in Names /\ q.target_amount \in Nat \ {0}
      /\ q.initial_contribution \in Int /\ q.deadline \in Nat
      /\ q.lock_duration_seconds \in Nat /\ q.expiration_seconds \in Nat
      /\ q.penalty_bps \in Nat
  BY DEF GoalRequest
<1>3. PICK unlock \in Nat :
        unlock = IF q.lock_duration_seconds > 0 THEN timestamp + q.lock_duration_seconds ELSE 0
  BY <1>1, <1>2
<1>4. PICK expires \in Nat :
        expires = IF q.expiration_seconds > 0 THEN timestamp + q.expiration_seconds ELSE 0
  BY <1>1, <1>2
<1>5. NewGoalFor(q) =
        [user |-> q.user, goal_name |-> q.goal_name, target_amount |-> q.target_amount,
         current_amount |-> q.initial_contribution, deadline |-> q.deadline,
         created_at |-> timestamp, is_active |-> TRUE, is_complete |-> FALSE,
         unlock_at |-> unlock, expires_at |-> expires, penalty_bps |-> q.penalty_bps]
  BY <1>3, <1>4 DEF NewGoalFor, NewGoal
<1> QED
  BY <1>1, <1>2, <1>5 DEF GoalRecord

\* The registration of n new goals.
LEMMA RegisterShape ==
  ASSUME Shape, admin # None, admin' = admin,
         NEW n \in Nat, LastGoalId + n <= MaxGoals,
         NEW created \in [(LastGoalId + 1)..(LastGoalId + n) -> GoalRecord],
         Register(created),
         goal' \in [1..(LastGoalId + n) -> GoalRecord], batches' \in Nat,
         contributions' = contributions, usedTokens' = usedTokens,
         triggered' \in [AllIds -> SUBSET MILESTONES],
         GoalClosedAt' \in [AllIds -> Nat \cup {None}],
         Certificate' \in [AllIds -> Nat \cup {None}],
         GoalPrereqs' = GoalPrereqs, timestamp' = timestamp, sequence' = sequence
  PROVE  Shape'
<1> DEFINE NameOf(g) == <<created[g].user, created[g].goal_name>>
<1>1. /\ LastGoalId \in Nat /\ Ids = 1..LastGoalId /\ MaxGoals \in Nat
      /\ TotalGoalsCreated \in Nat
  BY GoalFacts DEF Shape, TypeOK
<1>2. DOMAIN created = (LastGoalId + 1)..(LastGoalId + n) /\ Cardinality(DOMAIN created) = n
  BY <1>1, FS_Interval
<1>3. LastGoalId' = LastGoalId + n /\ TotalGoalsCreated' = TotalGoalsCreated + n
  BY <1>2 DEF Register
<1>4. LastGoalId' \in 0..MaxGoals /\ TotalGoalsCreated' \in Nat
  BY <1>1, <1>3
<1>5. Ids' = 1..(LastGoalId + n)
  BY DEF Ids
<1>6. Ids \subseteq Ids' /\ DOMAIN created \subseteq Ids'
  BY <1>1, <1>2, <1>5
<1>7. GoalByName' = [k \in DOMAIN GoalByName \cup {NameOf(g) : g \in DOMAIN created} |->
                       IF \E g \in DOMAIN created : k = NameOf(g)
                       THEN CHOOSE g \in DOMAIN created : k = NameOf(g) ELSE GoalByName[k]]
  BY DEF Register
<1>8. \A g \in DOMAIN created : NameOf(g) \in Users \X Names
  BY DEF GoalRecord
<1>9. DOMAIN GoalByName \subseteq Users \X Names /\ \A k \in DOMAIN GoalByName : GoalByName[k] \in Ids
  BY DEF Shape, TypeOK
<1> HIDE DEF NameOf
<1>10. DOMAIN GoalByName' = DOMAIN GoalByName \cup {NameOf(g) : g \in DOMAIN created}
  BY <1>7
<1>11. DOMAIN GoalByName' \subseteq Users \X Names
  BY <1>8, <1>9, <1>10
<1>12. ASSUME NEW k \in DOMAIN GoalByName' PROVE GoalByName'[k] \in Ids'
  <2>1. CASE \E g \in DOMAIN created : k = NameOf(g)
    <3>1. GoalByName'[k] = CHOOSE g \in DOMAIN created : k = NameOf(g)
      BY <1>7, <1>10, <2>1
    <3> QED
      BY <1>6, <2>1, <3>1
  <2>2. CASE ~ \E g \in DOMAIN created : k = NameOf(g)
    <3>1. k \in DOMAIN GoalByName /\ GoalByName'[k] = GoalByName[k]
      BY <1>7, <1>10, <2>2
    <3> QED
      BY <1>6, <1>9, <3>1
  <2> QED
    BY <2>1, <2>2
<1>13. GoalPrereqs' \in [AllIds -> SUBSET Ids']
  BY <1>6 DEF Shape
<1>14. TypeOK'
  BY <1>3, <1>4, <1>11, <1>12, <1>13 DEF Shape, TypeOK
<1> QED
  BY <1>13, <1>14 DEF Shape

\* The goals of before and the new ones.
Joined(created) ==
  [g \in Ids \cup DOMAIN created |-> IF g \in Ids THEN goal[g] ELSE created[g]]

\* n goals are created; what becomes of goal and of the milestones is left open.
Creation(n, created) ==
  /\ admin # None /\ admin' = admin /\ LastGoalId + n <= MaxGoals
  /\ created \in [(LastGoalId + 1)..(LastGoalId + n) -> GoalRecord]
  /\ \A g \in DOMAIN created : created[g].current_amount >= 0
  /\ Register(created)
  /\ batches' \in Nat
  /\ UNCHANGED <<contributions, usedTokens, GoalPrereqs, timestamp, sequence>>

LEMMA BatchEffect ==
  ASSUME Shape, NEW u \in Users, NEW qs \in GoalRequests, BatchSetSavingsGoals(u, qs)
  PROVE  \E n \in Nat : \E created :
           Creation(n, created) /\ CheckMilestones(Joined(created), DOMAIN created)
<1> DEFINE ok == Accepted(qs)
           Ordinal(i) == LastGoalId + Cardinality({j \in ok : j <= i})
           Asked(g) == qs[CHOOSE i \in ok : Ordinal(i) = g]
           created == [g \in {Ordinal(i) : i \in ok} |->
             LET q == qs[CHOOSE i \in ok : Ordinal(i) = g] IN
             NewGoal(q.user, q.goal_name, q.target_amount, q.initial_contribution, q.deadline,
                     q.lock_duration_seconds, q.expiration_seconds, q.penalty_bps)]
<1>1. /\ admin # None /\ admin' = admin
      /\ LastGoalId + Cardinality(ok) <= MaxGoals
      /\ CheckMilestones([g \in Ids \cup DOMAIN created |->
                            IF g \in Ids THEN goal[g] ELSE created[g]], DOMAIN created)
      /\ Register(created) /\ batches' = batches + 1
      /\ UNCHANGED <<contributions, usedTokens, GoalPrereqs, timestamp, sequence>>
  BY DEF BatchSetSavingsGoals, deposits, clock
<1>2. /\ LastGoalId \in Nat /\ batches \in Nat
  BY GoalFacts DEF Shape, TypeOK
<1>3. qs \in Seq(GoalRequest)
  BY InputAssumption
<1>4. ok \in SUBSET (1..Len(qs)) /\ Len(qs) \in Nat
  BY <1>3, SeqFacts DEF Accepted
<1>5. PICK n \in Nat : n = Cardinality(ok)
  BY <1>4, Ranks
<1>6. {Rank(ok, i) : i \in ok} = 1..n
  BY <1>4, <1>5, Ranks
<1>7. \A i : Ordinal(i) = LastGoalId + Rank(ok, i)
  BY DEF Rank
<1>8. \A i \in ok : ValidRequest(qs[i]) /\ qs[i] \in GoalRequest
  BY <1>3, <1>4, SeqFacts DEF Accepted
<1>9. DOMAIN created = {Ordinal(i) : i \in ok}
  OBVIOUS
<1> HIDE DEF ok, Ordinal
<1>10. {Ordinal(i) : i \in ok} = (LastGoalId + 1)..(LastGoalId + n)
  <2>1. \A i \in ok : Rank(ok, i) \in 1..n
    BY <1>6
  <2>2. \A m \in 1..n : \E i \in ok : m = Rank(ok, i)
    BY <1>6
  <2>3. \A i \in ok : Ordinal(i) \in (LastGoalId + 1)..(LastGoalId + n)
    BY <1>2, <1>7, <2>1
  <2>4. ASSUME NEW g \in (LastGoalId + 1)..(LastGoalId + n) PROVE \E i \in ok : g = Ordinal(i)
    <3>1. g - LastGoalId \in 1..n
      BY <1>2
    <3>2. PICK i \in ok : g - LastGoalId = Rank(ok, i)
      BY <2>2, <3>1
    <3> QED
      BY <1>2, <1>7, <3>2
  <2> QED
    BY <2>3, <2>4
<1>11. ASSUME NEW g \in DOMAIN created
       PROVE  created[g] \in GoalRecord /\ created[g].current_amount >= 0
  <2>1. PICK i \in ok : i = CHOOSE j \in ok : Ordinal(j) = g
    BY <1>9
  <2>2. PICK q \in GoalRequest : q = qs[i] /\ ValidRequest(q)
    BY <1>8
  <2>3. created[g] = NewGoalFor(q)
    BY <2>1, <2>2 DEF NewGoalFor
  <2>4. q.target_amount > 0 /\ q.initial_contribution >= 0
    <3>1. q.target_amount \in Int /\ q.initial_contribution \in Int
      BY DEF GoalRequest
    <3> QED
      BY <2>2, <3>1, BoundAssumption DEF ValidRequest
  <2> QED
    BY <2>3, <2>4, NewGoalType
<1> HIDE DEF created
<1>12. created \in [(LastGoalId + 1)..(LastGoalId + n) -> GoalRecord]
  <2>1. created = [g \in DOMAIN created |-> created[g]]
    BY DEF created
  <2> QED
    BY <1>9, <1>10, <1>11, <2>1
<1>13. Creation(n, created)
  BY <1>1, <1>2, <1>5, <1>11, <1>12 DEF Creation
<1>14. CheckMilestones(Joined(created), DOMAIN created)
  BY <1>1 DEF Joined
<1> QED
  BY <1>13, <1>14

LEMMA CloneEffect ==
  ASSUME Shape, NEW u \in Users, NEW g \in Ids, NEW name \in NewNames,
         CloneSavingsGoal(u, g, name)
  PROVE  \E created :
           /\ Creation(1, created) /\ goal' = Joined(created)
           /\ created[LastGoalId + 1].current_amount = 0
           /\ ~created[LastGoalId + 1].is_complete
           /\ UNCHANGED <<triggered, GoalClosedAt, Certificate>>
<1> DEFINE r == goal[g]
           Inherited(t) == IF t > r.created_at THEN t - r.created_at ELSE 0
           created == [h \in {LastGoalId + 1} |->
                         NewGoal(u, name, r.target_amount, 0, r.deadline,
                                 Inherited(r.unlock_at), Inherited(r.expires_at), r.penalty_bps)]
<1>1. /\ goal' = [h \in Ids \cup DOMAIN created |-> IF h \in Ids THEN goal[h] ELSE created[h]]
      /\ Register(created) /\ LastGoalId < MaxGoals /\ batches' = batches
      /\ admin' = admin
      /\ UNCHANGED <<contributions, usedTokens, GoalPrereqs, timestamp, sequence>>
      /\ UNCHANGED <<triggered, GoalClosedAt, Certificate>>
  BY DEF CloneSavingsGoal, deposits, progress, clock
<1>2. /\ LastGoalId \in Nat /\ MaxGoals \in Nat /\ Ids = 1..LastGoalId /\ batches \in Nat
      /\ r \in GoalRecord
  BY GoalFacts DEF Shape, TypeOK
<1>3. admin # None
  BY <1>2 DEF Shape
<1>4. /\ r.target_amount \in Nat \ {0} /\ r.deadline \in Nat /\ r.penalty_bps \in Nat
      /\ r.unlock_at \in Nat /\ r.expires_at \in Nat /\ r.created_at \in Nat
  BY <1>2 DEF GoalRecord
<1>5. Inherited(r.unlock_at) \in Nat /\ Inherited(r.expires_at) \in Nat
  BY <1>4
<1>6. name \in Names
  BY BoundAssumption
<1>7. PICK q : q = [user |-> u, goal_name |-> name, target_amount |-> r.target_amount,
                    initial_contribution |-> 0, deadline |-> r.deadline,
                    lock_duration_seconds |-> Inherited(r.unlock_at),
                    expiration_seconds |-> Inherited(r.expires_at),
                    penalty_bps |-> r.penalty_bps]
  OBVIOUS
<1>8. PICK new : new = created[LastGoalId + 1]
  OBVIOUS
<1>9. DOMAIN created = {LastGoalId + 1}
  OBVIOUS
<1>10. new = NewGoalFor(q)
  BY <1>7, <1>8 DEF NewGoalFor
<1> HIDE DEF Inherited, r
<1>11. new \in GoalRecord /\ new.current_amount = 0 /\ ~new.is_complete
  <2>1. q \in GoalRequest /\ q.target_amount > 0 /\ q.initial_contribution = 0
    BY <1>4, <1>5, <1>6, <1>7 DEF GoalRequest
  <2> QED
    BY <1>10, <2>1, NewGoalType
<1> HIDE DEF created
<1>12. DOMAIN created = (LastGoalId + 1)..(LastGoalId + 1)
  BY <1>2, <1>9
<1>13. created \in [(LastGoalId + 1)..(LastGoalId + 1) -> GoalRecord]
  <2>1. \A h \in DOMAIN created : created[h] \in GoalRecord
    BY <1>8, <1>9, <1>11
  <2>2. created = [h \in DOMAIN created |-> created[h]]
    BY DEF created
  <2> QED
    BY <1>12, <2>1, <2>2
<1>14. \A h \in DOMAIN created : created[h].current_amount >= 0
  BY <1>8, <1>9, <1>11
<1>15. LastGoalId + 1 <= MaxGoals
  BY <1>1, <1>2
<1>16. Creation(1, created)
  BY <1>1, <1>2, <1>3, <1>13, <1>14, <1>15 DEF Creation
<1>17. goal' = Joined(created)
  BY <1>1 DEF Joined
<1> QED
  BY <1>1, <1>8, <1>11, <1>16, <1>17

LEMMA JoinedType ==
  ASSUME Shape, NEW n \in Nat, NEW created, Creation(n, created)
  PROVE  /\ Joined(created) \in [1..(LastGoalId + n) -> GoalRecord]
         /\ DOMAIN created \in SUBSET (1..(LastGoalId + n))
         /\ LastGoalId + n \in Nat
<1>1. /\ LastGoalId \in Nat /\ Ids = 1..LastGoalId /\ \A g \in Ids : goal[g] \in GoalRecord
  BY GoalFacts
<1>2. created \in [(LastGoalId + 1)..(LastGoalId + n) -> GoalRecord]
  BY DEF Creation
<1>3. Ids \cup DOMAIN created = 1..(LastGoalId + n)
  BY <1>1, <1>2
<1> QED
  BY <1>1, <1>2, <1>3 DEF Joined

LEMMA CreationShape ==
  ASSUME Shape, NEW n \in Nat, NEW created, Creation(n, created),
         goal' \in [1..(LastGoalId + n) -> GoalRecord],
         triggered' \in [AllIds -> SUBSET MILESTONES],
         GoalClosedAt' \in [AllIds -> Nat \cup {None}],
         Certificate' \in [AllIds -> Nat \cup {None}]
  PROVE  Shape'
BY RegisterShape DEF Creation

\* Marking adds milestones the goal has reached.
LEMMA MarkEffect ==
  ASSUME Shape, NEW u \in Users, NEW qs \in MilestoneRequests, BatchMarkMilestones(u, qs)
  PROVE  /\ triggered' \in [AllIds -> SUBSET MILESTONES]
         /\ \A g \in AllIds : triggered[g] \subseteq triggered'[g]
         /\ UNCHANGED <<goal, GoalClosedAt, Certificate, contributions, usedTokens>>
         /\ Elsewhere
<1> DEFINE ok == MarkAccepted(u, qs)
<1>1. \A i \in ok : qs[i].percentage \in MILESTONES
  BY DEF MarkAccepted, ReachedBy
<1>2. triggered' = [g \in AllIds |->
         triggered[g] \cup {qs[i].percentage : i \in {j \in ok : qs[j].goal_id = g}}]
  BY DEF BatchMarkMilestones
<1>3. /\ UNCHANGED <<goal, GoalClosedAt, Certificate, contributions, usedTokens>>
      /\ Elsewhere
  BY DEF BatchMarkMilestones, Elsewhere, register, deposits, clock
<1> HIDE DEF ok
<1> QED
  BY <1>1, <1>2, <1>3 DEF Shape

Renamed(g, name, r) ==
  /\ r = [goal[g] EXCEPT !.goal_name = name]
  /\ goal' = [goal EXCEPT ![g] = r]
  /\ UNCHANGED <<contributions, usedTokens, triggered, GoalClosedAt, Certificate>>
  /\ Elsewhere

LEMMA RenameEffect ==
  ASSUME Shape, NEW u \in Users, NEW g \in Ids, NEW name \in NewNames, UpdateGoalName(u, g, name)
  PROVE  \E r \in GoalRecord : Renamed(g, name, r)
<1>1. PICK x \in GoalRecord : x = goal[g]
  BY GoalFacts
<1>2. PICK r : r = [x EXCEPT !.goal_name = name]
  OBVIOUS
<1>3. name \in Names
  BY BoundAssumption
<1>4. r \in GoalRecord
  BY <1>2, <1>3 DEF GoalRecord
<1>5. goal' = [goal EXCEPT ![g] = r]
  BY <1>1, <1>2 DEF UpdateGoalName
<1>6. /\ UNCHANGED <<contributions, usedTokens, triggered, GoalClosedAt, Certificate>>
      /\ Elsewhere
  BY DEF UpdateGoalName, Elsewhere, register, deposits, progress, clock
<1> QED
  BY <1>1, <1>2, <1>4, <1>5, <1>6 DEF Renamed

LEMMA PrerequisitesEffect ==
  ASSUME Shape, NEW u \in Users, NEW g \in Ids, NEW ps \in PrereqLists,
         SetGoalPrerequisites(u, g, ps)
  PROVE  /\ ps \subseteq Ids /\ g \notin ps
         /\ \A p \in ps : g \notin Reachable(p)
         /\ GoalPrereqs' = [GoalPrereqs EXCEPT ![g] = ps]
         /\ UNCHANGED <<admin, goal, GoalByName, UserGoals, LastGoalId, TotalGoalsCreated, batches,
                        contributions, usedTokens, triggered, GoalClosedAt, Certificate,
                        timestamp, sequence>>
BY DEF SetGoalPrerequisites, register, deposits, progress, clock

\* Checking the goals of S among the records of G, when no goal is created.
LEMMA CheckedUpdateShape ==
  ASSUME Shape, NEW G \in [Ids -> GoalRecord], NEW S \in SUBSET Ids, CheckMilestones(G, S),
         contributions' \in [AllIds -> Seq(ContributionRecord)],
         usedTokens' \in [AllIds -> SUBSET IdempotencyTokens], Elsewhere
  PROVE  Shape'
<1>1. LastGoalId \in Nat /\ Ids = 1..LastGoalId
  BY GoalFacts
<1>2. /\ goal' \in [Ids -> GoalRecord]
      /\ triggered' \in [AllIds -> SUBSET MILESTONES]
      /\ GoalClosedAt' \in [AllIds -> Nat \cup {None}]
      /\ Certificate' \in [AllIds -> Nat \cup {None}]
  BY <1>1, CheckShape
<1>3. batches' \in Nat /\ timestamp' \in Nat /\ sequence' \in Nat
      /\ GoalPrereqs' \in [AllIds -> SUBSET Ids]
  BY DEF Elsewhere, Shape, TypeOK
<1>4. UNCHANGED <<GoalByName, LastGoalId, TotalGoalsCreated>> /\ admin' = admin
  BY DEF Elsewhere
<1> QED
  BY <1>2, <1>3, <1>4, SameGoalsShape

\* The same without a check.
LEMMA PlainUpdateShape ==
  ASSUME Shape, goal' \in [Ids -> GoalRecord],
         contributions' \in [AllIds -> Seq(ContributionRecord)],
         usedTokens' = usedTokens,
         triggered' \in [AllIds -> SUBSET MILESTONES],
         UNCHANGED <<GoalClosedAt, Certificate>>, Elsewhere
  PROVE  Shape'
<1>1. /\ usedTokens' \in [AllIds -> SUBSET IdempotencyTokens]
      /\ GoalClosedAt' \in [AllIds -> Nat \cup {None}]
      /\ Certificate' \in [AllIds -> Nat \cup {None}]
      /\ batches' \in Nat /\ timestamp' \in Nat /\ sequence' \in Nat
      /\ GoalPrereqs' \in [AllIds -> SUBSET Ids]
  BY DEF Elsewhere, Shape, TypeOK
<1>2. UNCHANGED <<GoalByName, LastGoalId, TotalGoalsCreated>> /\ admin' = admin
  BY DEF Elsewhere
<1> QED
  BY <1>1, <1>2, SameGoalsShape

------------------------------------------------------------------------------
\* What a step of the contract does to goals, contributions and prerequisites.

CreateStep == \E n \in Nat : \E created :
  Creation(n, created) /\ CheckMilestones(Joined(created), DOMAIN created)
CloneStep == \E created :
  /\ Creation(1, created) /\ goal' = Joined(created)
  /\ created[LastGoalId + 1].current_amount = 0
  /\ ~created[LastGoalId + 1].is_complete
  /\ UNCHANGED <<triggered, GoalClosedAt, Certificate>>
RenameStep == \E g \in Ids, name \in NewNames, r \in GoalRecord : Renamed(g, name, r)
ContributeStep == \E g \in Ids, k \in IdempotencyTokens : \E r, entry : Contributed(g, k, r, entry)
ReverseStep == \E g \in Ids : \E c, r, entry : Reversed(g, c, r, entry)
WithdrawStep == \E g \in Ids, r \in GoalRecord :
  /\ Lowered(g, r) /\ r.is_active = goal[g].is_active
  /\ goal' = [goal EXCEPT ![g] = r]
  /\ UNCHANGED <<triggered, GoalClosedAt, Certificate>>
PartialStep == \E g \in Ids, r \in GoalRecord :
  Lowered(g, r) /\ CheckMilestones([goal EXCEPT ![g] = r], {g})
MergeStep == \E s, t \in Ids, rs, rt \in GoalRecord : Merged(s, t, rs, rt)
MarkStep ==
  /\ triggered' \in [AllIds -> SUBSET MILESTONES]
  /\ \A g \in AllIds : triggered[g] \subseteq triggered'[g]
  /\ UNCHANGED <<goal, GoalClosedAt, Certificate, contributions, usedTokens>>
  /\ Elsewhere
PrereqStep == \E g \in Ids, ps \in SUBSET Ids :
  /\ g \notin ps /\ \A p \in ps : g \notin Reachable(p)
  /\ GoalPrereqs' = [GoalPrereqs EXCEPT ![g] = ps]
  /\ UNCHANGED <<admin, goal, GoalByName, UserGoals, LastGoalId, TotalGoalsCreated, batches,
                 contributions, usedTokens, triggered, GoalClosedAt, Certificate,
                 timestamp, sequence>>

LEMMA Steps ==
  ASSUME Shape, [Next]_vars
  PROVE  \/ Quiet \/ CreateStep \/ CloneStep \/ RenameStep \/ ContributeStep \/ ReverseStep
         \/ WithdrawStep \/ PartialStep \/ MergeStep \/ MarkStep \/ PrereqStep
<1>1. CASE \/ \E a \in Users : Initialize(a)
           \/ \E c, a \in Users : SetAdmin(c, a)
           \/ \E c \in Users, ts \in ThresholdLists : SetDefaultAlertThresholds(c, ts)
           \/ \E c \in Users, g \in Ids, ts \in ThresholdLists : SetGoalAlertThresholds(c, g, ts)
           \/ \E g \in Ids : ProcessGoalAlerts(g)
           \/ \E c \in Users, g \in Ids : RecordGoalSnapshot(c, g)
           \/ CloseLedger
           \/ UNCHANGED vars
  BY <1>1, QuietSteps
<1>2. CASE \E c \in Users, qs \in GoalRequests : BatchSetSavingsGoals(c, qs)
  BY <1>2, BatchEffect DEF CreateStep
<1>3. CASE \E c \in Users, g \in Ids, n \in NewNames : CloneSavingsGoal(c, g, n)
  BY <1>3, CloneEffect DEF CloneStep
<1>4. CASE \E c \in Users, g \in Ids, n \in NewNames : UpdateGoalName(c, g, n)
  BY <1>4, RenameEffect DEF RenameStep
<1>5. CASE \E c \in Users, g \in Ids, a \in Amounts, k \in IdempotencyTokens :
             ContributeToGoal(c, g, a, k)
  BY <1>5, ContributeEffect DEF ContributeStep
<1>6. CASE \E c \in Users, g \in Ids, k \in 1..MaxContributions : ReverseContribution(c, g, k)
  BY <1>6, ReverseEffect DEF ReverseStep
<1>7. CASE \E c \in Users, g \in Ids, a \in Amounts : WithdrawFromGoal(c, g, a)
  BY <1>7, WithdrawEffect DEF WithdrawStep
<1>8. CASE \E c \in Users, g \in Ids, a \in Amounts : PartialWithdraw(c, g, a)
  BY <1>8, PartialWithdrawEffect DEF PartialStep
<1>9. CASE \E c \in Users, g, h \in Ids : MergeGoals(c, g, h)
  BY <1>9, MergeEffect DEF MergeStep
<1>10. CASE \E c \in Users, qs \in MilestoneRequests : BatchMarkMilestones(c, qs)
  BY <1>10, MarkEffect DEF MarkStep
<1>11. CASE \E c \in Users, g \in Ids, ps \in PrereqLists : SetGoalPrerequisites(c, g, ps)
  BY <1>11, PrerequisitesEffect DEF PrereqStep
<1> QED
  BY <1>1, <1>2, <1>3, <1>4, <1>5, <1>6, <1>7, <1>8, <1>9, <1>10, <1>11 DEF Next

------------------------------------------------------------------------------
\* Type correctness.

LEMMA ShapeInit == ASSUME Init PROVE Shape
<1>1. /\ LastGoalId = 0 /\ 1..LastGoalId = {} /\ DOMAIN goal = {} /\ DOMAIN GoalByName = {}
      /\ goal = << >>
  BY DEF Init
<1>2. goal \in [1..LastGoalId -> GoalRecord]
  BY <1>1
<1>3. \A S : << >> \in Seq(S)
  OBVIOUS
<1>4. MaxGoals \in Nat /\ 0 \in 0..MaxGoals
  BY BoundAssumption
<1> QED
  BY <1>1, <1>2, <1>3, <1>4 DEF Init, Shape, TypeOK, Ids

LEMMA ShapeNext == ASSUME Shape, [Next]_vars PROVE Shape'
<1>1. /\ goal \in [Ids -> GoalRecord] /\ LastGoalId \in Nat /\ Ids = 1..LastGoalId
      /\ Ids \subseteq AllIds
      /\ contributions \in [AllIds -> Seq(ContributionRecord)]
      /\ usedTokens \in [AllIds -> SUBSET IdempotencyTokens]
      /\ triggered \in [AllIds -> SUBSET MILESTONES]
  BY GoalFacts DEF Shape, TypeOK
<1>2. CASE Quiet
  BY <1>2, QuietShape
<1>3. CASE CreateStep
  <2>0. PICK n \in Nat :
          \E created : Creation(n, created) /\ CheckMilestones(Joined(created), DOMAIN created)
    BY <1>3 DEF CreateStep
  <2>1. PICK created :
          Creation(n, created) /\ CheckMilestones(Joined(created), DOMAIN created)
    BY <2>0
  <2>2. /\ goal' \in [1..(LastGoalId + n) -> GoalRecord]
        /\ triggered' \in [AllIds -> SUBSET MILESTONES]
        /\ GoalClosedAt' \in [AllIds -> Nat \cup {None}]
        /\ Certificate' \in [AllIds -> Nat \cup {None}]
    BY <2>1, JoinedType, CheckShape
  <2> QED
    BY <2>1, <2>2, CreationShape
<1>4. CASE CloneStep
  <2>1. PICK created : /\ Creation(1, created) /\ goal' = Joined(created)
                       /\ UNCHANGED <<triggered, GoalClosedAt, Certificate>>
    BY <1>4 DEF CloneStep
  <2>2. goal' \in [1..(LastGoalId + 1) -> GoalRecord]
    BY <2>1, JoinedType
  <2> QED
    BY <2>1, <2>2, CreationShape DEF Shape
<1>5. CASE RenameStep
  BY <1>1, <1>5, PlainUpdateShape DEF RenameStep, Renamed
<1>6. CASE ContributeStep
  <2>0. PICK g \in Ids, k \in IdempotencyTokens : \E r, entry : Contributed(g, k, r, entry)
    BY <1>6 DEF ContributeStep
  <2>1. PICK r, entry : Contributed(g, k, r, entry)
    BY <2>0
  <2>2. [goal EXCEPT ![g] = r] \in [Ids -> GoalRecord] /\ {g} \in SUBSET Ids
    BY <1>1, <2>1 DEF Contributed, Rebalanced
  <2>3. Append(contributions[g], entry) \in Seq(ContributionRecord)
    BY <1>1, <2>1 DEF Contributed
  <2>4. contributions' \in [AllIds -> Seq(ContributionRecord)]
    BY <1>1, <2>1, <2>3 DEF Contributed
  <2>5. usedTokens' \in [AllIds -> SUBSET IdempotencyTokens]
    BY <1>1, <2>1 DEF Contributed
  <2> QED
    BY <2>1, <2>2, <2>4, <2>5, CheckedUpdateShape DEF Contributed
<1>7. CASE ReverseStep
  <2>0. PICK g \in Ids : \E c, r, entry : Reversed(g, c, r, entry)
    BY <1>7 DEF ReverseStep
  <2>1. PICK c, r, entry : Reversed(g, c, r, entry)
    BY <2>0
  <2>2. [contributions[g] EXCEPT ![c] = entry] \in Seq(ContributionRecord)
    BY <1>1, <2>1 DEF Reversed
  <2>3. contributions' \in [AllIds -> Seq(ContributionRecord)]
    BY <1>1, <2>1, <2>2 DEF Reversed
  <2>4. goal' \in [Ids -> GoalRecord]
    BY <1>1, <2>1 DEF Reversed, Rebalanced
  <2> QED
    BY <1>1, <2>1, <2>3, <2>4, PlainUpdateShape DEF Reversed
<1>8. CASE WithdrawStep
  <2>1. PICK g \in Ids, r \in GoalRecord :
          /\ Lowered(g, r) /\ goal' = [goal EXCEPT ![g] = r]
          /\ UNCHANGED <<triggered, GoalClosedAt, Certificate>>
    BY <1>8 DEF WithdrawStep
  <2> QED
    BY <1>1, <2>1, PlainUpdateShape DEF Lowered
<1>9. CASE PartialStep
  <2>1. PICK g \in Ids, r \in GoalRecord :
          Lowered(g, r) /\ CheckMilestones([goal EXCEPT ![g] = r], {g})
    BY <1>9 DEF PartialStep
  <2>2. [goal EXCEPT ![g] = r] \in [Ids -> GoalRecord] /\ {g} \in SUBSET Ids
    BY <1>1
  <2> QED
    BY <1>1, <2>1, <2>2, CheckedUpdateShape DEF Lowered
<1>10. CASE MergeStep
  <2>1. PICK s \in Ids, t \in Ids, rs \in GoalRecord, rt \in GoalRecord : Merged(s, t, rs, rt)
    BY <1>10 DEF MergeStep
  <2>2. [[goal EXCEPT ![s] = rs] EXCEPT ![t] = rt] \in [Ids -> GoalRecord]
        /\ {t} \in SUBSET Ids
    BY <1>1
  <2> QED
    BY <1>1, <2>1, <2>2, CheckedUpdateShape DEF Merged
<1>11. CASE MarkStep
  BY <1>1, <1>11, PlainUpdateShape DEF MarkStep
<1>12. CASE PrereqStep
  <2>1. GoalPrereqs' \in [AllIds -> SUBSET Ids]
    BY <1>1, <1>12 DEF PrereqStep, Shape
  <2>2. /\ UNCHANGED <<admin, goal, GoalByName, UserGoals, LastGoalId, TotalGoalsCreated, batches,
                       contributions, usedTokens, triggered, GoalClosedAt, Certificate,
                       timestamp, sequence>>
    BY <1>12 DEF PrereqStep
  <2>3. /\ batches' \in Nat /\ timestamp' \in Nat /\ sequence' \in Nat
        /\ GoalClosedAt' \in [AllIds -> Nat \cup {None}]
        /\ Certificate' \in [AllIds -> Nat \cup {None}]
    BY <2>2 DEF Shape, TypeOK
  <2> QED
    BY <1>1, <2>1, <2>2, <2>3, SameGoalsShape
<1> QED
  BY <1>2, <1>3, <1>4, <1>5, <1>6, <1>7, <1>8, <1>9, <1>10, <1>11, <1>12, Steps

LEMMA ShapeHolds == Spec => []Shape
<1>1. Init => Shape
  BY ShapeInit
<1>2. Shape /\ [Next]_vars => Shape'
  BY ShapeNext
<1> QED
  BY <1>1, <1>2, PTL DEF Spec

\* Every reachable state is well formed, for any users, requests, amounts and
\* bounds: balances stay integers, numbers of goals stay 1..LastGoalId, every name
\* and every prerequisite refers to a goal there is.
THEOREM TypeCorrect == Spec => []TypeOK
<1>1. Shape => TypeOK
  BY DEF Shape
<1> QED
  BY <1>1, ShapeHolds, PTL

------------------------------------------------------------------------------
\* Idempotency tokens.

TokensIn(s) == {s[c].token : c \in DOMAIN s}

\* A token set that is finite can be counted.
TokensCounted ==
  \A g \in AllIds : /\ usedTokens[g] = TokensIn(contributions[g])
                    /\ IsFiniteSet(usedTokens[g])
                    /\ Cardinality(usedTokens[g]) = Len(contributions[g])

LEMMA TokensAppended ==
  ASSUME NEW s \in Seq(ContributionRecord), NEW e \in ContributionRecord
  PROVE  TokensIn(Append(s, e)) = TokensIn(s) \cup {e.token} /\ Len(Append(s, e)) = Len(s) + 1
<1>1. DOMAIN Append(s, e) = DOMAIN s \cup {Len(s) + 1} /\ Len(Append(s, e)) = Len(s) + 1
  OBVIOUS
<1>2. Append(s, e)[Len(s) + 1] = e /\ \A c \in DOMAIN s : Append(s, e)[c] = s[c]
  OBVIOUS
<1> QED
  BY <1>1, <1>2 DEF TokensIn

LEMMA TokensReplaced ==
  ASSUME NEW s \in Seq(ContributionRecord), NEW c \in 1..Len(s), NEW e, e.token = s[c].token
  PROVE  TokensIn([s EXCEPT ![c] = e]) = TokensIn(s) /\ Len([s EXCEPT ![c] = e]) = Len(s)
<1>1. \A d \in DOMAIN s : [s EXCEPT ![c] = e][d].token = s[d].token
  OBVIOUS
<1>2. DOMAIN [s EXCEPT ![c] = e] = DOMAIN s
  OBVIOUS
<1>3. Len([s EXCEPT ![c] = e]) = Len(s)
  OBVIOUS
<1> QED
  BY <1>1, <1>2, <1>3 DEF TokensIn

LEMMA TokensNext ==
  ASSUME Shape, TokensCounted, [Next]_vars
  PROVE  TokensCounted'
<1>1. /\ Ids \subseteq AllIds
      /\ contributions \in [AllIds -> Seq(ContributionRecord)]
      /\ usedTokens \in [AllIds -> SUBSET IdempotencyTokens]
  BY GoalFacts DEF Shape
<1>2. CASE UNCHANGED <<contributions, usedTokens>>
  BY <1>2 DEF TokensCounted, AllIds, TokensIn
<1>3. CASE ContributeStep
  <2>0. PICK g \in Ids, k \in IdempotencyTokens : \E r, entry : Contributed(g, k, r, entry)
    BY <1>3 DEF ContributeStep
  <2>1. PICK r, entry : Contributed(g, k, r, entry)
    BY <2>0
  <2>2. PICK s \in Seq(ContributionRecord) : s = contributions[g]
    BY <1>1
  <2>3. entry \in ContributionRecord /\ entry.token = k /\ k \notin usedTokens[g]
    BY <2>1 DEF Contributed
  <2>4. contributions'[g] = Append(s, entry) /\ usedTokens'[g] = usedTokens[g] \cup {k}
    BY <1>1, <2>1, <2>2 DEF Contributed
  <2>5. \A h \in AllIds \ {g} : contributions'[h] = contributions[h]
                                /\ usedTokens'[h] = usedTokens[h]
    BY <1>1, <2>1 DEF Contributed
  <2>6. /\ TokensIn(Append(s, entry)) = TokensIn(s) \cup {k}
        /\ Len(Append(s, entry)) = Len(s) + 1
    BY <2>3, TokensAppended
  <2>7. /\ usedTokens[g] = TokensIn(s) /\ IsFiniteSet(usedTokens[g])
        /\ Cardinality(usedTokens[g]) = Len(s)
    BY <1>1, <2>2 DEF TokensCounted
  <2>8. /\ IsFiniteSet(usedTokens[g] \cup {k})
        /\ Cardinality(usedTokens[g] \cup {k}) = Cardinality(usedTokens[g]) + 1
    BY <2>3, <2>7, FS_AddElement
  <2>9. /\ usedTokens'[g] = TokensIn(contributions'[g]) /\ IsFiniteSet(usedTokens'[g])
        /\ Cardinality(usedTokens'[g]) = Len(contributions'[g])
    BY <2>4, <2>6, <2>7, <2>8
  <2> QED
    BY <2>5, <2>9 DEF TokensCounted, AllIds
<1>4. CASE ReverseStep
  <2>0. PICK g \in Ids : \E c, r, entry : Reversed(g, c, r, entry)
    BY <1>4 DEF ReverseStep
  <2>1. PICK c, r, entry : Reversed(g, c, r, entry)
    BY <2>0
  <2>2. PICK s \in Seq(ContributionRecord) : s = contributions[g]
    BY <1>1
  <2>3. c \in 1..Len(s) /\ entry.token = s[c].token
    BY <2>1, <2>2 DEF Reversed
  <2>4. contributions'[g] = [s EXCEPT ![c] = entry] /\ usedTokens' = usedTokens
    BY <1>1, <2>1, <2>2 DEF Reversed
  <2>5. \A h \in AllIds \ {g} : contributions'[h] = contributions[h]
    BY <1>1, <2>1 DEF Reversed
  <2>6. /\ TokensIn(contributions'[g]) = TokensIn(contributions[g])
        /\ Len(contributions'[g]) = Len(contributions[g])
    BY <2>2, <2>3, <2>4, TokensReplaced
  <2>7. \A h \in AllIds : /\ TokensIn(contributions'[h]) = TokensIn(contributions[h])
                          /\ Len(contributions'[h]) = Len(contributions[h])
    BY <2>5, <2>6
  <2> QED
    BY <2>4, <2>7 DEF TokensCounted, AllIds
<1>5. ContributeStep \/ ReverseStep \/ UNCHANGED <<contributions, usedTokens>>
  BY Steps DEF Quiet, CreateStep, CloneStep, Creation, RenameStep, Renamed, WithdrawStep,
    PartialStep, Lowered, MergeStep, Merged, MarkStep, PrereqStep
<1> QED
  BY <1>2, <1>3, <1>4, <1>5

\* A retried contribution is applied once: every token a goal refuses is the
\* token of exactly one of its contribution records, reversed or not.
THEOREM TokensAreSpentOnce == Spec => []TokensSpendOnce
<1>1. Init => TokensCounted
  <2>1. ASSUME Init PROVE TokensCounted
    <3>1. TokensIn(<< >>) = {} /\ Len(<< >>) = 0
      BY DEF TokensIn
    <3>2. \A g \in AllIds : contributions[g] = << >> /\ usedTokens[g] = {}
      BY <2>1 DEF Init
    <3> QED
      BY <3>1, <3>2, FS_EmptySet DEF TokensCounted
  <2> QED
    BY <2>1
<1>2. Shape /\ TokensCounted /\ [Next]_vars => TokensCounted'
  BY TokensNext
<1>3. TokensCounted => TokensSpendOnce
  BY DEF TokensCounted, TokensSpendOnce, TokensIn
<1> QED
  BY <1>1, <1>2, <1>3, ShapeHolds, PTL DEF Spec

------------------------------------------------------------------------------
\* Progress: flags, milestones and certificates against the balance.

\* No percentage is cut down to its low 32 bits.
PercentagesFit ==
  \A g \in Ids : (goal[g].current_amount * 100) \div goal[g].target_amount < U32

LEMMA PercentOf ==
  ASSUME NEW c \in Nat, NEW t \in Nat \ {0}
  PROVE  /\ (c * 100) \div t \in Nat
         /\ (c * 100) \div t < U32 => Percent(c, t) = (c * 100) \div t
<1>1. PICK x \in Nat : x = c * 100
  OBVIOUS
<1>2. PICK n \in Nat : n = x \div t
  OBVIOUS
<1>3. Percent(c, t) = n % U32
  BY <1>1, <1>2 DEF Percent, AsU32
<1>4. ASSUME n < U32 PROVE n % U32 = n
  BY <1>4, BoundAssumption
<1> QED
  BY <1>1, <1>2, <1>3, <1>4

\* A lower balance has reached no further milestone.
LEMMA LowerReachesLess ==
  ASSUME NEW c \in Nat, NEW d \in Nat, NEW t \in Nat \ {0}, c <= d, (d * 100) \div t < U32
  PROVE  ReachedBy(c, t) \subseteq ReachedBy(d, t)
<1>1. (c * 100) \div t <= (d * 100) \div t
  <2>1. c * 100 \in Nat /\ d * 100 \in Nat /\ c * 100 <= d * 100
    OBVIOUS
  <2> QED
    BY <2>1, DivMonotone
<1>2. Percent(d, t) = (d * 100) \div t /\ (d * 100) \div t \in Nat /\ (c * 100) \div t \in Nat
  BY PercentOf
<1>3. U32 \in Nat
  BY BoundAssumption
<1>4. (c * 100) \div t < U32
  BY <1>1, <1>2, <1>3
<1>5. Percent(c, t) = (c * 100) \div t
  BY <1>4, PercentOf
<1>6. Percent(c, t) <= Percent(d, t) /\ Percent(c, t) \in Nat /\ Percent(d, t) \in Nat
  BY <1>1, <1>2, <1>5
<1>7. \A m \in MILESTONES : Percent(c, t) >= m => Percent(d, t) >= m
  BY <1>6 DEF MILESTONES
<1> QED
  BY <1>7 DEF ReachedBy

LEMMA NothingReachesNothing ==
  ASSUME NEW t \in Nat \ {0}
  PROVE  ReachedBy(0, t) = {}
<1>1. 0 \div t = 0
  OBVIOUS
<1>2. 0 * 100 = 0 /\ U32 \in Nat /\ 0 < U32
  BY BoundAssumption
<1>3. Percent(0, t) = 0
  BY <1>1, <1>2, PercentOf
<1> QED
  BY <1>3 DEF ReachedBy, MILESTONES

\* A filled goal has reached everything.
LEMMA FilledReachesAll ==
  ASSUME NEW d \in Nat, NEW t \in Nat \ {0}, t <= d, (d * 100) \div t < U32
  PROVE  ReachedBy(d, t) = MILESTONES
<1>1. (t * 100) \div t = 100
  OBVIOUS
<1>2. (t * 100) \div t <= (d * 100) \div t
  <2>1. t * 100 \in Nat /\ d * 100 \in Nat /\ t * 100 <= d * 100
    OBVIOUS
  <2> QED
    BY <2>1, DivMonotone
<1>3. Percent(d, t) = (d * 100) \div t /\ (d * 100) \div t \in Nat
  BY PercentOf
<1>4. Percent(d, t) >= 100 /\ Percent(d, t) \in Nat
  BY <1>1, <1>2, <1>3
<1> QED
  BY <1>4 DEF ReachedBy, MILESTONES

\* What a step does to goal g: the check looks at a record r of it, or
\* the milestones at most grow and the goal is left as it is, has its balance
\* moved, is emptied by a merge, or is a new clone.
Looked(g) == \E r \in GoalRecord :
  /\ goal'[g] = Checked(g, r)
  /\ triggered'[g] = triggered[g] \cup News(g, r)
  /\ GoalClosedAt'[g] = IF 100 \in News(g, r) /\ r.is_active THEN sequence ELSE GoalClosedAt[g]
  /\ Certificate'[g] = IF 100 \in News(g, r) /\ Certificate[g] = None THEN timestamp
                       ELSE Certificate[g]
Unlooked(g) ==
  /\ GoalClosedAt'[g] = GoalClosedAt[g] /\ Certificate'[g] = Certificate[g]
  /\ triggered[g] \subseteq triggered'[g]
Left(g) ==
  /\ g \in Ids
  /\ goal'[g].current_amount = goal[g].current_amount
  /\ goal'[g].target_amount = goal[g].target_amount
  /\ goal'[g].is_complete = goal[g].is_complete
  /\ goal'[g].is_active = goal[g].is_active
Moved(g) ==
  /\ g \in Ids /\ Rebalanced(g, goal'[g])
  /\ \/ goal'[g].current_amount >= 0 /\ goal'[g].current_amount < goal[g].current_amount
     \/ \E c \in 1..Len(contributions[g]) :
          goal'[g].current_amount = goal[g].current_amount - contributions[g][c].amount
Emptied(g) ==
  /\ g \in Ids /\ goal[g].is_active /\ ~goal'[g].is_active
  /\ goal'[g].current_amount = 0 /\ goal'[g].is_complete = goal[g].is_complete
  /\ goal'[g].target_amount = goal[g].target_amount
Fresh(g) == goal'[g].current_amount = 0 /\ ~goal'[g].is_complete

GoalStep(g) ==
  \/ g \in Ids' /\ Looked(g)
  \/ Unlooked(g) /\ (g \in Ids' => Left(g) \/ Moved(g) \/ Emptied(g) \/ Fresh(g))

LEMMA LookedAfterCheck ==
  ASSUME Shape, NEW n \in Nat, n <= MaxGoals, NEW G \in [1..n -> GoalRecord],
         NEW S \in SUBSET (1..n), CheckMilestones(G, S)
  PROVE  /\ Ids' = 1..n
         /\ \A g \in S : Looked(g)
         /\ \A g \in (1..n) \ S : goal'[g] = G[g]
         /\ \A g \in AllIds \ S : Unlooked(g)
<1>1. Announced(G, S)
  BY CheckEffect
<1>2. S \subseteq AllIds
  BY BoundAssumption DEF AllIds
<1>3. goal' = [g \in 1..n |-> IF g \in S THEN Checked(g, G[g]) ELSE G[g]]
  BY <1>1 DEF Announced
<1>4. ASSUME NEW g \in S PROVE Looked(g)
  <2>1. goal'[g] = Checked(g, G[g]) /\ G[g] \in GoalRecord
    BY <1>3
  <2>2. /\ triggered'[g] = triggered[g] \cup News(g, G[g])
        /\ GoalClosedAt'[g] = IF 100 \in News(g, G[g]) /\ G[g].is_active THEN sequence
                              ELSE GoalClosedAt[g]
        /\ Certificate'[g] = IF 100 \in News(g, G[g]) /\ Certificate[g] = None THEN timestamp
                             ELSE Certificate[g]
    BY <1>1, <1>2 DEF Announced
  <2> QED
    BY <2>1, <2>2 DEF Looked
<1>5. \A g \in AllIds \ S : Unlooked(g)
  BY <1>1 DEF Announced, Unlooked
<1> QED
  BY <1>3, <1>4, <1>5 DEF Ids

LEMMA GoalSteps ==
  ASSUME Shape, [Next]_vars
  PROVE  \A g \in AllIds : GoalStep(g)
<1>1. /\ goal \in [Ids -> GoalRecord] /\ LastGoalId \in Nat /\ Ids = 1..LastGoalId
      /\ LastGoalId <= MaxGoals /\ MaxGoals \in Nat /\ AllIds = 1..MaxGoals
  BY GoalFacts DEF Shape, TypeOK, AllIds
<1>2. CASE UNCHANGED <<goal, GoalClosedAt, Certificate>>
           /\ \A g \in AllIds : triggered[g] \subseteq triggered'[g]
  BY <1>2 DEF GoalStep, Unlooked, Left, Ids
<1>3. CASE CreateStep
  <2>0. PICK n \in Nat :
          \E created : Creation(n, created) /\ CheckMilestones(Joined(created), DOMAIN created)
    BY <1>3 DEF CreateStep
  <2>1. PICK created :
          Creation(n, created) /\ CheckMilestones(Joined(created), DOMAIN created)
    BY <2>0
  <2>2. LastGoalId + n <= MaxGoals
    BY <2>1 DEF Creation
  <2>3. /\ Ids' = 1..(LastGoalId + n)
        /\ \A g \in DOMAIN created : Looked(g)
        /\ \A g \in (1..(LastGoalId + n)) \ DOMAIN created : goal'[g] = Joined(created)[g]
        /\ \A g \in AllIds \ DOMAIN created : Unlooked(g)
    BY <2>1, <2>2, JoinedType, LookedAfterCheck
  <2>4. DOMAIN created = (LastGoalId + 1)..(LastGoalId + n)
    BY <2>1 DEF Creation
  <2>5. \A g \in Ids' \ DOMAIN created : g \in Ids /\ goal'[g] = goal[g]
    <3>1. \A g \in Ids' \ DOMAIN created : g \in Ids /\ g \in (1..(LastGoalId + n)) \ DOMAIN created
      BY <1>1, <2>3, <2>4
    <3>2. \A g \in Ids : Joined(created)[g] = goal[g]
      BY DEF Joined
    <3> QED
      BY <2>3, <3>1, <3>2
  <2>6. \A g \in Ids' \ DOMAIN created : Left(g)
    BY <2>5 DEF Left
  <2>7. DOMAIN created \subseteq Ids'
    BY <1>1, <2>3, <2>4
  <2> QED
    BY <2>3, <2>6, <2>7 DEF GoalStep
<1>4. CASE CloneStep
  <2>1. PICK created : /\ Creation(1, created) /\ goal' = Joined(created)
                       /\ created[LastGoalId + 1].current_amount = 0
                       /\ ~created[LastGoalId + 1].is_complete
                       /\ UNCHANGED <<triggered, GoalClosedAt, Certificate>>
    BY <1>4 DEF CloneStep
  <2>2. DOMAIN created = {LastGoalId + 1}
    BY <1>1, <2>1 DEF Creation
  <2>3. /\ DOMAIN goal' = Ids \cup {LastGoalId + 1}
        /\ \A g \in Ids : goal'[g] = goal[g]
    BY <2>1, <2>2 DEF Joined
  <2>4. goal'[LastGoalId + 1] = created[LastGoalId + 1]
    BY <1>1, <2>1, <2>2 DEF Joined
  <2>5. \A g \in Ids : Left(g)
    BY <2>3 DEF Left
  <2>6. Fresh(LastGoalId + 1)
    BY <2>1, <2>4 DEF Fresh
  <2>7. \A g \in AllIds : Unlooked(g)
    BY <2>1 DEF Unlooked
  <2> QED
    BY <2>3, <2>5, <2>6, <2>7 DEF GoalStep, Ids
<1>5. CASE RenameStep
  <2>1. PICK g \in Ids, name \in NewNames, r \in GoalRecord : Renamed(g, name, r)
    BY <1>5 DEF RenameStep
  <2>2. /\ r = [goal[g] EXCEPT !.goal_name = name] /\ goal' = [goal EXCEPT ![g] = r]
        /\ UNCHANGED <<triggered, GoalClosedAt, Certificate>>
    BY <2>1 DEF Renamed
  <2>3. PICK x \in GoalRecord : x = goal[g]
    BY <1>1
  <2>4. /\ r.current_amount = x.current_amount /\ r.target_amount = x.target_amount
        /\ r.is_complete = x.is_complete /\ r.is_active = x.is_active
    BY <2>2, <2>3 DEF GoalRecord
  <2>5. Ids' = Ids /\ goal'[g] = r /\ \A h \in Ids \ {g} : goal'[h] = goal[h]
    BY <1>1, <2>2 DEF Ids
  <2>6. \A h \in Ids : Left(h)
    BY <2>3, <2>4, <2>5 DEF Left
  <2> QED
    BY <2>2, <2>5, <2>6 DEF GoalStep, Unlooked
<1>6. CASE ContributeStep
  <2>0. PICK g \in Ids, k \in IdempotencyTokens : \E r, entry : Contributed(g, k, r, entry)
    BY <1>6 DEF ContributeStep
  <2>1. PICK r, entry : Contributed(g, k, r, entry)
    BY <2>0
  <2>2. [goal EXCEPT ![g] = r] \in [1..LastGoalId -> GoalRecord] /\ {g} \in SUBSET (1..LastGoalId)
        /\ CheckMilestones([goal EXCEPT ![g] = r], {g})
    BY <1>1, <2>1 DEF Contributed, Rebalanced
  <2>3. /\ Ids' = Ids /\ Looked(g) /\ \A h \in AllIds \ {g} : Unlooked(h)
        /\ \A h \in Ids \ {g} : goal'[h] = goal[h]
    BY <1>1, <2>2, LookedAfterCheck
  <2> QED
    BY <2>3 DEF GoalStep, Left
<1>7. CASE ReverseStep
  <2>0. PICK g \in Ids : \E c, r, entry : Reversed(g, c, r, entry)
    BY <1>7 DEF ReverseStep
  <2>1. PICK c, r, entry : Reversed(g, c, r, entry)
    BY <2>0
  <2>2. /\ c \in 1..Len(contributions[g]) /\ Rebalanced(g, r)
        /\ r.current_amount = goal[g].current_amount - contributions[g][c].amount
        /\ goal' = [goal EXCEPT ![g] = r]
        /\ UNCHANGED <<triggered, GoalClosedAt, Certificate>>
    BY <2>1 DEF Reversed
  <2>3. Ids' = Ids /\ goal'[g] = r /\ \A h \in Ids \ {g} : goal'[h] = goal[h]
    BY <1>1, <2>2 DEF Ids
  <2>4. Moved(g) /\ \A h \in Ids \ {g} : Left(h)
    BY <2>2, <2>3 DEF Left, Moved
  <2> QED
    BY <2>2, <2>3, <2>4 DEF GoalStep, Unlooked
<1>8. CASE WithdrawStep
  <2>1. PICK g \in Ids, r \in GoalRecord :
          /\ Lowered(g, r) /\ goal' = [goal EXCEPT ![g] = r]
          /\ UNCHANGED <<triggered, GoalClosedAt, Certificate>>
    BY <1>8 DEF WithdrawStep
  <2>2. Ids' = Ids /\ goal'[g] = r /\ \A h \in Ids \ {g} : goal'[h] = goal[h]
    BY <1>1, <2>1 DEF Ids
  <2>3. Moved(g) /\ \A h \in Ids \ {g} : Left(h)
    BY <2>1, <2>2 DEF Left, Moved, Lowered
  <2> QED
    BY <2>1, <2>2, <2>3 DEF GoalStep, Unlooked
<1>9. CASE PartialStep
  <2>1. PICK g \in Ids, r \in GoalRecord :
          Lowered(g, r) /\ CheckMilestones([goal EXCEPT ![g] = r], {g})
    BY <1>9 DEF PartialStep
  <2>2. [goal EXCEPT ![g] = r] \in [1..LastGoalId -> GoalRecord] /\ {g} \in SUBSET (1..LastGoalId)
    BY <1>1
  <2>3. /\ Ids' = Ids /\ Looked(g) /\ \A h \in AllIds \ {g} : Unlooked(h)
        /\ \A h \in Ids \ {g} : goal'[h] = goal[h]
    BY <1>1, <2>1, <2>2, LookedAfterCheck
  <2> QED
    BY <2>3 DEF GoalStep, Left
<1>10. CASE MergeStep
  <2>1. PICK s \in Ids, t \in Ids, rs \in GoalRecord, rt \in GoalRecord : Merged(s, t, rs, rt)
    BY <1>10 DEF MergeStep
  <2> DEFINE G == [[goal EXCEPT ![s] = rs] EXCEPT ![t] = rt]
  <2>2. G \in [1..LastGoalId -> GoalRecord] /\ {t} \in SUBSET (1..LastGoalId)
        /\ CheckMilestones(G, {t}) /\ s # t
    BY <1>1, <2>1 DEF Merged
  <2>3. G[s] = rs /\ \A h \in Ids \ {s, t} : G[h] = goal[h]
    BY <1>1, <2>2
  <2> HIDE DEF G
  <2>4. /\ Ids' = Ids /\ Looked(t) /\ \A h \in AllIds \ {t} : Unlooked(h)
        /\ \A h \in Ids \ {t} : goal'[h] = G[h]
    BY <1>1, <2>2, LookedAfterCheck
  <2>5. Emptied(s)
    BY <2>1, <2>2, <2>3, <2>4 DEF Merged, Emptied
  <2>6. \A h \in Ids \ {s, t} : Left(h)
    BY <2>3, <2>4 DEF Left
  <2> QED
    BY <2>4, <2>5, <2>6 DEF GoalStep
<1>11. CASE Quiet
  BY <1>2, <1>11 DEF Quiet
<1>12. CASE MarkStep
  BY <1>2, <1>12 DEF MarkStep
<1>13. CASE PrereqStep
  BY <1>2, <1>13 DEF PrereqStep
<1> QED
  BY <1>3, <1>4, <1>5, <1>6, <1>7, <1>8, <1>9, <1>10, <1>11, <1>12, <1>13, Steps

LEMMA CompletionNext ==
  ASSUME Shape, Shape', CompletionIsExact, \A g \in AllIds : GoalStep(g)
  PROVE  CompletionIsExact'
<1>1. SUFFICES ASSUME NEW g \in Ids'
               PROVE  \/ goal'[g].is_complete = Filled(goal'[g])
                      \/ goal'[g].is_complete /\ ~goal'[g].is_active /\ goal'[g].current_amount = 0
  BY DEF CompletionIsExact
<1>2. goal'[g] \in GoalRecord /\ g \in AllIds /\ GoalStep(g)
  <2>1. /\ goal' \in [1..LastGoalId' -> GoalRecord] /\ LastGoalId' \in 0..MaxGoals
    BY DEF Shape, TypeOK
  <2>2. g \in 1..LastGoalId' /\ g \in AllIds
    BY <2>1, BoundAssumption DEF Ids, AllIds
  <2> QED
    BY <2>1, <2>2
<1>3. goal'[g].target_amount \in Nat \ {0} /\ goal'[g].is_complete \in BOOLEAN
  BY <1>2 DEF GoalRecord
<1>4. CASE Looked(g)
  BY <1>4, CheckedFacts DEF Looked, Filled
<1>5. CASE Left(g)
  BY <1>5 DEF Left, Filled, CompletionIsExact
<1>6. CASE Moved(g)
  BY <1>6 DEF Moved, Rebalanced
<1>7. CASE Emptied(g)
  <2>1. goal[g].is_complete = Filled(goal[g])
    BY <1>7 DEF CompletionIsExact, Emptied
  <2>2. Filled(goal'[g]) = FALSE
    BY <1>3, <1>7 DEF Emptied, Filled
  <2>3. goal'[g].is_complete = goal[g].is_complete /\ ~goal'[g].is_active
        /\ goal'[g].current_amount = 0
    BY <1>7 DEF Emptied
  <2> QED
    BY <1>3, <2>2, <2>3
<1>8. CASE Fresh(g)
  <2>1. Filled(goal'[g]) = FALSE
    BY <1>3, <1>8 DEF Fresh, Filled
  <2> QED
    BY <1>3, <1>8, <2>1 DEF Fresh
<1> QED
  BY <1>2, <1>4, <1>5, <1>6, <1>7, <1>8 DEF GoalStep

LEMMA ClosedNext ==
  ASSUME Shape, Shape', ClosedIsCertified, \A g \in AllIds : GoalStep(g)
  PROVE  ClosedIsCertified'
<1>1. SUFFICES ASSUME NEW g \in AllIds, GoalClosedAt'[g] # None
               PROVE  Certificate'[g] # None /\ triggered'[g] = MILESTONES
  BY DEF ClosedIsCertified, AllIds
<1>2. triggered'[g] \subseteq MILESTONES /\ GoalStep(g)
  BY DEF Shape, AllIds
<1>3. CASE Unlooked(g)
  BY <1>1, <1>2, <1>3 DEF Unlooked, ClosedIsCertified
<1>4. CASE Looked(g)
  <2>1. PICK r \in GoalRecord :
          /\ triggered'[g] = triggered[g] \cup News(g, r)
          /\ GoalClosedAt'[g] = IF 100 \in News(g, r) /\ r.is_active THEN sequence
                                ELSE GoalClosedAt[g]
          /\ Certificate'[g] = IF 100 \in News(g, r) /\ Certificate[g] = None THEN timestamp
                               ELSE Certificate[g]
    BY <1>4 DEF Looked
  <2>2. timestamp # None
    BY BoundAssumption DEF Shape, TypeOK
  <2>3. CASE 100 \in News(g, r) /\ r.is_active
    <3>1. Certificate'[g] # None
      BY <2>1, <2>2, <2>3
    <3>2. r.current_amount \in Int /\ r.target_amount \in Nat \ {0}
      BY DEF GoalRecord
    <3>3. 100 \in ReachedBy(r.current_amount, r.target_amount)
      BY <2>3 DEF News
    <3>4. ReachedBy(r.current_amount, r.target_amount) = MILESTONES
      BY <3>2, <3>3, FullIsAll
    <3>5. MILESTONES \subseteq triggered'[g]
      BY <2>1, <3>4 DEF News
    <3> QED
      BY <1>2, <3>1, <3>5
  <2>4. CASE ~(100 \in News(g, r) /\ r.is_active)
    <3>1. GoalClosedAt[g] # None
      BY <1>1, <2>1, <2>4
    <3>2. Certificate[g] # None /\ triggered[g] = MILESTONES
      BY <3>1 DEF ClosedIsCertified
    <3> QED
      BY <1>2, <2>1, <2>2, <3>2
  <2> QED
    BY <2>3, <2>4
<1> QED
  BY <1>2, <1>3, <1>4 DEF GoalStep

\* A contribution to an overfull goal counts against it.  Its reversal raises
\* the balance and nothing is announced then, so it must all be announced before.
OverfullIsAnnounced ==
  \A g \in AllIds : \A c \in 1..Len(contributions[g]) :
    contributions[g][c].amount < 0 => triggered[g] = MILESTONES

LEMMA OverfullNext ==
  ASSUME Shape, Shape', [Next]_vars, PercentagesFit, MilestonesUpToDate, OverfullIsAnnounced,
         \A g \in AllIds : GoalStep(g)
  PROVE  OverfullIsAnnounced'
<1>1. /\ Ids \subseteq AllIds
      /\ contributions \in [AllIds -> Seq(ContributionRecord)]
      /\ triggered \in [AllIds -> SUBSET MILESTONES]
      /\ triggered' \in [AllIds -> SUBSET MILESTONES]
  BY GoalFacts DEF Shape
<1>2. ASSUME NEW g \in AllIds, triggered[g] = MILESTONES PROVE triggered'[g] = MILESTONES
  <2>1. triggered[g] \subseteq triggered'[g] /\ triggered'[g] \subseteq MILESTONES
    BY <1>1, <1>2 DEF GoalStep, Looked, Unlooked
  <2> QED
    BY <1>2, <2>1
<1>3. SUFFICES ASSUME NEW g \in AllIds, NEW c \in 1..Len(contributions'[g]),
                      contributions'[g][c].amount < 0
               PROVE  triggered[g] = MILESTONES
  BY <1>2 DEF OverfullIsAnnounced, AllIds
<1>4. PICK s \in Seq(ContributionRecord) : s = contributions[g]
  BY <1>1
<1>5. \A d \in 1..Len(s) : s[d].amount < 0 => triggered[g] = MILESTONES
  BY <1>4 DEF OverfullIsAnnounced
<1>6. CASE contributions'[g] = contributions[g]
  BY <1>3, <1>4, <1>5, <1>6
<1>7. CASE ContributeStep /\ contributions'[g] # contributions[g]
  <2>0. PICK h \in Ids, k \in IdempotencyTokens : \E r, entry : Contributed(h, k, r, entry)
    BY <1>7 DEF ContributeStep
  <2>1. PICK r, entry : Contributed(h, k, r, entry)
    BY <2>0
  <2>2. h = g
    BY <1>1, <1>7, <2>1 DEF Contributed
  <2>3. contributions'[g] = Append(s, entry) /\ entry \in ContributionRecord
    BY <1>1, <1>4, <2>1, <2>2 DEF Contributed
  <2>4. c \in 1..(Len(s) + 1)
    BY <2>3
  <2>5. CASE c # Len(s) + 1
    <3>1. c \in 1..Len(s)
      BY <2>4, <2>5
    <3>2. contributions'[g][c] = s[c]
      BY <2>3, <3>1
    <3> QED
      BY <1>3, <1>5, <3>1, <3>2
  <2>6. CASE c = Len(s) + 1
    <3>1. contributions'[g][c] = entry
      BY <2>3, <2>6
    <3>2. goal[g].current_amount > goal[g].target_amount /\ g \in Ids
      BY <1>3, <2>1, <2>2, <3>1 DEF Contributed
    <3>3. goal[g] \in GoalRecord
      BY <3>2, GoalFacts
    <3>4. goal[g].target_amount \in Nat \ {0} /\ goal[g].current_amount \in Int
      BY <3>3 DEF GoalRecord
    <3>5. PICK t \in Nat \ {0} : t = goal[g].target_amount
      BY <3>4
    <3>6. PICK d \in Nat : d = goal[g].current_amount /\ t <= d
      BY <3>2, <3>4, <3>5
    <3>7. (d * 100) \div t < U32
      BY <3>2, <3>5, <3>6 DEF PercentagesFit
    <3>8. ReachedBy(d, t) = MILESTONES
      BY <3>6, <3>7, FilledReachesAll
    <3>9. ReachedBy(d, t) \subseteq triggered[g]
      BY <3>2, <3>5, <3>6 DEF MilestonesUpToDate
    <3> QED
      BY <1>1, <3>8, <3>9
  <2> QED
    BY <2>5, <2>6
<1>8. CASE ReverseStep /\ contributions'[g] # contributions[g]
  <2>0. PICK h \in Ids : \E d, r, entry : Reversed(h, d, r, entry)
    BY <1>8 DEF ReverseStep
  <2>1. PICK d, r, entry : Reversed(h, d, r, entry)
    BY <2>0
  <2>2. h = g
    BY <1>1, <1>8, <2>1 DEF Reversed
  <2>3. /\ contributions'[g] = [s EXCEPT ![d] = entry]
        /\ d \in 1..Len(s) /\ entry.amount = s[d].amount
    BY <1>1, <1>4, <2>1, <2>2 DEF Reversed
  <2>4. Len(contributions'[g]) = Len(s)
    BY <2>3
  <2>5. contributions'[g][c].amount = s[c].amount
    BY <2>3, <2>4
  <2> QED
    BY <1>3, <1>5, <2>4, <2>5
<1>9. ContributeStep \/ ReverseStep \/ contributions' = contributions
  BY Steps DEF Quiet, CreateStep, CloneStep, Creation, RenameStep, Renamed, WithdrawStep,
    PartialStep, Lowered, MergeStep, Merged, MarkStep, PrereqStep
<1> QED
  BY <1>6, <1>7, <1>8, <1>9

LEMMA MilestonesNext ==
  ASSUME Shape, Shape', PercentagesFit, MilestonesUpToDate, OverfullIsAnnounced,
         \A g \in AllIds : GoalStep(g)
  PROVE  MilestonesUpToDate'
<1>1. SUFFICES ASSUME NEW g \in Ids', goal'[g].current_amount >= 0
               PROVE  ReachedBy(goal'[g].current_amount, goal'[g].target_amount)
                        \subseteq triggered'[g]
  BY DEF MilestonesUpToDate
<1>2. goal'[g] \in GoalRecord /\ g \in AllIds /\ GoalStep(g)
  <2>1. /\ goal' \in [1..LastGoalId' -> GoalRecord] /\ LastGoalId' \in 0..MaxGoals
    BY DEF Shape, TypeOK
  <2>2. g \in 1..LastGoalId' /\ g \in AllIds
    BY <2>1, BoundAssumption DEF Ids, AllIds
  <2> QED
    BY <2>1, <2>2
<1>3. /\ goal'[g].target_amount \in Nat \ {0} /\ goal'[g].current_amount \in Int
  BY <1>2 DEF GoalRecord
<1>4. CASE Looked(g)
  BY <1>4, CheckedFacts DEF Looked, News
<1>5. CASE Left(g) /\ Unlooked(g)
  BY <1>1, <1>5 DEF Left, Unlooked, MilestonesUpToDate
<1>6. CASE Moved(g) /\ Unlooked(g)
  <2>1. /\ g \in Ids /\ goal[g] \in GoalRecord /\ triggered[g] \subseteq triggered'[g]
        /\ goal'[g].target_amount = goal[g].target_amount
    BY <1>6, GoalFacts DEF Moved, Unlooked, Rebalanced
  <2>2. goal[g].current_amount \in Int
    BY <2>1 DEF GoalRecord
  <2>3. CASE goal'[g].current_amount <= goal[g].current_amount
    <3>1. PICK c \in Nat : c = goal'[g].current_amount
      BY <1>1, <1>3
    <3>2. PICK d \in Nat : d = goal[g].current_amount /\ c <= d
      BY <2>2, <2>3, <3>1
    <3>3. PICK t \in Nat \ {0} : t = goal[g].target_amount
      BY <1>3, <2>1
    <3>4. (d * 100) \div t < U32
      BY <2>1, <3>2, <3>3 DEF PercentagesFit
    <3>5. ReachedBy(d, t) \subseteq triggered[g]
      BY <2>1, <3>2, <3>3 DEF MilestonesUpToDate
    <3>6. ReachedBy(c, t) \subseteq ReachedBy(d, t)
      BY <3>2, <3>4, LowerReachesLess
    <3> QED
      BY <2>1, <3>1, <3>3, <3>5, <3>6
  <2>4. CASE ~(goal'[g].current_amount <= goal[g].current_amount)
    <3>1. PICK c \in 1..Len(contributions[g]) :
            goal'[g].current_amount = goal[g].current_amount - contributions[g][c].amount
      BY <1>3, <1>6, <2>2, <2>4 DEF Moved
    <3>2. contributions[g][c] \in ContributionRecord
      BY <1>2, SeqFacts DEF Shape
    <3>3. contributions[g][c].amount \in Int
      BY <3>2 DEF ContributionRecord
    <3>4. contributions[g][c].amount < 0
      BY <1>3, <2>2, <2>4, <3>1, <3>3
    <3>5. triggered[g] = MILESTONES
      BY <1>2, <3>4 DEF OverfullIsAnnounced
    <3> QED
      BY <2>1, <3>5 DEF ReachedBy
  <2> QED
    BY <2>3, <2>4
<1>7. CASE Emptied(g) \/ Fresh(g)
  BY <1>3, <1>7, NothingReachesNothing DEF Emptied, Fresh
<1> QED
  BY <1>1, <1>2, <1>4, <1>5, <1>6, <1>7 DEF GoalStep

\* The stored is_complete is the comparison of balance and target, but for a goal
\* a merge has emptied, and a goal that was ever closed has its certificate and
\* all its milestones: for every order of contributions, withdrawals, merges
\* and reversals, whatever the percentages are.
THEOREM FlagsAreExact == Spec => [](CompletionIsExact /\ ClosedIsCertified)
<1>1. Init => CompletionIsExact /\ ClosedIsCertified
  BY DEF Init, CompletionIsExact, ClosedIsCertified, Ids
<1>2. /\ Shape /\ Shape' /\ [Next]_vars /\ CompletionIsExact /\ ClosedIsCertified
      => CompletionIsExact' /\ ClosedIsCertified'
  BY GoalSteps, CompletionNext, ClosedNext
<1> QED
  BY <1>1, <1>2, ShapeHolds, PTL DEF Spec

\* As long as no percentage outgrows 32 bits, a goal that is not in debt has
\* announced every milestone its balance has reached, its flags are exact and its
\* closure is certified: check_and_emit_milestones is never one call behind.
THEOREM ProgressHolds == Spec /\ []PercentagesFit => []ProgressAgrees
<1>1. Init => MilestonesUpToDate /\ OverfullIsAnnounced
  <2>1. ASSUME Init PROVE MilestonesUpToDate /\ OverfullIsAnnounced
    <3>1. Ids = {} /\ \A g \in AllIds : Len(contributions[g]) = 0
      BY <2>1 DEF Init, Ids
    <3> QED
      BY <3>1 DEF MilestonesUpToDate, OverfullIsAnnounced
  <2> QED
    BY <2>1
<1>2. /\ Shape /\ Shape' /\ [Next]_vars /\ PercentagesFit
      /\ MilestonesUpToDate /\ OverfullIsAnnounced
      => MilestonesUpToDate' /\ OverfullIsAnnounced'
  BY GoalSteps, MilestonesNext, OverfullNext
<1>3. MilestonesUpToDate /\ CompletionIsExact /\ ClosedIsCertified => ProgressAgrees
  BY DEF ProgressAgrees
<1> QED
  BY <1>1, <1>2, <1>3, ShapeHolds, FlagsAreExact, PTL DEF Spec

------------------------------------------------------------------------------
\* Prerequisites.  The search follows the edges MaxGoals times; it has seen
\* everything by then, for it finds a new goal each time or never again.

Grown(X) == X \cup UNION {GoalPrereqs[h] : h \in X}
Closed(X) == \A h \in X : GoalPrereqs[h] \subseteq X

IsSearch(s, start, n) == s = [i \in 0..n |-> IF i = 0 THEN {start} ELSE Grown(s[i - 1])]

LEMMA GrownStays ==
  ASSUME Shape, NEW X \in SUBSET AllIds
  PROVE  /\ Grown(X) \in SUBSET AllIds /\ X \subseteq Grown(X)
         /\ Closed(X) <=> Grown(X) = X
<1>1. \A h \in X : GoalPrereqs[h] \subseteq AllIds
  BY GoalFacts DEF Shape
<1> QED
  BY <1>1 DEF Grown, Closed

LEMMA SearchExists ==
  ASSUME Shape, NEW start \in AllIds, NEW n \in Nat
  PROVE  \E s \in [0..n -> SUBSET AllIds] : IsSearch(s, start, n)
<1> DEFINE S == {k \in Nat : \E s \in [0..k -> SUBSET AllIds] : IsSearch(s, start, k)}
<1>1. 0 \in S
  <2> DEFINE s == [i \in 0..0 |-> {start}]
  <2>1. s \in [0..0 -> SUBSET AllIds] /\ IsSearch(s, start, 0)
    BY DEF IsSearch
  <2> QED
    BY <2>1
<1>2. ASSUME NEW k \in Nat, k \in S PROVE k + 1 \in S
  <2>1. PICK h \in [0..k -> SUBSET AllIds] : IsSearch(h, start, k)
    BY <1>2
  <2>2. Grown(h[k]) \in SUBSET AllIds
    BY <2>1, GrownStays
  <2> DEFINE s == [i \in 0..(k + 1) |-> IF i = k + 1 THEN Grown(h[k]) ELSE h[i]]
  <2>3. s \in [0..(k + 1) -> SUBSET AllIds]
    <3>1. ASSUME NEW i \in 0..(k + 1) PROVE s[i] \in SUBSET AllIds
      <4>1. CASE i = k + 1
        BY <2>2, <4>1
      <4>2. CASE i # k + 1
        <5>1. i \in 0..k
          BY <4>2
        <5> QED
          BY <2>1, <4>2, <5>1
      <4> QED
        BY <4>1, <4>2
    <3> QED
      BY <3>1
  <2>4. ASSUME NEW i \in 0..(k + 1)
        PROVE  s[i] = IF i = 0 THEN {start} ELSE Grown(s[i - 1])
    <3>1. CASE i = k + 1
      BY <3>1
    <3>2. CASE i # k + 1 /\ i # 0
      <4>1. i \in 0..k /\ i - 1 \in 0..k
        BY <3>2
      <4>2. h[i] = Grown(h[i - 1])
        BY <2>1, <4>1, <3>2 DEF IsSearch
      <4> QED
        BY <3>2, <4>1, <4>2
    <3>3. CASE i = 0
      BY <3>3, <2>1 DEF IsSearch
    <3> QED
      BY <3>1, <3>2, <3>3
  <2>5. IsSearch(s, start, k + 1)
    BY <2>4 DEF IsSearch
  <2>6. \E z \in [0..(k + 1) -> SUBSET AllIds] : IsSearch(z, start, k + 1)
    BY <2>3, <2>5
  <2> QED
    BY <2>6
<1> HIDE DEF S
<1>3. n \in S
  BY <1>1, <1>2, NatSetInduction
<1> QED
  BY <1>3 DEF S

\* Each round finds everything or one goal more.
LEMMA SearchCompletes ==
  ASSUME Shape, NEW start \in AllIds, NEW s, IsSearch(s, start, MaxGoals)
  PROVE  /\ s[MaxGoals] \in SUBSET AllIds
         /\ start \in s[MaxGoals] /\ Closed(s[MaxGoals])
<1>1. MaxGoals \in Nat /\ IsFiniteSet(AllIds) /\ Cardinality(AllIds) = MaxGoals
  BY BoundAssumption, FS_Interval DEF AllIds
<1> DEFINE S == {k \in Nat : k <= MaxGoals =>
                   /\ s[k] \in SUBSET AllIds /\ start \in s[k]
                   /\ Closed(s[k]) \/ Cardinality(s[k]) >= k + 1}
<1>2. 0 \in S
  <2>1. s[0] = {start}
    BY <1>1 DEF IsSearch
  <2>2. Cardinality({start}) = 1
    BY FS_Singleton
  <2> QED
    BY <2>1, <2>2
<1>3. ASSUME NEW k \in Nat, k \in S PROVE k + 1 \in S
  <2>1. SUFFICES ASSUME k + 1 <= MaxGoals
                 PROVE  /\ s[k + 1] \in SUBSET AllIds /\ start \in s[k + 1]
                        /\ Closed(s[k + 1]) \/ Cardinality(s[k + 1]) >= k + 2
    OBVIOUS
  <2>2. /\ s[k] \in SUBSET AllIds /\ start \in s[k]
        /\ Closed(s[k]) \/ Cardinality(s[k]) >= k + 1
    BY <1>1, <1>3, <2>1
  <2>3. s[k + 1] = Grown(s[k])
    <3>1. k + 1 \in 0..MaxGoals /\ k + 1 # 0 /\ (k + 1) - 1 = k
      BY <1>1, <2>1
    <3>2. s[k + 1] = IF k + 1 = 0 THEN {start} ELSE Grown(s[(k + 1) - 1])
      BY <3>1 DEF IsSearch
    <3> QED
      BY <3>1, <3>2
  <2>4. s[k + 1] \in SUBSET AllIds /\ s[k] \subseteq s[k + 1]
    BY <2>2, <2>3, GrownStays
  <2>5. CASE Closed(s[k])
    BY <2>2, <2>3, <2>5, GrownStays
  <2>6. CASE ~Closed(s[k])
    <3>1. s[k + 1] # s[k]
      BY <2>2, <2>3, <2>6, GrownStays
    <3>2. IsFiniteSet(s[k + 1])
      BY <1>1, <2>4, FS_Subset
    <3>3. /\ IsFiniteSet(s[k]) /\ Cardinality(s[k]) <= Cardinality(s[k + 1])
          /\ Cardinality(s[k + 1]) # Cardinality(s[k])
      BY <2>4, <3>1, <3>2, FS_Subset
    <3>4. Cardinality(s[k]) \in Nat /\ Cardinality(s[k + 1]) \in Nat
      BY <3>2, <3>3, FS_CardinalityType
    <3>5. Cardinality(s[k]) >= k + 1
      BY <2>2, <2>6
    <3>6. Cardinality(s[k + 1]) >= k + 2
      BY <3>3, <3>4, <3>5
    <3> QED
      BY <2>2, <2>4, <3>6
  <2> QED
    BY <2>5, <2>2, <2>4, <2>6
<1> HIDE DEF S
<1>4. MaxGoals \in S
  <2>1. \A k \in Nat : k \in S
    BY <1>2, <1>3, NatSetInduction
  <2> QED
    BY <1>1, <2>1
<1>5. /\ s[MaxGoals] \in SUBSET AllIds /\ start \in s[MaxGoals]
      /\ Closed(s[MaxGoals]) \/ Cardinality(s[MaxGoals]) >= MaxGoals + 1
  BY <1>1, <1>4 DEF S
<1>6. Cardinality(s[MaxGoals]) \in Nat /\ Cardinality(s[MaxGoals]) <= MaxGoals
  BY <1>1, <1>5, FS_Subset, FS_CardinalityType
<1> QED
  BY <1>1, <1>5, <1>6

\* has_dependency_path follows every path of prerequisites to its end.
LEMMA ReachableCloses ==
  ASSUME Shape, NEW start \in AllIds
  PROVE  start \in Reachable(start) /\ Closed(Reachable(start))
<1> DEFINE s == CHOOSE x : IsSearch(x, start, MaxGoals)
<1>1. IsSearch(s, start, MaxGoals)
  <2>1. \E x : IsSearch(x, start, MaxGoals)
    BY BoundAssumption, SearchExists
  <2> QED
    BY <2>1
<1>2. Reachable(start) = s[MaxGoals]
  BY DEF Reachable, IsSearch, Grown
<1> HIDE DEF s
<1> QED
  BY <1>1, <1>2, SearchCompletes

\* New prerequisites that do not lead back close no cycle.
LEMMA AcyclicStep ==
  ASSUME Shape, PrereqsAcyclic, PrereqStep
  PROVE  PrereqsAcyclic'
<1>1. PICK g \in Ids, ps \in SUBSET Ids :
        /\ g \notin ps /\ \A p \in ps : g \notin Reachable(p)
        /\ GoalPrereqs' = [GoalPrereqs EXCEPT ![g] = ps] /\ goal' = goal
  BY DEF PrereqStep
<1>2. Ids' = Ids /\ Ids \subseteq AllIds /\ GoalPrereqs \in [AllIds -> SUBSET Ids]
  BY <1>1, GoalFacts DEF Ids, Shape
<1>3. SUFFICES ASSUME NEW S \in (SUBSET Ids) \ {{}},
                      \A h \in S : GoalPrereqs'[h] \cap S # {}
               PROVE  FALSE
  BY <1>2 DEF PrereqsAcyclic
<1>4. \A h \in S \ {g} : GoalPrereqs'[h] = GoalPrereqs[h]
  BY <1>1, <1>2
<1>5. PICK h \in S : GoalPrereqs[h] \cap S = {}
  BY DEF PrereqsAcyclic
<1>6. h = g /\ GoalPrereqs'[g] = ps
  BY <1>1, <1>2, <1>3, <1>4, <1>5
<1>7. PICK p \in S : p \in ps
  BY <1>3, <1>6
<1> DEFINE T == S \cap Reachable(p)
<1>8. p \in Reachable(p) /\ Closed(Reachable(p)) /\ g \notin Reachable(p)
  BY <1>1, <1>2, <1>7, ReachableCloses
<1>9. ASSUME NEW i \in T PROVE GoalPrereqs[i] \cap T # {}
  <2>1. i \in S \ {g} /\ GoalPrereqs[i] = GoalPrereqs'[i] /\ i \in Reachable(p)
    BY <1>4, <1>8
  <2>2. PICK q \in S : q \in GoalPrereqs[i]
    BY <1>3, <2>1
  <2>3. q \in Reachable(p)
    BY <1>8, <2>1, <2>2 DEF Closed
  <2> QED
    BY <2>2, <2>3
<1>10. T \in (SUBSET Ids) \ {{}}
  BY <1>7, <1>8
<1> HIDE DEF T
<1> QED
  BY <1>9, <1>10 DEF PrereqsAcyclic

\* A new goal waits for nobody.
LEMMA AcyclicCreation ==
  ASSUME Shape, PrereqsAcyclic, GoalPrereqs' = GoalPrereqs, Ids \subseteq Ids',
         \A g \in Ids' \ Ids : GoalPrereqs[g] = {}
  PROVE  PrereqsAcyclic'
<1>1. SUFFICES ASSUME NEW S \in (SUBSET Ids') \ {{}}
               PROVE  \E g \in S : GoalPrereqs[g] \cap S = {}
  BY DEF PrereqsAcyclic
<1>2. CASE S \subseteq Ids
  BY <1>2 DEF PrereqsAcyclic
<1>3. CASE ~(S \subseteq Ids)
  BY <1>3
<1> QED
  BY <1>2, <1>3

\* Only goals there are have prerequisites.
OnlyGoalsWait == \A g \in AllIds \ Ids : GoalPrereqs[g] = {}

LEMMA PrereqsNext ==
  ASSUME Shape, Shape', PrereqsAcyclic, OnlyGoalsWait, [Next]_vars
  PROVE  PrereqsAcyclic' /\ OnlyGoalsWait'
<1>1. /\ LastGoalId \in Nat /\ Ids = 1..LastGoalId /\ Ids \subseteq AllIds
      /\ GoalPrereqs \in [AllIds -> SUBSET Ids] /\ AllIds' = AllIds
      /\ goal \in [Ids -> GoalRecord]
  BY GoalFacts DEF Shape, TypeOK, AllIds
<1>2. Ids' \subseteq AllIds
  <2>1. goal' \in [1..LastGoalId' -> GoalRecord] /\ LastGoalId' \in 0..MaxGoals
    BY DEF Shape, TypeOK
  <2> QED
    BY <2>1, BoundAssumption DEF Ids, AllIds
<1>3. CASE PrereqStep
  <2>1. PICK g \in Ids, ps \in SUBSET Ids :
          GoalPrereqs' = [GoalPrereqs EXCEPT ![g] = ps] /\ goal' = goal
    BY <1>3 DEF PrereqStep
  <2>2. \A h \in AllIds \ Ids : GoalPrereqs'[h] = GoalPrereqs[h]
    BY <1>1, <2>1
  <2>3. OnlyGoalsWait'
    BY <1>1, <2>1, <2>2 DEF OnlyGoalsWait, Ids
  <2> QED
    BY <1>3, <2>3, AcyclicStep
<1>4. CASE GoalPrereqs' = GoalPrereqs /\ Ids \subseteq Ids'
  <2>1. \A g \in Ids' \ Ids : GoalPrereqs[g] = {}
    BY <1>2 DEF OnlyGoalsWait
  <2>2. OnlyGoalsWait'
    BY <1>1, <1>4 DEF OnlyGoalsWait
  <2> QED
    BY <1>4, <2>1, <2>2, AcyclicCreation
<1>5. Quiet \/ RenameStep \/ ReverseStep \/ WithdrawStep \/ MarkStep
      => GoalPrereqs' = GoalPrereqs /\ Ids' = Ids
  BY <1>1 DEF Quiet, RenameStep, Renamed, ReverseStep, Reversed, WithdrawStep, Lowered,
     MarkStep, Elsewhere, Ids
<1>6. CASE CreateStep
  <2>0. PICK n \in Nat :
          \E created : Creation(n, created) /\ CheckMilestones(Joined(created), DOMAIN created)
    BY <1>6 DEF CreateStep
  <2>1. PICK created :
          Creation(n, created) /\ CheckMilestones(Joined(created), DOMAIN created)
    BY <2>0
  <2>2. LastGoalId + n <= MaxGoals /\ GoalPrereqs' = GoalPrereqs
    BY <2>1 DEF Creation
  <2>3. Ids' = 1..(LastGoalId + n)
    BY <2>1, <2>2, JoinedType, LookedAfterCheck
  <2> QED
    BY <1>1, <1>4, <2>2, <2>3
<1>7. CASE CloneStep
  <2>1. PICK created : Creation(1, created) /\ goal' = Joined(created)
    BY <1>7 DEF CloneStep
  <2>2. Ids \subseteq Ids' /\ GoalPrereqs' = GoalPrereqs
    BY <2>1 DEF Joined, Creation, Ids
  <2> QED
    BY <1>4, <2>2
<1>8. CASE ContributeStep \/ PartialStep \/ MergeStep
  <2>1. GoalPrereqs' = GoalPrereqs /\ LastGoalId' = LastGoalId
    BY <1>8 DEF ContributeStep, Contributed, PartialStep, Lowered, MergeStep, Merged, Elsewhere
  <2>2. Ids' = 1..LastGoalId'
    BY DEF Ids, Shape, TypeOK
  <2> QED
    BY <1>1, <1>4, <2>1, <2>2
<1> QED
  BY <1>3, <1>4, <1>5, <1>6, <1>7, <1>8, Steps

\* Prerequisites never form a cycle, however they are set and changed: in every
\* set of goals one waits for none of the others, so no goal waits, directly or
\* not, for itself.
THEOREM PrereqsStayAcyclic == Spec => []PrereqsAcyclic
<1>1. Init => PrereqsAcyclic /\ OnlyGoalsWait
  BY DEF Init, PrereqsAcyclic, OnlyGoalsWait, Ids
<1>2. /\ Shape /\ Shape' /\ PrereqsAcyclic /\ OnlyGoalsWait /\ [Next]_vars
      => PrereqsAcyclic' /\ OnlyGoalsWait'
  BY PrereqsNext
<1> QED
  BY <1>1, <1>2, ShapeHolds, PTL DEF Spec

------------------------------------------------------------------------------
\* Contributions and balances.

\* What the contribution records of one goal amount to.
Counted(s) == [c \in DOMAIN s |-> IF s[c].reversed THEN 0 ELSE s[c].amount]
Net(s) == SumTo(Counted(s), Len(s))

LEMMA CountedType ==
  ASSUME NEW s \in Seq(ContributionRecord)
  PROVE  /\ Len(s) \in Nat /\ DOMAIN Counted(s) = 1..Len(s)
         /\ \A c \in 1..Len(s) : /\ Counted(s)[c] = IF s[c].reversed THEN 0 ELSE s[c].amount
                                 /\ Counted(s)[c] \in Int
         /\ Net(s) \in Int
<1>1. Len(s) \in Nat /\ DOMAIN s = 1..Len(s) /\ \A c \in 1..Len(s) : s[c] \in ContributionRecord
  BY SeqFacts
<1>2. \A c \in 1..Len(s) : s[c].amount \in Int
  BY <1>1 DEF ContributionRecord
<1>3. \A c \in 1..Len(s) : /\ Counted(s)[c] = IF s[c].reversed THEN 0 ELSE s[c].amount
                           /\ Counted(s)[c] \in Int
  BY <1>1, <1>2 DEF Counted
<1>4. Net(s) \in Int
  BY <1>1, <1>3, SumType DEF Net
<1>5. DOMAIN Counted(s) = 1..Len(s)
  BY <1>1 DEF Counted
<1> QED
  BY <1>1, <1>3, <1>4, <1>5

LEMMA NetAppended ==
  ASSUME NEW s \in Seq(ContributionRecord), NEW e \in ContributionRecord, ~e.reversed
  PROVE  Net(Append(s, e)) = Net(s) + e.amount
<1>1. PICK t \in Seq(ContributionRecord) : t = Append(s, e)
  <2>1. Append(s, e) \in Seq(ContributionRecord)
    OBVIOUS
  <2> QED
    BY <2>1
<1>2. PICK n \in Nat : n = Len(s)
  OBVIOUS
<1>3. Len(t) = n + 1 /\ t[n + 1] = e /\ \A c \in 1..n : t[c] = s[c]
  BY <1>1, <1>2
<1>4. \A c \in 1..(n + 1) : Counted(t)[c] \in Int
  BY <1>3, CountedType
<1>5. SumTo(Counted(t), n + 1) = SumTo(Counted(t), n) + Counted(t)[n + 1]
  BY <1>4, SumStep
<1>6. \A c \in 1..n : Counted(s)[c] \in Int /\ Counted(s)[c] = Counted(t)[c]
  <2>1. ASSUME NEW c \in 1..n PROVE Counted(s)[c] \in Int /\ Counted(s)[c] = Counted(t)[c]
    <3>1. c \in 1..Len(s) /\ c \in 1..Len(t) /\ t[c] = s[c]
      BY <1>2, <1>3
    <3> QED
      BY <3>1, CountedType
  <2> QED
    BY <2>1
<1>7. SumTo(Counted(s), n) = SumTo(Counted(t), n)
  BY <1>6, SumCongruence
<1>8. n + 1 \in 1..Len(t)
  BY <1>3
<1>9. Counted(t)[n + 1] = e.amount
  BY <1>3, <1>8, CountedType
<1> QED
  BY <1>1, <1>2, <1>3, <1>5, <1>7, <1>9 DEF Net

LEMMA NetReversed ==
  ASSUME NEW s \in Seq(ContributionRecord), NEW c \in 1..Len(s), ~s[c].reversed,
         NEW e \in ContributionRecord, e.reversed
  PROVE  Net([s EXCEPT ![c] = e]) = Net(s) - s[c].amount
<1>1. PICK t \in Seq(ContributionRecord) : t = [s EXCEPT ![c] = e]
  <2>1. [s EXCEPT ![c] = e] \in Seq(ContributionRecord)
    OBVIOUS
  <2> QED
    BY <2>1
<1>2. PICK n \in Nat : n = Len(s) /\ c \in 1..n
  OBVIOUS
<1>3. Len(t) = n /\ t[c] = e /\ \A d \in 1..n : d # c => t[d] = s[d]
  BY <1>1, <1>2
<1>4. \A d \in 1..n : Counted(s)[d] \in Int /\ Counted(t)[d] \in Int
  BY <1>2, <1>3, CountedType
<1>5. \A d \in 1..n : d # c => Counted(s)[d] = Counted(t)[d]
  BY <1>2, <1>3, CountedType
<1>6. SumTo(Counted(t), n) = SumTo(Counted(s), n) + Counted(t)[c] - Counted(s)[c]
  BY <1>2, <1>4, <1>5, SumPoint
<1>7. Counted(t)[c] = 0 /\ Counted(s)[c] = s[c].amount
  BY <1>2, <1>3, CountedType
<1>8. s[c].amount \in Int /\ SumTo(Counted(s), n) \in Int
  BY <1>2, <1>4, <1>7, CountedType DEF Net
<1> QED
  BY <1>1, <1>2, <1>3, <1>6, <1>7, <1>8 DEF Net

LEMMA RestType ==
  ASSUME Shape, NEW g \in Ids
  PROVE  /\ Rest(g) = goal[g].current_amount - Net(contributions[g])
         /\ goal[g].current_amount \in Int /\ Net(contributions[g]) \in Int /\ Rest(g) \in Int
<1>1. goal[g] \in GoalRecord /\ g \in AllIds /\ contributions[g] \in Seq(ContributionRecord)
  BY GoalFacts DEF Shape
<1>2. goal[g].current_amount \in Int /\ Net(contributions[g]) \in Int
  BY <1>1, CountedType DEF GoalRecord
<1>3. Rest(g) = goal[g].current_amount - Net(contributions[g])
  BY DEF Rest, Net, Counted
<1> QED
  BY <1>2, <1>3

LEMMA RestAfter ==
  ASSUME Shape', NEW g \in Ids'
  PROVE  /\ Rest(g)' = goal'[g].current_amount - Net(contributions'[g])
         /\ goal'[g].current_amount \in Int /\ Net(contributions'[g]) \in Int /\ Rest(g)' \in Int
<1>1. goal'[g] \in GoalRecord /\ contributions'[g] \in Seq(ContributionRecord)
  <2>1. /\ goal' \in [1..LastGoalId' -> GoalRecord] /\ LastGoalId' \in 0..MaxGoals
        /\ contributions' \in [AllIds -> Seq(ContributionRecord)]
    BY DEF Shape, TypeOK, AllIds
  <2>2. g \in 1..LastGoalId' /\ g \in AllIds
    BY <2>1, BoundAssumption DEF Ids, AllIds
  <2> QED
    BY <2>1, <2>2
<1>2. goal'[g].current_amount \in Int /\ Net(contributions'[g]) \in Int
  BY <1>1, CountedType DEF GoalRecord
<1>3. Rest(g)' = goal'[g].current_amount - Net(contributions'[g])
  BY DEF Rest, Net, Counted
<1> QED
  BY <1>2, <1>3

\* What a step moves: a contribution or a reversal on one goal, a merge of two
\* active goals, or nothing but withdrawals from open ones.
Kept(g) == goal'[g].current_amount = goal[g].current_amount
Booked(g) ==
  /\ contributions'[g] # contributions[g]
  /\ goal'[g].current_amount - goal[g].current_amount
       = Net(contributions'[g]) - Net(contributions[g])
  /\ \A h \in Ids \ {g} : Kept(h) /\ contributions'[h] = contributions[h]
Pooled(s, t) ==
  /\ s # t /\ goal[s].is_active /\ goal[t].is_active
  /\ goal'[s].current_amount = 0
  /\ goal'[t].current_amount = goal[t].current_amount + goal[s].current_amount
  /\ \A h \in Ids \ {s, t} : Kept(h)
  /\ contributions' = contributions
Spent ==
  /\ \A h \in Ids : Kept(h) \/ /\ IsOpen(goal[h])
                               /\ goal'[h].current_amount < goal[h].current_amount
  /\ contributions' = contributions

LEMMA Movements ==
  ASSUME Shape, [Next]_vars
  PROVE  /\ Ids \subseteq Ids'
         /\ (\E g \in Ids : Booked(g)) \/ (\E s, t \in Ids : Pooled(s, t)) \/ Spent
<1>1. /\ goal \in [Ids -> GoalRecord] /\ LastGoalId \in Nat /\ Ids = 1..LastGoalId
      /\ LastGoalId <= MaxGoals /\ MaxGoals \in Nat /\ Ids \subseteq AllIds
      /\ contributions \in [AllIds -> Seq(ContributionRecord)]
  BY GoalFacts DEF Shape, TypeOK
<1>2. CASE UNCHANGED <<goal, contributions>>
  BY <1>2 DEF Spent, Kept, Ids
<1>3. CASE CreateStep
  <2>0. PICK n \in Nat :
          \E created : Creation(n, created) /\ CheckMilestones(Joined(created), DOMAIN created)
    BY <1>3 DEF CreateStep
  <2>1. PICK created :
          Creation(n, created) /\ CheckMilestones(Joined(created), DOMAIN created)
    BY <2>0
  <2>2. LastGoalId + n <= MaxGoals /\ contributions' = contributions
        /\ DOMAIN created = (LastGoalId + 1)..(LastGoalId + n)
    BY <2>1 DEF Creation
  <2>3. /\ Ids' = 1..(LastGoalId + n)
        /\ \A g \in (1..(LastGoalId + n)) \ DOMAIN created : goal'[g] = Joined(created)[g]
    BY <2>1, <2>2, JoinedType, LookedAfterCheck
  <2>4. \A g \in Ids : g \in Ids' /\ g \in (1..(LastGoalId + n)) \ DOMAIN created
    BY <1>1, <2>2, <2>3
  <2>5. \A g \in Ids : Joined(created)[g] = goal[g]
    BY DEF Joined
  <2> QED
    BY <2>2, <2>3, <2>4, <2>5 DEF Spent, Kept
<1>4. CASE CloneStep
  <2>1. PICK created : Creation(1, created) /\ goal' = Joined(created)
    BY <1>4 DEF CloneStep
  <2>2. contributions' = contributions
    BY <2>1 DEF Creation
  <2>3. Ids \subseteq Ids' /\ \A g \in Ids : goal'[g] = goal[g]
    BY <2>1 DEF Joined, Ids
  <2> QED
    BY <2>2, <2>3 DEF Spent, Kept
<1>5. CASE RenameStep
  <2>1. PICK g \in Ids, name \in NewNames, r \in GoalRecord : Renamed(g, name, r)
    BY <1>5 DEF RenameStep
  <2>2. PICK x \in GoalRecord : x = goal[g]
    BY <1>1
  <2>3. r = [x EXCEPT !.goal_name = name] /\ goal' = [goal EXCEPT ![g] = r]
        /\ contributions' = contributions
    BY <2>1, <2>2 DEF Renamed
  <2>4. r.current_amount = goal[g].current_amount
    BY <2>2, <2>3 DEF GoalRecord
  <2>5. Ids' = Ids /\ \A h \in Ids : Kept(h)
    BY <1>1, <2>3, <2>4 DEF Kept, Ids
  <2> QED
    BY <2>3, <2>5 DEF Spent
<1>6. CASE ContributeStep
  <2>0. PICK g \in Ids, k \in IdempotencyTokens : \E r, entry : Contributed(g, k, r, entry)
    BY <1>6 DEF ContributeStep
  <2>1. PICK r, entry : Contributed(g, k, r, entry)
    BY <2>0
  <2>2. PICK s \in Seq(ContributionRecord) : s = contributions[g]
    BY <1>1
  <2>3. /\ [goal EXCEPT ![g] = r] \in [1..LastGoalId -> GoalRecord] /\ {g} \in SUBSET (1..LastGoalId)
        /\ CheckMilestones([goal EXCEPT ![g] = r], {g})
        /\ r \in GoalRecord /\ entry \in ContributionRecord /\ ~entry.reversed
        /\ entry.amount = r.current_amount - goal[g].current_amount
        /\ contributions' = [contributions EXCEPT ![g] = Append(contributions[g], entry)]
    BY <1>1, <2>1 DEF Contributed, Rebalanced
  <2>4. /\ Ids' = Ids /\ \A h \in Ids \ {g} : goal'[h] = goal[h]
    BY <1>1, <2>3, LookedAfterCheck
  <2>5. goal'[g].current_amount = r.current_amount
    <3>1. Announced([goal EXCEPT ![g] = r], {g})
      BY <1>1, <2>3, CheckEffect
    <3>2. goal'[g] = Checked(g, r)
      BY <1>1, <3>1 DEF Announced
    <3> QED
      BY <2>3, <3>2, CheckedFacts
  <2>6. contributions'[g] = Append(s, entry) /\ \A h \in Ids \ {g} : contributions'[h] = contributions[h]
    BY <1>1, <2>2, <2>3
  <2>7. Net(Append(s, entry)) = Net(s) + entry.amount
    BY <2>3, NetAppended
  <2>8. Append(s, entry) # s
    <3>1. Len(Append(s, entry)) # Len(s)
      OBVIOUS
    <3> QED
      BY <3>1
  <2>9. Net(s) \in Int /\ goal[g].current_amount \in Int /\ r.current_amount \in Int
    BY <1>1, <2>3, CountedType DEF GoalRecord
  <2>10. r.current_amount - goal[g].current_amount = Net(Append(s, entry)) - Net(s)
    BY <2>3, <2>7, <2>9
  <2>11. Booked(g)
    BY <2>2, <2>4, <2>5, <2>6, <2>8, <2>10 DEF Booked, Kept
  <2> QED
    BY <2>4, <2>11
<1>7. CASE ReverseStep
  <2>0. PICK g \in Ids : \E c, r, entry : Reversed(g, c, r, entry)
    BY <1>7 DEF ReverseStep
  <2>1. PICK c, r, entry : Reversed(g, c, r, entry)
    BY <2>0
  <2>2. PICK s \in Seq(ContributionRecord) : s = contributions[g]
    BY <1>1
  <2>3. /\ c \in 1..Len(s) /\ ~s[c].reversed /\ r \in GoalRecord
        /\ r.current_amount = goal[g].current_amount - s[c].amount
        /\ goal' = [goal EXCEPT ![g] = r]
        /\ entry \in ContributionRecord /\ entry.reversed
        /\ contributions' = [contributions EXCEPT ![g] = [s EXCEPT ![c] = entry]]
    BY <2>1, <2>2 DEF Reversed, Rebalanced
  <2>4. Ids' = Ids /\ goal'[g] = r /\ \A h \in Ids \ {g} : goal'[h] = goal[h]
    BY <1>1, <2>3 DEF Ids
  <2>5. /\ contributions'[g] = [s EXCEPT ![c] = entry]
        /\ \A h \in Ids \ {g} : contributions'[h] = contributions[h]
    BY <1>1, <2>3
  <2>6. Net([s EXCEPT ![c] = entry]) = Net(s) - s[c].amount
    BY <2>3, NetReversed
  <2>7. [s EXCEPT ![c] = entry] # s
    <3>1. [s EXCEPT ![c] = entry][c] = entry
      BY <2>3
    <3> QED
      BY <2>3, <3>1
  <2>8. Net(s) \in Int /\ goal[g].current_amount \in Int /\ s[c].amount \in Int
    <3>1. s[c] \in ContributionRecord
      BY <2>3, SeqFacts
    <3> QED
      BY <1>1, <3>1, CountedType DEF GoalRecord, ContributionRecord
  <2>9. r.current_amount - goal[g].current_amount = Net([s EXCEPT ![c] = entry]) - Net(s)
    BY <2>3, <2>6, <2>8
  <2>10. Booked(g)
    BY <2>2, <2>4, <2>5, <2>7, <2>9 DEF Booked, Kept
  <2> QED
    BY <2>4, <2>10
<1>8. CASE WithdrawStep
  <2>1. PICK g \in Ids, r \in GoalRecord : Lowered(g, r) /\ goal' = [goal EXCEPT ![g] = r]
    BY <1>8 DEF WithdrawStep
  <2>2. Ids' = Ids /\ goal'[g] = r /\ \A h \in Ids \ {g} : goal'[h] = goal[h]
    BY <1>1, <2>1 DEF Ids
  <2> QED
    BY <2>1, <2>2 DEF Spent, Kept, Lowered
<1>9. CASE PartialStep
  <2>1. PICK g \in Ids, r \in GoalRecord :
          Lowered(g, r) /\ CheckMilestones([goal EXCEPT ![g] = r], {g})
    BY <1>9 DEF PartialStep
  <2>2. [goal EXCEPT ![g] = r] \in [1..LastGoalId -> GoalRecord] /\ {g} \in SUBSET (1..LastGoalId)
    BY <1>1
  <2>3. Ids' = Ids /\ \A h \in Ids \ {g} : goal'[h] = goal[h]
    BY <1>1, <2>1, <2>2, LookedAfterCheck
  <2>4. goal'[g].current_amount = r.current_amount
    <3>1. Announced([goal EXCEPT ![g] = r], {g})
      BY <1>1, <2>1, <2>2, CheckEffect
    <3>2. goal'[g] = Checked(g, r)
      BY <1>1, <3>1 DEF Announced
    <3> QED
      BY <3>2, CheckedFacts
  <2> QED
    BY <2>1, <2>3, <2>4 DEF Spent, Kept, Lowered
<1>10. CASE MergeStep
  <2>1. PICK s \in Ids, t \in Ids, rs \in GoalRecord, rt \in GoalRecord : Merged(s, t, rs, rt)
    BY <1>10 DEF MergeStep
  <2> DEFINE G == [[goal EXCEPT ![s] = rs] EXCEPT ![t] = rt]
  <2>2. G \in [1..LastGoalId -> GoalRecord] /\ {t} \in SUBSET (1..LastGoalId)
        /\ CheckMilestones(G, {t}) /\ s # t
    BY <1>1, <2>1 DEF Merged
  <2>3. G[s] = rs /\ G[t] = rt /\ \A h \in Ids \ {s, t} : G[h] = goal[h]
    BY <1>1, <2>2
  <2> HIDE DEF G
  <2>4. Ids' = Ids /\ \A h \in Ids \ {t} : goal'[h] = G[h]
    BY <1>1, <2>2, LookedAfterCheck
  <2>5. goal'[t].current_amount = rt.current_amount
    <3>1. Announced(G, {t})
      BY <1>1, <2>2, CheckEffect
    <3>2. goal'[t] = Checked(t, rt)
      BY <1>1, <2>2, <2>3, <3>1 DEF Announced
    <3> QED
      BY <3>2, CheckedFacts
  <2>6. goal'[s] = rs /\ \A h \in Ids \ {s, t} : goal'[h] = goal[h]
    BY <2>2, <2>3, <2>4
  <2>7. Pooled(s, t)
    BY <2>1, <2>2, <2>5, <2>6 DEF Pooled, Merged, Kept
  <2> QED
    BY <2>4, <2>7
<1>11. CASE Quiet
  BY <1>2, <1>11 DEF Quiet
<1>12. CASE MarkStep
  BY <1>2, <1>12 DEF MarkStep
<1>13. CASE PrereqStep
  BY <1>2, <1>13 DEF PrereqStep
<1> QED
  BY <1>3, <1>4, <1>5, <1>6, <1>7, <1>8, <1>9, <1>10, <1>11, <1>12, <1>13, Steps

LEMMA BalancesStep ==
  ASSUME Shape, Shape', [Next]_vars
  PROVE  /\ contributions' # contributions => \A g \in Ids : Rest(g)' = Rest(g)
         /\ SumTo([g \in Ids |-> Rest(g)'], LastGoalId)
              <= SumTo([g \in Ids |-> Rest(g)], LastGoalId)
         /\ \A g \in Ids : ~IsOpen(goal[g]) /\ contributions'[g] = contributions[g] =>
              goal'[g].current_amount = goal[g].current_amount
<1>1. /\ LastGoalId \in Nat /\ Ids = 1..LastGoalId /\ Ids \subseteq Ids'
      /\ (\E g \in Ids : Booked(g)) \/ (\E s, t \in Ids : Pooled(s, t)) \/ Spent
  BY GoalFacts, Movements
<1>2. PICK F : F = [g \in Ids |-> Rest(g)]
  OBVIOUS
<1>3. PICK H : H = [g \in Ids |-> Rest(g)']
  OBVIOUS
<1>4. \A g \in Ids :
        /\ F[g] = goal[g].current_amount - Net(contributions[g])
        /\ H[g] = goal'[g].current_amount - Net(contributions'[g])
        /\ goal[g].current_amount \in Int /\ Net(contributions[g]) \in Int
        /\ goal'[g].current_amount \in Int /\ Net(contributions'[g]) \in Int
        /\ F[g] \in Int /\ H[g] \in Int /\ F[g] = Rest(g) /\ H[g] = Rest(g)'
  BY <1>1, <1>2, <1>3, RestType, RestAfter
<1>5. CASE \E g \in Ids : Booked(g)
  <2>1. PICK g \in Ids : Booked(g)
    BY <1>5
  <2>2. F[g] = H[g]
    <3>1. PICK a \in Int, b \in Int, n \in Int, m \in Int :
            /\ a = goal[g].current_amount /\ b = goal'[g].current_amount
            /\ n = Net(contributions[g]) /\ m = Net(contributions'[g])
      BY <1>4
    <3>2. b - a = m - n
      BY <2>1, <3>1 DEF Booked
    <3>3. F[g] = a - n /\ H[g] = b - m
      BY <1>4, <3>1
    <3> QED
      BY <3>2, <3>3
  <2>3. \A h \in Ids \ {g} : F[h] = H[h]
    BY <1>4, <2>1 DEF Booked, Kept
  <2>4. \A h \in Ids : F[h] \in Int /\ H[h] \in Int /\ H[h] <= F[h] /\ H[h] = F[h]
    BY <1>4, <2>2, <2>3
  <2>5. SumTo(H, LastGoalId) <= SumTo(F, LastGoalId)
    BY <1>1, <2>4, SumMonotone
  <2>6. \A h \in Ids : ~IsOpen(goal[h]) /\ contributions'[h] = contributions[h] => Kept(h)
    BY <2>1 DEF Booked
  <2> QED
    BY <1>2, <1>3, <1>4, <2>4, <2>5, <2>6 DEF Kept
<1>6. CASE \E s, t \in Ids : Pooled(s, t)
  <2>1. PICK s \in Ids, t \in Ids : Pooled(s, t)
    BY <1>6
  <2>2. contributions' = contributions
    BY <2>1 DEF Pooled
  <2>3. \A h \in Ids \ {s, t} : F[h] = H[h]
    BY <1>4, <2>1, <2>2 DEF Pooled, Kept
  <2>4. /\ H[s] = F[s] - goal[s].current_amount /\ H[t] = F[t] + goal[s].current_amount
        /\ s # t
    <3>1. H[s] = 0 - Net(contributions[s])
          /\ H[t] = goal[t].current_amount + goal[s].current_amount - Net(contributions[t])
      BY <1>4, <2>1, <2>2 DEF Pooled
    <3> QED
      BY <1>4, <2>1, <3>1 DEF Pooled
  <2> DEFINE M == [F EXCEPT ![s] = H[s]]
  <2>5. /\ \A h \in Ids : M[h] \in Int /\ F[h] \in Int /\ H[h] \in Int
        /\ \A h \in Ids : h # s => F[h] = M[h]
        /\ \A h \in Ids : h # t => M[h] = H[h]
        /\ M[s] = H[s] /\ M[t] = F[t]
    BY <1>2, <1>4, <2>3, <2>4
  <2> HIDE DEF M
  <2>6. SumTo(M, LastGoalId) = SumTo(F, LastGoalId) + M[s] - F[s]
    BY <1>1, <2>5, SumPoint
  <2>7. SumTo(H, LastGoalId) = SumTo(M, LastGoalId) + H[t] - M[t]
    BY <1>1, <2>5, SumPoint
  <2>8. SumTo(F, LastGoalId) \in Int /\ SumTo(M, LastGoalId) \in Int
    BY <1>1, <2>5, SumType
  <2>9. goal[s].current_amount \in Int /\ F[s] \in Int /\ F[t] \in Int
    BY <1>4
  <2>10. SumTo(H, LastGoalId) = SumTo(F, LastGoalId)
    BY <2>4, <2>5, <2>6, <2>7, <2>8, <2>9
  <2>11. \A h \in Ids : ~IsOpen(goal[h]) => Kept(h)
    BY <2>1 DEF Pooled, IsOpen
  <2> QED
    BY <1>2, <1>3, <2>2, <2>8, <2>10, <2>11 DEF Kept
<1>7. CASE Spent
  <2>1. \A h \in Ids : F[h] \in Int /\ H[h] \in Int /\ H[h] <= F[h]
    BY <1>4, <1>7 DEF Spent, Kept
  <2>2. SumTo(H, LastGoalId) <= SumTo(F, LastGoalId)
    BY <1>1, <2>1, SumMonotone
  <2>3. contributions' = contributions /\ \A h \in Ids : ~IsOpen(goal[h]) => Kept(h)
    BY <1>7 DEF Spent
  <2> QED
    BY <1>2, <1>3, <2>2, <2>3 DEF Kept
<1> QED
  BY <1>1, <1>5, <1>6, <1>7

\* Contributing and reversing move exactly the amounts on record, no call on
\* existing goals creates money, and a goal that is neither active nor complete
\* changes by reversals only, whatever calls came before.
THEOREM BalancesAreBacked == Spec => ContributionsBackBalances
<1>1. Shape /\ Shape' /\ [Next]_vars =>
        [/\ contributions' # contributions => \A g \in Ids : Rest(g)' = Rest(g)
         /\ SumTo([g \in Ids |-> Rest(g)'], LastGoalId)
              <= SumTo([g \in Ids |-> Rest(g)], LastGoalId)
         /\ \A g \in Ids : ~IsOpen(goal[g]) /\ contributions'[g] = contributions[g] =>
              goal'[g].current_amount = goal[g].current_amount]_vars
  BY BalancesStep
<1> QED
  BY <1>1, ShapeHolds, PTL DEF Spec, ContributionsBackBalances
------------------------------------------------------------------------------
\* The register of goals: who has which, under which name.

Listing(s) == {s[k] : k \in DOMAIN s}
Rising(s) == \A j, k \in DOMAIN s : j < k => s[j] < s[k]

LEMMA ListingAppend ==
  ASSUME NEW s \in Seq(Nat), NEW x \in Nat, Rising(s), \A y \in Listing(s) : y < x
  PROVE  /\ Append(s, x) \in Seq(Nat)
         /\ Listing(Append(s, x)) = Listing(s) \cup {x}
         /\ Rising(Append(s, x))
<1>1. PICK t : t = Append(s, x)
  OBVIOUS
<1>2. /\ t \in Seq(Nat) /\ t[Len(s) + 1] = x /\ DOMAIN t = 1..(Len(s) + 1)
      /\ \A k \in 1..Len(s) : t[k] = s[k]
      /\ DOMAIN s = 1..Len(s) /\ Len(s) \in Nat
  BY <1>1
<1>3. DOMAIN t = DOMAIN s \cup {Len(s) + 1}
  BY <1>2
<1>4. Listing(t) = Listing(s) \cup {x}
  BY <1>2, <1>3 DEF Listing
<1>5. \A k \in DOMAIN s : t[k] = s[k] /\ s[k] < x
  BY <1>2 DEF Listing
<1>6. ASSUME NEW j \in DOMAIN t, NEW k \in DOMAIN t, j < k PROVE t[j] < t[k]
  <2>1. j \in DOMAIN s
    BY <1>2, <1>6
  <2>2. CASE k \in DOMAIN s
    BY <1>5, <1>6, <2>1, <2>2 DEF Rising
  <2>3. CASE k = Len(s) + 1
    BY <1>2, <1>5, <2>1, <2>3
  <2> QED
    BY <1>3, <2>2, <2>3
<1>7. Rising(t)
  BY <1>6 DEF Rising
<1> QED
  BY <1>1, <1>2, <1>4, <1>7

\* h is the list of u's goals after 0, 1, ..., n of the new ones.
IsEnlisting(h, created, u, n) ==
  h = [k \in 0..n |->
         IF k = 0 THEN UserGoals[u]
         ELSE IF created[LastGoalId + k].user = u THEN Append(h[k - 1], LastGoalId + k)
         ELSE h[k - 1]]

LEMMA EnlistingExists ==
  ASSUME NEW created, NEW u, NEW n \in Nat
  PROVE  \E h : IsEnlisting(h, created, u, n)
<1> DEFINE S == {m \in Nat : \E h : IsEnlisting(h, created, u, m)}
<1>1. 0 \in S
  <2> DEFINE h == [k \in 0..0 |-> UserGoals[u]]
  <2>1. IsEnlisting(h, created, u, 0)
    BY DEF IsEnlisting
  <2> QED
    BY <2>1
<1>2. ASSUME NEW m \in Nat, m \in S PROVE m + 1 \in S
  <2>1. PICK h : IsEnlisting(h, created, u, m)
    BY <1>2
  <2> DEFINE new == IF created[LastGoalId + (m + 1)].user = u
                    THEN Append(h[m], LastGoalId + (m + 1)) ELSE h[m]
             g == [k \in 0..(m + 1) |-> IF k = m + 1 THEN new ELSE h[k]]
  <2>2. ASSUME NEW k \in 0..(m + 1)
        PROVE  g[k] = IF k = 0 THEN UserGoals[u]
                      ELSE IF created[LastGoalId + k].user = u THEN Append(g[k - 1], LastGoalId + k)
                      ELSE g[k - 1]
    <3>1. CASE k = m + 1
      BY <3>1
    <3>2. CASE k # m + 1 /\ k # 0
      <4>1. k \in 0..m /\ k - 1 \in 0..m /\ k # 0
        BY <3>2
      <4>2. h[k] = IF created[LastGoalId + k].user = u THEN Append(h[k - 1], LastGoalId + k)
                   ELSE h[k - 1]
        BY <2>1, <4>1 DEF IsEnlisting
      <4>3. g[k] = h[k] /\ g[k - 1] = h[k - 1]
        BY <3>2, <4>1
      <4> QED
        BY <4>1, <4>2, <4>3
    <3>3. CASE k = 0
      BY <3>3, <2>1 DEF IsEnlisting
    <3> QED
      BY <3>1, <3>2, <3>3
  <2>3. IsEnlisting(g, created, u, m + 1)
    <3> HIDE DEF new
    <3> QED
      BY <2>2 DEF IsEnlisting
  <2> QED
    BY <2>3
<1> HIDE DEF S
<1>3. n \in S
  BY <1>1, <1>2, NatSetInduction
<1> QED
  BY <1>3 DEF S

\* The new goals of u are appended to the list of u, in order.
LEMMA EnlistedFacts ==
  ASSUME NEW created, NEW u \in Users, NEW n \in Nat, Cardinality(DOMAIN created) = n,
         LastGoalId \in Nat, UserGoals[u] \in Seq(Nat), Rising(UserGoals[u]),
         \A g \in Listing(UserGoals[u]) : g <= LastGoalId
  PROVE  /\ Enlisted(created, u) \in Seq(Nat)
         /\ Rising(Enlisted(created, u))
         /\ Listing(Enlisted(created, u)) = Listing(UserGoals[u])
              \cup {g \in (LastGoalId + 1)..(LastGoalId + n) : created[g].user = u}
<1> DEFINE h == CHOOSE f : IsEnlisting(f, created, u, n)
<1>1. IsEnlisting(h, created, u, n)
  BY EnlistingExists
<1>2. Enlisted(created, u) = h[n]
  BY DEF Enlisted, IsEnlisting
<1> HIDE DEF h
<1> DEFINE New(m) == {g \in (LastGoalId + 1)..(LastGoalId + m) : created[g].user = u}
           S == {m \in Nat : m <= n =>
                   /\ h[m] \in Seq(Nat) /\ Rising(h[m])
                   /\ Listing(h[m]) = Listing(UserGoals[u]) \cup New(m)}
<1>3. 0 \in S
  <2>1. h[0] = UserGoals[u]
    BY <1>1 DEF IsEnlisting
  <2>2. New(0) = {}
    OBVIOUS
  <2> QED
    BY <2>1, <2>2
<1>4. ASSUME NEW m \in Nat, m \in S PROVE m + 1 \in S
  <2>1. SUFFICES ASSUME m + 1 <= n
                 PROVE  /\ h[m + 1] \in Seq(Nat) /\ Rising(h[m + 1])
                        /\ Listing(h[m + 1]) = Listing(UserGoals[u]) \cup New(m + 1)
    OBVIOUS
  <2>2. /\ h[m] \in Seq(Nat) /\ Rising(h[m])
        /\ Listing(h[m]) = Listing(UserGoals[u]) \cup New(m)
    BY <1>4, <2>1
  <2>3. h[m + 1] = IF created[LastGoalId + (m + 1)].user = u
                   THEN Append(h[m], LastGoalId + (m + 1)) ELSE h[m]
    <3>1. m + 1 \in 0..n /\ m + 1 # 0 /\ (m + 1) - 1 = m
      BY <2>1
    <3> QED
      BY <1>1, <3>1 DEF IsEnlisting
  <2>4. PICK x \in Nat : x = LastGoalId + (m + 1)
    OBVIOUS
  <2>5. (LastGoalId + 1)..x = (LastGoalId + 1)..(LastGoalId + m) \cup {x}
    BY <2>4
  <2>6. CASE created[x].user = u
    <3>1. New(m + 1) = New(m) \cup {x}
      BY <2>4, <2>5, <2>6
    <3>2. \A y \in Listing(h[m]) : y < x
      <4>1. \A y \in Listing(UserGoals[u]) : y \in Nat
        BY SeqFacts DEF Listing
      <4>2. \A y \in Listing(UserGoals[u]) : y < x
        BY <2>4, <4>1
      <4>3. \A y \in New(m) : y < x
        BY <2>4
      <4> HIDE DEF New
      <4> QED
        BY <2>2, <4>2, <4>3
    <3>3. /\ Append(h[m], x) \in Seq(Nat) /\ Rising(Append(h[m], x))
          /\ Listing(Append(h[m], x)) = Listing(h[m]) \cup {x}
      BY <2>2, <3>2, ListingAppend
    <3>4. h[m + 1] = Append(h[m], x)
      BY <2>3, <2>4, <2>6
    <3> HIDE DEF New
    <3> QED
      BY <2>2, <3>1, <3>3, <3>4
  <2>7. CASE created[x].user # u
    <3>1. New(m + 1) = New(m)
      BY <2>4, <2>5, <2>7
    <3>2. h[m + 1] = h[m]
      BY <2>3, <2>4, <2>7
    <3> HIDE DEF New
    <3> QED
      BY <2>2, <3>1, <3>2
  <2> QED
    BY <2>6, <2>7
<1> HIDE DEF S
<1>5. n \in S
  BY <1>3, <1>4, NatSetInduction
<1> QED
  BY <1>2, <1>5 DEF S

\* A goal keeps its owner and its deadline.
Stays(g) == goal'[g].user = goal[g].user /\ goal'[g].deadline = goal[g].deadline

LEMMA JoinedFacts ==
  ASSUME Shape, NEW n \in Nat, NEW created, Creation(n, created)
  PROVE  /\ created \in [(LastGoalId + 1)..(LastGoalId + n) -> GoalRecord]
         /\ Register(created)
         /\ \A g \in Ids : Joined(created)[g] = goal[g] /\ g \notin DOMAIN created
         /\ \A g \in DOMAIN created : Joined(created)[g] = created[g]
         /\ DOMAIN Joined(created) = Ids \cup DOMAIN created
<1>1. LastGoalId \in Nat /\ Ids = 1..LastGoalId
  BY GoalFacts
<1>2. created \in [(LastGoalId + 1)..(LastGoalId + n) -> GoalRecord] /\ Register(created)
  BY DEF Creation
<1>3. \A g \in DOMAIN created : g \notin Ids
  BY <1>1, <1>2
<1> QED
  BY <1>2, <1>3 DEF Joined

\* A step either leaves the register alone or enters n new goals.
LEMMA OwnersStay ==
  ASSUME Shape, Shape', [Next]_vars
  PROVE  \/ /\ UNCHANGED <<GoalByName, UserGoals, LastGoalId, TotalGoalsCreated>>
            /\ \A g \in Ids : Stays(g)
         \/ \E n \in Nat : \E created :
              /\ created \in [(LastGoalId + 1)..(LastGoalId + n) -> GoalRecord]
              /\ Register(created)
              /\ \A g \in Ids : Stays(g)
              /\ \A g \in DOMAIN created : goal'[g].user = created[g].user
<1>1. /\ LastGoalId \in Nat /\ Ids = 1..LastGoalId
      /\ goal \in [Ids -> GoalRecord] /\ \A g \in Ids : goal[g] \in GoalRecord
  BY GoalFacts DEF Shape, TypeOK
<1>2. ASSUME NEW G \in [Ids -> GoalRecord], NEW S \in SUBSET Ids, CheckMilestones(G, S),
             \A g \in Ids : G[g].user = goal[g].user /\ G[g].deadline = goal[g].deadline
      PROVE  \A g \in Ids : Stays(g)
  <2>1. Announced(G, S)
    BY <1>1, <1>2, CheckEffect
  <2>2. \A g \in Ids : goal'[g] = IF g \in S THEN Checked(g, G[g]) ELSE G[g]
    BY <2>1 DEF Announced
  <2>3. \A g \in Ids : /\ Checked(g, G[g]).user = G[g].user
                       /\ Checked(g, G[g]).deadline = G[g].deadline
    BY CheckedFacts
  <2> QED
    BY <1>2, <2>2, <2>3 DEF Stays
<1>3. ASSUME NEW g \in Ids, NEW r \in GoalRecord, r.user = goal[g].user,
             r.deadline = goal[g].deadline
      PROVE  /\ [goal EXCEPT ![g] = r] \in [Ids -> GoalRecord]
             /\ \A h \in Ids : /\ [goal EXCEPT ![g] = r][h].user = goal[h].user
                               /\ [goal EXCEPT ![g] = r][h].deadline = goal[h].deadline
  BY <1>1, <1>3
<1>4. CASE Quiet \/ MarkStep \/ PrereqStep
  BY <1>4 DEF Quiet, MarkStep, PrereqStep, Elsewhere, Stays
<1>5. CASE RenameStep
  <2>1. PICK g \in Ids, name \in NewNames, r \in GoalRecord : Renamed(g, name, r)
    BY <1>5 DEF RenameStep
  <2>2. r.user = goal[g].user /\ r.deadline = goal[g].deadline
    BY <1>1, <2>1 DEF Renamed, GoalRecord
  <2> QED
    BY <1>3, <2>1, <2>2 DEF Renamed, Elsewhere, Stays
<1>6. CASE ContributeStep
  <2>1. PICK g \in Ids, k \in IdempotencyTokens : \E r, entry : Contributed(g, k, r, entry)
    BY <1>6 DEF ContributeStep
  <2>2. PICK r, entry : Contributed(g, k, r, entry)
    BY <2>1
  <2> QED
    BY <1>2, <1>3, <2>2 DEF Contributed, Rebalanced, Elsewhere
<1>7. CASE ReverseStep
  <2>1. PICK g \in Ids : \E c, r, entry : Reversed(g, c, r, entry)
    BY <1>7 DEF ReverseStep
  <2>2. PICK c, r, entry : Reversed(g, c, r, entry)
    BY <2>1
  <2> QED
    BY <1>3, <2>2 DEF Reversed, Rebalanced, Elsewhere, Stays
<1>8. CASE WithdrawStep
  <2>1. PICK g \in Ids, r \in GoalRecord : Lowered(g, r) /\ goal' = [goal EXCEPT ![g] = r]
    BY <1>8 DEF WithdrawStep
  <2> QED
    BY <1>3, <2>1 DEF Lowered, Rebalanced, Elsewhere, Stays
<1>9. CASE PartialStep
  <2>1. PICK g \in Ids, r \in GoalRecord :
          Lowered(g, r) /\ CheckMilestones([goal EXCEPT ![g] = r], {g})
    BY <1>9 DEF PartialStep
  <2> QED
    BY <1>2, <1>3, <2>1 DEF Lowered, Rebalanced, Elsewhere
<1>10. CASE MergeStep
  <2>1. PICK s \in Ids, t \in Ids, rs \in GoalRecord, rt \in GoalRecord : Merged(s, t, rs, rt)
    BY <1>10 DEF MergeStep
  <2>2. PICK G : G = [[goal EXCEPT ![s] = rs] EXCEPT ![t] = rt]
    OBVIOUS
  <2>3. G \in [Ids -> GoalRecord] /\ G[t] = rt
        /\ \A h \in Ids : h # t => G[h] = IF h = s THEN rs ELSE goal[h]
    BY <1>1, <2>2
  <2>4. \A g \in Ids : G[g].user = goal[g].user /\ G[g].deadline = goal[g].deadline
    BY <2>1, <2>3 DEF Merged, Rebalanced
  <2>5. CheckMilestones(G, {t}) /\ {t} \in SUBSET Ids
    BY <2>1, <2>2 DEF Merged
  <2>6. \A g \in Ids : Stays(g)
    BY <1>2, <2>3, <2>4, <2>5
  <2> QED
    BY <2>1, <2>6 DEF Merged, Elsewhere
<1>11. CASE CreateStep
  <2>1. PICK n \in Nat :
          \E created : Creation(n, created) /\ CheckMilestones(Joined(created), DOMAIN created)
    BY <1>11 DEF CreateStep
  <2>2. PICK created :
          Creation(n, created) /\ CheckMilestones(Joined(created), DOMAIN created)
    BY <2>1
  <2>3. /\ created \in [(LastGoalId + 1)..(LastGoalId + n) -> GoalRecord]
        /\ Register(created)
        /\ \A g \in Ids : Joined(created)[g] = goal[g] /\ g \notin DOMAIN created
        /\ \A g \in DOMAIN created : Joined(created)[g] = created[g]
        /\ DOMAIN Joined(created) = Ids \cup DOMAIN created
    BY <2>2, JoinedFacts
  <2>4. Announced(Joined(created), DOMAIN created)
    BY <2>2, JoinedType, CheckEffect
  <2>5. \A g \in Ids \cup DOMAIN created :
          goal'[g] = IF g \in DOMAIN created THEN Checked(g, Joined(created)[g])
                     ELSE Joined(created)[g]
    BY <2>3, <2>4 DEF Announced
  <2>6. \A g \in DOMAIN created : Checked(g, created[g]).user = created[g].user
    <3>1. \A g \in DOMAIN created : created[g] \in GoalRecord
      BY <2>3
    <3> QED
      BY <3>1, CheckedFacts
  <2>7. \A g \in Ids : Stays(g)
    BY <2>3, <2>5 DEF Stays
  <2>8. \A g \in DOMAIN created : goal'[g].user = created[g].user
    BY <2>3, <2>5, <2>6
  <2> QED
    BY <2>3, <2>7, <2>8
<1>12. CASE CloneStep
  <2>1. PICK created : Creation(1, created) /\ goal' = Joined(created)
    BY <1>12 DEF CloneStep
  <2>2. /\ created \in [(LastGoalId + 1)..(LastGoalId + 1) -> GoalRecord]
        /\ Register(created)
        /\ \A g \in Ids : Joined(created)[g] = goal[g] /\ g \notin DOMAIN created
        /\ \A g \in DOMAIN created : Joined(created)[g] = created[g]
    BY <2>1, JoinedFacts
  <2>3. \A g \in Ids : Stays(g)
    BY <2>2, <2>1 DEF Stays
  <2>4. \A g \in DOMAIN created : goal'[g].user = created[g].user
    BY <2>2, <2>1
  <2> QED
    BY <2>2, <2>3, <2>4
<1> QED
  BY <1>4, <1>5, <1>6, <1>7, <1>8, <1>9, <1>10, <1>11, <1>12, Steps

\* The inductive invariant of the register.
Indexed ==
  /\ TotalGoalsCreated = LastGoalId
  /\ UserGoals \in [Users -> Seq(Nat)]
  /\ \A u \in Users : /\ Listing(UserGoals[u]) = {g \in Ids : goal[g].user = u}
                      /\ Rising(UserGoals[u])
  /\ \A k \in DOMAIN GoalByName : goal[GoalByName[k]].user = k[1]

LEMMA IndexedNext ==
  ASSUME Shape, Shape', Indexed, [Next]_vars
  PROVE  Indexed'
<1>1. /\ LastGoalId \in Nat /\ Ids = 1..LastGoalId
      /\ \A k \in DOMAIN GoalByName : GoalByName[k] \in Ids
  BY GoalFacts DEF Shape, TypeOK
<1>2. Ids' = 1..LastGoalId'
  BY DEF Shape, TypeOK, Ids
<1>3. CASE /\ UNCHANGED <<GoalByName, UserGoals, LastGoalId, TotalGoalsCreated>>
           /\ \A g \in Ids : Stays(g)
  <2>1. Ids' = Ids
    BY <1>1, <1>2, <1>3
  <2>2. \A u \in Users : {g \in Ids' : goal'[g].user = u} = {g \in Ids : goal[g].user = u}
    BY <1>3, <2>1 DEF Stays
  <2>3. \A k \in DOMAIN GoalByName : goal'[GoalByName[k]].user = k[1]
    BY <1>1, <1>3 DEF Stays, Indexed
  <2> QED
    BY <1>3, <2>2, <2>3 DEF Indexed
<1>4. ASSUME NEW n \in Nat, NEW created \in [(LastGoalId + 1)..(LastGoalId + n) -> GoalRecord],
             Register(created), \A g \in Ids : Stays(g),
             \A g \in DOMAIN created : goal'[g].user = created[g].user
      PROVE  Indexed'
  <2> DEFINE NameOf(g) == <<created[g].user, created[g].goal_name>>
  <2>1. DOMAIN created = (LastGoalId + 1)..(LastGoalId + n) /\ Cardinality(DOMAIN created) = n
    BY <1>1, FS_Interval
  <2>2. LastGoalId' = LastGoalId + n /\ TotalGoalsCreated' = TotalGoalsCreated + n
    BY <1>4, <2>1 DEF Register
  <2>3. Ids' = Ids \cup DOMAIN created
    BY <1>1, <1>2, <2>1, <2>2
  <2>4. UserGoals' = [u \in Users |-> Enlisted(created, u)]
    BY <1>4 DEF Register
  <2>5. ASSUME NEW u \in Users
        PROVE  /\ UserGoals'[u] \in Seq(Nat) /\ Rising(UserGoals'[u])
               /\ Listing(UserGoals'[u]) = {g \in Ids' : goal'[g].user = u}
    <3>1. /\ UserGoals[u] \in Seq(Nat) /\ Rising(UserGoals[u])
          /\ Listing(UserGoals[u]) = {g \in Ids : goal[g].user = u}
      BY DEF Indexed
    <3>2. \A g \in Listing(UserGoals[u]) : g <= LastGoalId
      BY <1>1, <3>1
    <3>3. /\ Enlisted(created, u) \in Seq(Nat) /\ Rising(Enlisted(created, u))
          /\ Listing(Enlisted(created, u)) = Listing(UserGoals[u])
               \cup {g \in (LastGoalId + 1)..(LastGoalId + n) : created[g].user = u}
      BY <1>1, <2>1, <3>1, <3>2, EnlistedFacts
    <3>4. UserGoals'[u] = Enlisted(created, u)
      BY <2>4
    <3>5. {g \in Ids' : goal'[g].user = u}
            = {g \in Ids : goal[g].user = u} \cup {g \in DOMAIN created : created[g].user = u}
      BY <1>4, <2>3 DEF Stays
    <3> QED
      BY <2>1, <3>1, <3>3, <3>4, <3>5
  <2>6. UserGoals' \in [Users -> Seq(Nat)]
    BY <2>4, <2>5
  <2>7. GoalByName' = [k \in DOMAIN GoalByName \cup {NameOf(g) : g \in DOMAIN created} |->
                         IF \E g \in DOMAIN created : k = NameOf(g)
                         THEN CHOOSE g \in DOMAIN created : k = NameOf(g) ELSE GoalByName[k]]
    BY <1>4 DEF Register
  <2>8. \A g \in DOMAIN created : NameOf(g)[1] = created[g].user
    OBVIOUS
  <2> HIDE DEF NameOf
  <2>9. ASSUME NEW k \in DOMAIN GoalByName' PROVE goal'[GoalByName'[k]].user = k[1]
    <3>1. CASE \E g \in DOMAIN created : k = NameOf(g)
      <4>1. PICK g \in DOMAIN created : k = NameOf(g) /\ GoalByName'[k] = g
        <5>1. GoalByName'[k] = CHOOSE g \in DOMAIN created : k = NameOf(g)
          BY <2>7, <3>1
        <5> QED
          BY <3>1, <5>1
      <4> QED
        BY <1>4, <2>8, <4>1
    <3>2. CASE ~ \E g \in DOMAIN created : k = NameOf(g)
      <4>1. k \in DOMAIN GoalByName /\ GoalByName'[k] = GoalByName[k]
        BY <2>7, <3>2
      <4>2. GoalByName[k] \in Ids /\ goal[GoalByName[k]].user = k[1]
        BY <1>1, <4>1 DEF Indexed
      <4>3. Stays(GoalByName[k])
        BY <1>4, <4>2
      <4> QED
        BY <4>1, <4>2, <4>3 DEF Stays
    <3> QED
      BY <3>1, <3>2
  <2> QED
    BY <2>2, <2>5, <2>6, <2>9 DEF Indexed
<1> QED
  BY <1>3, <1>4, OwnersStay

\* get_user_goals lists every goal of a user exactly once, in the order of
\* creation, the counters count the goals there are, and a name leads to a goal
\* of the user it was taken by, whatever batches, clones and renames there were.
THEOREM IndexStaysComplete == Spec => []IndexIsComplete
<1>1. Init => Indexed
  <2> SUFFICES ASSUME Init PROVE Indexed
    OBVIOUS
  <2>1. PICK empty : empty = << >>
    OBVIOUS
  <2>2. empty \in Seq(Nat) /\ Listing(empty) = {} /\ Rising(empty)
    BY <2>1 DEF Listing, Rising
  <2>3. /\ \A u \in Users : UserGoals[u] = empty
        /\ UserGoals \in [Users -> Seq(Nat)] /\ Ids = {} /\ DOMAIN GoalByName = {}
    BY <2>1, <2>2 DEF Init, Ids
  <2> QED
    BY <2>2, <2>3 DEF Init, Indexed
<1>2. Shape /\ Shape' /\ Indexed /\ [Next]_vars => Indexed'
  BY IndexedNext
<1>3. Shape /\ Indexed => IndexIsComplete
  <2> SUFFICES ASSUME Shape, Indexed PROVE IndexIsComplete
    OBVIOUS
  <2>1. Ids = 1..LastGoalId /\ LastGoalId \in Nat
    BY GoalFacts
  <2>2. LastGoalId = Cardinality(Ids)
    BY <2>1, FS_Interval
  <2> QED
    BY <2>2 DEF Indexed, IndexIsComplete, Listing, Rising
<1> QED
  BY <1>1, <1>2, <1>3, ShapeHolds, PTL DEF Spec

------------------------------------------------------------------------------
\* Deadline alerts.

\* The inductive invariant: goals there are not have had no alert.
Alerted ==
  /\ alertSent \in [AllIds -> SUBSET Nat] /\ thresholds \in [AllIds -> SUBSET Nat]
  /\ defaults \in SUBSET Nat
  /\ \A g \in AllIds \ Ids : alertSent[g] = {}
  /\ AlertsWereDue

\* Time does not run backwards, and what is sent is a threshold that is due.
LEMMA NoticesNext ==
  ASSUME Shape, Alerted, [Next]_vars
  PROVE  /\ sequence' \in Nat /\ sequence <= sequence'
         /\ thresholds' \in [AllIds -> SUBSET Nat] /\ defaults' \in SUBSET Nat
         /\ \/ alertSent' = alertSent
            \/ \E g \in Ids : alertSent' = [alertSent EXCEPT ![g] = alertSent[g] \cup DueAlerts(g)]
                              /\ sequence' = sequence /\ goal' = goal
<1>1. /\ sequence \in Nat /\ Ids \subseteq AllIds
      /\ alertSent \in [AllIds -> SUBSET Nat] /\ thresholds \in [AllIds -> SUBSET Nat]
      /\ defaults \in SUBSET Nat
  BY GoalFacts DEF Alerted
<1>2. CASE CloseLedger
  BY <1>1, <1>2 DEF CloseLedger, notices
<1>3. CASE \E g \in Ids : ProcessGoalAlerts(g)
  <2>1. PICK g \in Ids : ProcessGoalAlerts(g)
    BY <1>3
  <2>2. alertSent' = [alertSent EXCEPT ![g] = alertSent[g] \cup DueAlerts(g)]
    BY <2>1 DEF ProcessGoalAlerts
  <2>3. UNCHANGED <<sequence, goal, thresholds, defaults>>
    BY <2>1 DEF ProcessGoalAlerts, clock
  <2>4. sequence' \in Nat /\ sequence <= sequence'
    BY <1>1, <2>3
  <2>5. thresholds' \in [AllIds -> SUBSET Nat] /\ defaults' \in SUBSET Nat
    BY <1>1, <2>3
  <2>6. sequence' = sequence /\ goal' = goal
    BY <2>3
  <2> QED
    BY <2>2, <2>4, <2>5, <2>6
<1>4. CASE \E c \in Users, ts \in ThresholdLists : SetDefaultAlertThresholds(c, ts)
  BY <1>1, <1>4, InputAssumption DEF SetDefaultAlertThresholds, Normalized, clock
<1>5. CASE \E c \in Users, g \in Ids, ts \in ThresholdLists : SetGoalAlertThresholds(c, g, ts)
  <2>1. PICK c \in Users, g \in Ids, ts \in ThresholdLists : SetGoalAlertThresholds(c, g, ts)
    BY <1>5
  <2>2. Normalized(ts) \in SUBSET Nat
    BY InputAssumption DEF Normalized
  <2>3. thresholds' = [thresholds EXCEPT ![g] = Normalized(ts)]
    BY <2>1 DEF SetGoalAlertThresholds
  <2>4. UNCHANGED <<sequence, alertSent, defaults>>
    BY <2>1 DEF SetGoalAlertThresholds, clock
  <2> QED
    BY <1>1, <2>2, <2>3, <2>4
<1>6. CASE \E a \in Users : Initialize(a)
  BY <1>1, <1>6, InputAssumption DEF Initialize, clock
<1>7. CASE UNCHANGED <<notices, clock>>
  BY <1>1, <1>7 DEF notices, clock
<1>8. CASE \/ \E c, a \in Users : SetAdmin(c, a)
           \/ \E c \in Users, qs \in GoalRequests : BatchSetSavingsGoals(c, qs)
           \/ \E c \in Users, g \in Ids, n \in NewNames : CloneSavingsGoal(c, g, n)
           \/ \E c \in Users, g \in Ids, n \in NewNames : UpdateGoalName(c, g, n)
  BY <1>7, <1>8 DEF SetAdmin, BatchSetSavingsGoals, CloneSavingsGoal, UpdateGoalName
<1>9. CASE \/ \E c \in Users, g \in Ids, a \in Amounts, k \in IdempotencyTokens :
                ContributeToGoal(c, g, a, k)
           \/ \E c \in Users, g \in Ids, k \in 1..MaxContributions : ReverseContribution(c, g, k)
           \/ \E c \in Users, g \in Ids, a \in Amounts : WithdrawFromGoal(c, g, a)
  BY <1>7, <1>9 DEF ContributeToGoal, ReverseContribution, WithdrawFromGoal
<1>10. CASE \/ \E c \in Users, g \in Ids, a \in Amounts : PartialWithdraw(c, g, a)
            \/ \E c \in Users, g, h \in Ids : MergeGoals(c, g, h)
            \/ \E c \in Users, g \in Ids, ps \in PrereqLists : SetGoalPrerequisites(c, g, ps)
  BY <1>7, <1>10 DEF PartialWithdraw, MergeGoals, SetGoalPrerequisites
<1>11. CASE \E c \in Users, qs \in MilestoneRequests : BatchMarkMilestones(c, qs)
  BY <1>7, <1>11 DEF BatchMarkMilestones
<1>12. CASE \E c \in Users, g \in Ids : RecordGoalSnapshot(c, g)
  BY <1>1, <1>12 DEF RecordGoalSnapshot, clock
<1>13. CASE UNCHANGED vars
  BY <1>7, <1>13 DEF vars
<1> QED
  BY <1>2, <1>3, <1>4, <1>5, <1>6, <1>8, <1>9, <1>10, <1>11, <1>12, <1>13 DEF Next

LEMMA AlertedNext ==
  ASSUME Shape, Shape', Alerted, [Next]_vars
  PROVE  Alerted'
<1>1. /\ Ids \subseteq AllIds /\ sequence \in Nat
      /\ \A g \in Ids : goal[g] \in GoalRecord
      /\ LastGoalId \in Nat /\ Ids = 1..LastGoalId /\ AllIds' = AllIds
  BY GoalFacts DEF AllIds
<1>2. /\ sequence' \in Nat /\ sequence <= sequence'
      /\ thresholds' \in [AllIds -> SUBSET Nat] /\ defaults' \in SUBSET Nat
      /\ \/ alertSent' = alertSent
         \/ \E g \in Ids : alertSent' = [alertSent EXCEPT ![g] = alertSent[g] \cup DueAlerts(g)]
                           /\ sequence' = sequence /\ goal' = goal
  BY NoticesNext
<1>3. Ids \subseteq Ids' /\ Ids' \subseteq AllIds /\ \A g \in Ids : Stays(g)
  <2>1. Ids' = 1..LastGoalId' /\ LastGoalId' \in 0..MaxGoals
    BY DEF Shape, TypeOK, Ids
  <2>2. LastGoalId <= LastGoalId' /\ \A g \in Ids : Stays(g)
    <3>1. CASE LastGoalId' = LastGoalId /\ \A g \in Ids : Stays(g)
      BY <1>1, <3>1
    <3>2. ASSUME NEW n \in Nat, NEW created \in [(LastGoalId + 1)..(LastGoalId + n) -> GoalRecord],
                 Register(created)
          PROVE  LastGoalId <= LastGoalId'
      <4>1. Cardinality(DOMAIN created) = n
        BY <1>1, FS_Interval
      <4> QED
        BY <1>1, <3>2, <4>1 DEF Register
    <3> QED
      BY <3>1, <3>2, OwnersStay
  <2> QED
    BY <1>1, <2>1, <2>2, BoundAssumption DEF AllIds
<1>4. \A g \in AllIds : alertSent[g] \in SUBSET Nat
  BY DEF Alerted
<1>5. \A g \in Ids : goal[g].deadline \in Nat
  BY <1>1 DEF GoalRecord
<1>6. ASSUME NEW g \in Ids, NEW t \in alertSent[g]
      PROVE  goal'[g].deadline - sequence' <= t
  <2>1. t \in Nat /\ goal[g].deadline - sequence <= t
    BY <1>1, <1>4 DEF Alerted, AlertsWereDue
  <2>2. goal'[g].deadline = goal[g].deadline
    BY <1>3 DEF Stays
  <2> QED
    BY <1>1, <1>2, <1>5, <2>1, <2>2
<1>7. CASE alertSent' = alertSent
  <2>1. \A g \in AllIds \ Ids' : alertSent'[g] = {}
    BY <1>3, <1>7 DEF Alerted
  <2>2. ASSUME NEW g \in Ids', NEW t \in alertSent'[g]
        PROVE  goal'[g].deadline - sequence' <= t
    <3>1. g \in Ids
      BY <1>3, <1>7, <2>2 DEF Alerted
    <3> QED
      BY <1>6, <1>7, <2>2, <3>1
  <2>3. AlertsWereDue'
    BY <2>2 DEF AlertsWereDue
  <2> QED
    BY <1>1, <1>2, <1>7, <2>1, <2>3 DEF Alerted
<1>8. CASE \E g \in Ids : alertSent' = [alertSent EXCEPT ![g] = alertSent[g] \cup DueAlerts(g)]
                          /\ sequence' = sequence /\ goal' = goal
  <2>1. PICK g \in Ids :
          alertSent' = [alertSent EXCEPT ![g] = alertSent[g] \cup DueAlerts(g)]
            /\ sequence' = sequence /\ goal' = goal
    BY <1>8
  <2>2. DueAlerts(g) \in SUBSET Nat /\ \A t \in DueAlerts(g) : goal[g].deadline - sequence <= t
    BY <1>1 DEF DueAlerts, AlertThresholds, Alerted
  <2>3. /\ alertSent' \in [AllIds -> SUBSET Nat]
        /\ alertSent'[g] = alertSent[g] \cup DueAlerts(g)
        /\ \A h \in AllIds : h # g => alertSent'[h] = alertSent[h]
    BY <1>1, <2>1, <2>2 DEF Alerted
  <2>4. Ids' = Ids
    BY <2>1 DEF Ids
  <2>5. \A h \in AllIds \ Ids' : alertSent'[h] = {}
    BY <2>3, <2>4 DEF Alerted
  <2>6. AlertsWereDue'
    BY <1>1, <1>6, <2>1, <2>2, <2>3, <2>4 DEF AlertsWereDue
  <2> QED
    BY <1>1, <1>2, <2>3, <2>5, <2>6 DEF Alerted
<1> QED
  BY <1>2, <1>7, <1>8

\* An alert marked as sent was due when it was sent and stays due: the deadline
\* of a goal never moves and ledgers only get later.
THEOREM AlertsStayDue == Spec => []AlertsWereDue
<1>1. Init => Alerted
  BY InputAssumption DEF Init, Alerted, AlertsWereDue, Ids
<1>2. Shape /\ Shape' /\ Alerted /\ [Next]_vars => Alerted'
  BY AlertedNext
<1>3. Alerted => AlertsWereDue
  BY DEF Alerted
<1> QED
  BY <1>1, <1>2, <1>3, ShapeHolds, PTL DEF Spec

===============================================================================
