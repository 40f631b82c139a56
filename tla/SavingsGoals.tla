----------------------------- MODULE SavingsGoals -----------------------------
(***************************************************************************)
(* The savings goals contract (contracts/savings-goals/src).  It keeps     *)
(* balances only, no tokens move.  A call is atomic: a panic undoes every  *)
(* write before it, so what a call writes on its way to a panic (the       *)
(* is_active = false of an expired goal in contribute_to_goal) is no state *)
(* change and only the guard of the action shows it.                       *)
(***************************************************************************)
EXTENDS Sums, Sequences, FiniteSets

CONSTANTS Users, None,
          Names,             \* goal names (Symbol)
          NewNames,          \* the names given to clone_savings_goal, update_goal_name
          IdempotencyTokens, EmptyToken,
          GoalRequests,      \* request vectors of batch_set_savings_goals
          MilestoneRequests, \* request vectors of batch_mark_milestones
          PrereqLists,       \* prereq_ids arguments, as sets
          ThresholdLists,    \* alert threshold arguments, as sets
          Amounts,           \* contribution and withdrawal arguments
          MAX_BATCH_SIZE, MIN_GOAL_AMOUNT, MAX_GOAL_AMOUNT, MAX_FUTURE_LEDGERS,
          REVERSAL_PERIOD_SECS,
          U32,               \* 2^32, what a cast to u32 takes the remainder by
          DefaultThresholds, \* default_deadline_alert_thresholds
          CloseTimes,        \* seconds one ledger may take to close
          MaxGoals, MaxContributions, MaxAchievements, MaxSnapshots, MaxBatches,
          MaxSequence        \* bounds of the model

ASSUME BoundAssumption ==
  /\ {MaxGoals, MaxContributions, MaxAchievements, MaxSnapshots, MaxBatches,
      MaxSequence, MAX_BATCH_SIZE, REVERSAL_PERIOD_SECS, MAX_FUTURE_LEDGERS} \subseteq Nat
  /\ MIN_GOAL_AMOUNT \in Nat \ {0} /\ U32 \in Nat \ {0}
  /\ CloseTimes \subseteq Nat /\ NewNames \subseteq Names
  /\ None \notin Nat \cup Users

\* SavingsGoalRequest; the unsigned fields are natural numbers.
GoalRequest == [user : Users, goal_name : Names, target_amount : Int,
                initial_contribution : Int, deadline : Nat, lock_duration_seconds : Nat,
                expiration_seconds : Nat, penalty_bps : Nat]
ASSUME InputAssumption == /\ \A qs \in GoalRequests : qs \in Seq(GoalRequest)
                          /\ Amounts \subseteq Int
                          /\ DefaultThresholds \subseteq Nat
                          /\ \A ts \in ThresholdLists : ts \subseteq Nat

VARIABLES admin,
          goal,              \* DataKey::Goal(id)
          GoalByName, UserGoals, LastGoalId, TotalGoalsCreated,
          batches,           \* LastBatchId and TotalBatchesProcessed
          contributions,     \* DataKey::Contribution(id, 1..LastContribId(id))
          usedTokens,        \* DataKey::ContributionIdempotency(owner, id, token)
          triggered,         \* DataKey::GoalMilestonesPercent(id), as a set
          GoalClosedAt, Certificate,
          GoalPrereqs,       \* as a set: only membership matters
          milestones,        \* DataKey::Milestone(1..LastMilestoneId)
          GoalMilestones, TotalMilestonesAchieved,
          defaults,          \* DataKey::DefaultDeadlineAlertThresholds
          thresholds,        \* DataKey::GoalDeadlineAlertThresholds(id)
          alertSent,         \* DataKey::GoalDeadlineAlertSent(id, threshold)
          snapshots, timestamp, sequence

register == <<GoalByName, UserGoals, LastGoalId, TotalGoalsCreated>>
deposits == <<contributions, usedTokens>>
progress == <<triggered, GoalClosedAt, Certificate>>
marks    == <<milestones, GoalMilestones, TotalMilestonesAchieved>>
notices  == <<defaults, thresholds, alertSent, snapshots>>
clock    == <<timestamp, sequence>>
vars == <<admin, goal, register, batches, deposits, progress, GoalPrereqs, marks,
          notices, clock>>

MILESTONES == {25, 50, 75, 100}
AllIds == 1..MaxGoals
Ids == DOMAIN goal

Init ==
  /\ admin = None /\ goal = << >>
  /\ GoalByName = << >> /\ UserGoals = [u \in Users |-> << >>]
  /\ LastGoalId = 0 /\ TotalGoalsCreated = 0 /\ batches = 0
  /\ contributions = [g \in AllIds |-> << >>]
  /\ usedTokens = [g \in AllIds |-> {}]
  /\ triggered = [g \in AllIds |-> {}]
  /\ GoalClosedAt = [g \in AllIds |-> None]
  /\ Certificate = [g \in AllIds |-> None]
  /\ GoalPrereqs = [g \in AllIds |-> {}]
  /\ milestones = << >> /\ GoalMilestones = [g \in AllIds |-> << >>]
  /\ TotalMilestonesAchieved = 0
  /\ defaults = DefaultThresholds
  /\ thresholds = [g \in AllIds |-> {}] /\ alertSent = [g \in AllIds |-> {}]
  /\ snapshots = [g \in AllIds |-> << >>]
  /\ timestamp = 0 /\ sequence = 0

------------------------------------------------------------------------------
\* Progress in percent.  Integer division truncates towards zero and "as u32"
\* keeps the low 32 bits, so a negative balance can read as a huge percentage.
AsU32(n) == n % U32
Percent(current, target) ==
  AsU32(IF current >= 0 THEN (current * 100) \div target
                        ELSE -(((-current) * 100) \div target))
ReachedBy(current, target) == {m \in MILESTONES : Percent(current, target) >= m}

IsOpen(r) == r.is_active \/ r.is_complete
Filled(r) == r.current_amount >= r.target_amount
WithBalance(r, amount) == [r EXCEPT !.current_amount = amount,
                                    !.is_complete = amount >= r.target_amount]

\* check_and_emit_milestones on the goals of S, whose new records are in G: the
\* first time a goal reaches 100% it is closed and gets a certificate.
CheckMilestones(G, S) ==
  LET Fresh(g) == ReachedBy(G[g].current_amount, G[g].target_amount) \ triggered[g]
      Full(g)  == g \in S /\ 100 \in Fresh(g) IN
  /\ goal' = [g \in DOMAIN G |->
       IF g \in S THEN [G[g] EXCEPT !.is_complete = Filled(G[g]),
                                    !.is_active = @ /\ ~Full(g)] ELSE G[g]]
  /\ triggered' = [g \in AllIds |-> IF g \in S THEN triggered[g] \cup Fresh(g)
                                               ELSE triggered[g]]
  /\ GoalClosedAt' = [g \in AllIds |-> IF Full(g) /\ G[g].is_active THEN sequence
                                                      ELSE GoalClosedAt[g]]
  /\ Certificate' = [g \in AllIds |-> IF Full(g) /\ Certificate[g] = None THEN timestamp
                                                      ELSE Certificate[g]]

Update(g, r) == [goal EXCEPT ![g] = r]

------------------------------------------------------------------------------
\* Administration and creation.

Initialize(a) ==
  /\ admin = None
  /\ admin' = a /\ batches' = 0 /\ LastGoalId' = 0 /\ TotalGoalsCreated' = 0
  /\ defaults' = DefaultThresholds
  /\ UNCHANGED <<goal, GoalByName, UserGoals, deposits, progress, GoalPrereqs, marks,
                 thresholds, alertSent, snapshots, clock>>

SetAdmin(caller, a) ==
  /\ admin # None /\ caller = admin /\ admin' = a
  /\ UNCHANGED <<goal, register, batches, deposits, progress, GoalPrereqs, marks,
                 notices, clock>>

ValidRequest(q) ==
  /\ q.target_amount \in MIN_GOAL_AMOUNT..MAX_GOAL_AMOUNT
  /\ q.deadline > sequence /\ q.deadline <= sequence + MAX_FUTURE_LEDGERS
  /\ q.initial_contribution \in 0..q.target_amount

NewGoal(user, name, target, initial, deadline, lock, expiration, penalty) ==
  [user |-> user, goal_name |-> name, target_amount |-> target,
   current_amount |-> initial, deadline |-> deadline, created_at |-> timestamp,
   is_active |-> TRUE, is_complete |-> FALSE,
   unlock_at  |-> IF lock > 0 THEN timestamp + lock ELSE 0,
   expires_at |-> IF expiration > 0 THEN timestamp + expiration ELSE 0,
   penalty_bps |-> penalty]

Key(q) == <<q.user, q.goal_name>>

\* Requests are handled in order and each new goal takes its name, so of two
\* valid requests for one name the first is accepted.
Accepted(qs) ==
  {i \in DOMAIN qs :
     /\ ValidRequest(qs[i])
     /\ Key(qs[i]) \notin DOMAIN GoalByName
     /\ \A j \in 1..(i - 1) : ValidRequest(qs[j]) => Key(qs[j]) # Key(qs[i])}

\* created maps the new goal numbers to their records.
\* Mutant: the new goal is not appended to its owner's list.
RegisterUnlisted(created) ==
  /\ LastGoalId' = LastGoalId + Cardinality(DOMAIN created)
  /\ TotalGoalsCreated' = TotalGoalsCreated + Cardinality(DOMAIN created)
  /\ GoalByName' =
       [k \in DOMAIN GoalByName \cup {<<created[g].user, created[g].goal_name>> :
                                        g \in DOMAIN created} |->
          IF \E g \in DOMAIN created : k = <<created[g].user, created[g].goal_name>>
          THEN CHOOSE g \in DOMAIN created : k = <<created[g].user, created[g].goal_name>>
          ELSE GoalByName[k]]
  /\ UNCHANGED UserGoals
\* The list of u with the goals among the new ones that are u's, in the order of creation.
Enlisted(created, u) ==
  LET n == Cardinality(DOMAIN created)
      listed[k \in 0..n] ==
        IF k = 0 THEN UserGoals[u]
        ELSE IF created[LastGoalId + k].user = u THEN Append(listed[k - 1], LastGoalId + k)
        ELSE listed[k - 1]
  IN  listed[n]
Register(created) ==
  LET new == DOMAIN created
      NameOf(g) == <<created[g].user, created[g].goal_name>> IN
  /\ LastGoalId' = LastGoalId + Cardinality(new)
  /\ TotalGoalsCreated' = TotalGoalsCreated + Cardinality(new)
  /\ GoalByName' = [k \in DOMAIN GoalByName \cup {NameOf(g) : g \in new} |->
                      IF \E g \in new : k = NameOf(g)
                      THEN CHOOSE g \in new : k = NameOf(g) ELSE GoalByName[k]]
  /\ UserGoals' = [u \in Users |-> Enlisted(created, u)]

BatchSetSavingsGoals(caller, qs) ==
  LET ok == Accepted(qs)
      Ordinal(i) == LastGoalId + Cardinality({j \in ok : j <= i})
      created == [g \in {Ordinal(i) : i \in ok} |->
        LET q == qs[CHOOSE i \in ok : Ordinal(i) = g] IN
        NewGoal(q.user, q.goal_name, q.target_amount, q.initial_contribution, q.deadline,
                q.lock_duration_seconds, q.expiration_seconds, q.penalty_bps)]
  IN
  /\ admin # None /\ caller = admin
  /\ Len(qs) \in 1..MAX_BATCH_SIZE
  /\ batches < MaxBatches /\ LastGoalId + Cardinality(ok) <= MaxGoals
  /\ CheckMilestones([g \in Ids \cup DOMAIN created |->
                        IF g \in Ids THEN goal[g] ELSE created[g]], DOMAIN created)
  /\ Register(created)
  /\ batches' = batches + 1
  /\ UNCHANGED <<admin, deposits, GoalPrereqs, marks, notices, clock>>

CloneSavingsGoal(caller, g, name) ==
  LET r == goal[g]
      Inherited(t) == IF t > r.created_at THEN t - r.created_at ELSE 0
      created == [h \in {LastGoalId + 1} |->
                    NewGoal(caller, name, r.target_amount, 0, r.deadline,
                            Inherited(r.unlock_at), Inherited(r.expires_at), r.penalty_bps)]
  IN
  /\ r.user = caller /\ <<caller, name>> \notin DOMAIN GoalByName
  /\ LastGoalId < MaxGoals
  /\ goal' = [h \in Ids \cup DOMAIN created |-> IF h \in Ids THEN goal[h] ELSE created[h]]
  /\ Register(created)
  /\ UNCHANGED <<admin, batches, deposits, progress, GoalPrereqs, marks, notices, clock>>

\* The name register is not consulted and not updated.
UpdateGoalName(caller, g, name) ==
  /\ goal[g].user = caller
  /\ goal' = [goal EXCEPT ![g].goal_name = name]
  /\ UNCHANGED <<admin, register, batches, deposits, progress, GoalPrereqs, marks,
                 notices, clock>>

------------------------------------------------------------------------------
\* Money.

Expired(r) == r.expires_at > 0 /\ timestamp >= r.expires_at
PrereqsMet(g) == \A p \in GoalPrereqs[g] : p \in Ids /\ goal[p].is_complete

\* Mutants: an empty token passes; a reversed contribution frees its token.
FreshTokenOrEmpty(g, token) == token \notin usedTokens[g]
FreshTokenAfterReversal(g, token) ==
  token # EmptyToken /\ \A c \in DOMAIN contributions[g] :
    ~contributions[g][c].reversed => contributions[g][c].token # token
FreshToken(g, token) == token # EmptyToken /\ token \notin usedTokens[g]

ContributeToGoal(caller, g, amount, token) ==
  LET r == goal[g]
      capped == IF r.current_amount + amount > r.target_amount THEN r.target_amount
                ELSE r.current_amount + amount
  IN
  /\ amount > 0 /\ r.user = caller
  /\ FreshToken(g, token)
  /\ ~Expired(r) /\ r.is_active /\ PrereqsMet(g)
  /\ Len(contributions[g]) < MaxContributions
  /\ contributions' = [contributions EXCEPT ![g] = Append(@,
       [amount |-> capped - r.current_amount, contributed_at |-> timestamp,
        token |-> token, reversed |-> FALSE])]
  /\ usedTokens' = [usedTokens EXCEPT ![g] = @ \cup {token}]
  /\ CheckMilestones(Update(g, WithBalance(r, capped)), {g})
  /\ UNCHANGED <<admin, register, batches, GoalPrereqs, marks, notices, clock>>

\* Mutant: a reversed record is reversed again.
ReversibleTwice(g, c) ==
  c \in DOMAIN contributions[g]
    /\ timestamp <= contributions[g][c].contributed_at + REVERSAL_PERIOD_SECS
Reversible(g, c) ==
  /\ c \in DOMAIN contributions[g]
  /\ ~contributions[g][c].reversed
  /\ timestamp <= contributions[g][c].contributed_at + REVERSAL_PERIOD_SECS

\* Neither is_active nor the milestones are looked at.
ReverseContribution(caller, g, c) ==
  /\ goal[g].user = caller /\ Reversible(g, c)
  /\ goal' = Update(g, WithBalance(goal[g],
                         goal[g].current_amount - contributions[g][c].amount))
  /\ contributions' = [contributions EXCEPT ![g][c].reversed = TRUE]
  /\ UNCHANGED <<admin, register, batches, usedTokens, progress, GoalPrereqs, marks,
                 notices, clock>>

\* The amount a withdrawal takes from the goal, the early penalty included.
Gross(r, amount) ==
  amount + (IF r.is_complete THEN 0 ELSE (amount * r.penalty_bps) \div 10000)

MayWithdraw(caller, r, amount) ==
  /\ amount > 0 /\ r.user = caller /\ IsOpen(r)
  /\ ~(r.unlock_at > 0 /\ timestamp < r.unlock_at)
  /\ Gross(r, amount) <= r.current_amount

WithdrawFromGoal(caller, g, amount) ==
  /\ MayWithdraw(caller, goal[g], amount)
  /\ goal' = Update(g, WithBalance(goal[g], goal[g].current_amount - Gross(goal[g], amount)))
  /\ UNCHANGED <<admin, register, batches, deposits, progress, GoalPrereqs, marks,
                 notices, clock>>

PartialWithdraw(caller, g, amount) ==
  LET r == goal[g]
      left == WithBalance(r, r.current_amount - Gross(r, amount)) IN
  /\ MayWithdraw(caller, r, amount)
  /\ CheckMilestones(Update(g, [left EXCEPT !.is_active =
                                  @ \/ (r.is_complete /\ ~left.is_complete)]), {g})
  /\ UNCHANGED <<admin, register, batches, deposits, GoalPrereqs, marks, notices, clock>>

\* Mutant: the target only gets the balance; neither its completion nor its
\* milestones are recomputed.
MergeGoalsQuietly(caller, source, target) ==
  /\ source # target
  /\ goal[source].user = caller /\ goal[target].user = caller
  /\ goal[source].is_active /\ goal[target].is_active
  /\ goal' = [goal EXCEPT ![source].current_amount = 0, ![source].is_active = FALSE,
                          ![target].current_amount = @ + goal[source].current_amount]
  /\ UNCHANGED <<admin, register, batches, deposits, progress, GoalPrereqs, marks,
                 notices, clock>>
MergeGoals(caller, source, target) ==
  LET s == goal[source]
      t == goal[target] IN
  /\ source # target
  /\ s.user = caller /\ t.user = caller
  /\ s.is_active /\ t.is_active
  /\ CheckMilestones(
       [goal EXCEPT
          ![source] = [s EXCEPT !.current_amount = 0, !.is_active = FALSE],
          ![target] = WithBalance(t, t.current_amount + s.current_amount)], {target})
  /\ UNCHANGED <<admin, register, batches, deposits, GoalPrereqs, marks, notices, clock>>

------------------------------------------------------------------------------
\* Milestones, prerequisites, alerts and snapshots.

\* Requests are handled in order and each sees the marks of the earlier ones.
MarkAccepted(caller, qs) ==
  {i \in DOMAIN qs :
     /\ qs[i].goal_id \in Ids /\ goal[qs[i].goal_id].user = caller
     /\ qs[i].percentage \in ReachedBy(goal[qs[i].goal_id].current_amount,
                                       goal[qs[i].goal_id].target_amount)
     /\ qs[i].percentage \notin triggered[qs[i].goal_id]
     /\ \A j \in 1..(i - 1) : qs[j] # qs[i]}

BatchMarkMilestones(caller, qs) ==
  LET ok == MarkAccepted(caller, qs)
      accepted == SelectSeq([i \in DOMAIN qs |-> i], LAMBDA i : i \in ok)
      first == Len(milestones) IN
  /\ Len(qs) \in 1..MAX_BATCH_SIZE
  /\ Len(milestones) + Cardinality(ok) <= MaxAchievements
  /\ triggered' = [g \in AllIds |->
       triggered[g] \cup {qs[i].percentage : i \in {j \in ok : qs[j].goal_id = g}}]
  /\ milestones' = milestones \o [k \in DOMAIN accepted |->
       [goal_id |-> qs[accepted[k]].goal_id, percentage |-> qs[accepted[k]].percentage,
        goal_amount |-> goal[qs[accepted[k]].goal_id].current_amount]]
  /\ GoalMilestones' = [g \in AllIds |-> GoalMilestones[g] \o
       SelectSeq([k \in DOMAIN accepted |-> first + k],
                 LAMBDA n : qs[accepted[n - first]].goal_id = g)]
  /\ TotalMilestonesAchieved' = TotalMilestonesAchieved + Cardinality(ok)
  /\ UNCHANGED <<admin, goal, register, batches, deposits, GoalClosedAt, Certificate,
                 GoalPrereqs, notices, clock>>

\* has_dependency_path: the goals reachable from start over prerequisites.
\* Mutant: only direct prerequisites are followed.
ReachableDirectly(start) == {start} \cup GoalPrereqs[start]
Reachable(start) ==
  LET step[n \in 0..MaxGoals] ==
        IF n = 0 THEN {start} ELSE step[n - 1] \cup UNION {GoalPrereqs[h] : h \in step[n - 1]}
  IN  step[MaxGoals]

SetGoalPrerequisites(caller, g, ps) ==
  /\ goal[g].user = caller
  /\ \A p \in ps : /\ p # g /\ p \in Ids /\ goal[p].user = caller
                   /\ g \notin Reachable(p)
  /\ GoalPrereqs' = [GoalPrereqs EXCEPT ![g] = ps]
  /\ UNCHANGED <<admin, goal, register, batches, deposits, progress, marks, notices, clock>>

\* normalize_deadline_alert_thresholds drops zeros and repetitions.
Normalized(ts) == ts \ {0}

SetDefaultAlertThresholds(caller, ts) ==
  /\ admin # None /\ caller = admin /\ Normalized(ts) # {}
  /\ defaults' = Normalized(ts)
  /\ UNCHANGED <<admin, goal, register, batches, deposits, progress, GoalPrereqs, marks,
                 thresholds, alertSent, snapshots, clock>>

SetGoalAlertThresholds(caller, g, ts) ==
  /\ caller = goal[g].user \/ caller = admin
  /\ Normalized(ts) # {}
  /\ thresholds' = [thresholds EXCEPT ![g] = Normalized(ts)]
  /\ UNCHANGED <<admin, goal, register, batches, deposits, progress, GoalPrereqs, marks,
                 defaults, alertSent, snapshots, clock>>

AlertThresholds(g) == IF thresholds[g] = {} THEN defaults ELSE thresholds[g]

DueAlerts(g) == {t \in AlertThresholds(g) : goal[g].deadline - sequence <= t}

ProcessGoalAlerts(g) ==
  /\ goal[g].is_active /\ ~goal[g].is_complete
  /\ sequence < goal[g].deadline
  /\ alertSent' = [alertSent EXCEPT ![g] = @ \cup DueAlerts(g)]
  /\ UNCHANGED <<admin, goal, register, batches, deposits, progress, GoalPrereqs, marks,
                 defaults, thresholds, snapshots, clock>>

RecordGoalSnapshot(caller, g) ==
  /\ goal[g].user = caller
  /\ Len(snapshots[g]) < MaxSnapshots
  /\ snapshots' = [snapshots EXCEPT ![g] =
                     Append(@, [amount |-> goal[g].current_amount, timestamp |-> timestamp])]
  /\ UNCHANGED <<admin, goal, register, batches, deposits, progress, GoalPrereqs, marks,
                 defaults, thresholds, alertSent, clock>>

CloseLedger ==
  /\ sequence < MaxSequence
  /\ sequence' = sequence + 1
  /\ \E seconds \in CloseTimes : timestamp' = timestamp + seconds
  /\ UNCHANGED <<admin, goal, register, batches, deposits, progress, GoalPrereqs, marks,
                 notices>>

Next ==
  \/ \E a \in Users : Initialize(a)
  \/ \E c, a \in Users : SetAdmin(c, a)
  \/ \E c \in Users, qs \in GoalRequests : BatchSetSavingsGoals(c, qs)
  \/ \E c \in Users, g \in Ids, n \in NewNames : CloneSavingsGoal(c, g, n)
  \/ \E c \in Users, g \in Ids, n \in NewNames : UpdateGoalName(c, g, n)
  \/ \E c \in Users, g \in Ids, a \in Amounts, k \in IdempotencyTokens :
       ContributeToGoal(c, g, a, k)
  \/ \E c \in Users, g \in Ids, k \in 1..MaxContributions : ReverseContribution(c, g, k)
  \/ \E c \in Users, g \in Ids, a \in Amounts : WithdrawFromGoal(c, g, a)
  \/ \E c \in Users, g \in Ids, a \in Amounts : PartialWithdraw(c, g, a)
  \/ \E c \in Users, g, h \in Ids : MergeGoals(c, g, h)
  \/ \E c \in Users, qs \in MilestoneRequests : BatchMarkMilestones(c, qs)
  \/ \E c \in Users, g \in Ids, ps \in PrereqLists : SetGoalPrerequisites(c, g, ps)
  \/ \E c \in Users, ts \in ThresholdLists : SetDefaultAlertThresholds(c, ts)
  \/ \E c \in Users, g \in Ids, ts \in ThresholdLists : SetGoalAlertThresholds(c, g, ts)
  \/ \E g \in Ids : ProcessGoalAlerts(g)
  \/ \E c \in Users, g \in Ids : RecordGoalSnapshot(c, g)
  \/ CloseLedger

Spec == Init /\ [][Next]_vars
------------------------------------------------------------------------------
GoalRecord ==
  [user : Users, goal_name : Names, target_amount : Nat \ {0}, current_amount : Int,
   deadline : Nat, created_at : Nat, is_active : BOOLEAN, is_complete : BOOLEAN,
   unlock_at : Nat, expires_at : Nat, penalty_bps : Nat]
ContributionRecord == [amount : Int, contributed_at : Nat, token : IdempotencyTokens \ {EmptyToken},
                       reversed : BOOLEAN]

\* Every reachable state is well formed.  Balances are integers, not naturals:
\* a reversal after a withdrawal leaves a negative one.
TypeOK ==
  /\ admin \in Users \cup {None}
  /\ LastGoalId \in 0..MaxGoals /\ TotalGoalsCreated \in Nat /\ batches \in Nat
  /\ goal \in [1..LastGoalId -> GoalRecord]
  /\ DOMAIN GoalByName \subseteq Users \X Names
  /\ \A k \in DOMAIN GoalByName : GoalByName[k] \in Ids
  /\ \A g \in AllIds : /\ contributions[g] \in Seq(ContributionRecord)
                       /\ usedTokens[g] \subseteq IdempotencyTokens
                       /\ triggered[g] \subseteq MILESTONES
                       /\ GoalClosedAt[g] \in Nat \cup {None}
                       /\ Certificate[g] \in Nat \cup {None}
                       /\ GoalPrereqs[g] \subseteq Ids
  /\ timestamp \in Nat /\ sequence \in Nat

\* Whatever order contributions, withdrawals, merges and reversals come in, a
\* goal that is not in debt has announced every milestone its balance has
\* reached: check_and_emit_milestones is never one call behind.
MilestonesUpToDate ==
  \A g \in Ids : goal[g].current_amount >= 0 =>
    ReachedBy(goal[g].current_amount, goal[g].target_amount) \subseteq triggered[g]

\* The stored is_complete is the comparison of balance and target, except for
\* a goal that was emptied by a merge (merge_goals leaves its flag alone): it
\* stays complete, closed and empty.
CompletionIsExact ==
  \A g \in Ids : \/ goal[g].is_complete = Filled(goal[g])
                 \/ /\ goal[g].is_complete /\ ~goal[g].is_active
                    /\ goal[g].current_amount = 0

\* A goal that was ever closed has a certificate and all four milestones.
ClosedIsCertified ==
  \A g \in AllIds : GoalClosedAt[g] # None =>
    Certificate[g] # None /\ triggered[g] = MILESTONES

\* All three at once: whatever the order of calls, what a goal announces, the
\* flags it shows and the certificate it holds tell the same story.
ProgressAgrees == MilestonesUpToDate /\ CompletionIsExact /\ ClosedIsCertified

\* Prerequisites never form a cycle, or no goal on it could ever be filled:
\* every set of goals has one that waits for none of the others.
PrereqsAcyclic ==
  \A S \in (SUBSET Ids) \ {{}} : \E g \in S : GoalPrereqs[g] \cap S = {}

\* A retried contribution is applied once: no token occurs in two records of a
\* goal, and the tokens refused are exactly those of the records.
TokensSpendOnce ==
  \A g \in AllIds :
    LET Tokens == {contributions[g][c].token : c \in DOMAIN contributions[g]} IN
    usedTokens[g] = Tokens /\ Cardinality(Tokens) = Len(contributions[g])

\* What a goal holds beyond its contributions that have not been reversed.
Rest(g) == goal[g].current_amount -
  SumTo([c \in DOMAIN contributions[g] |->
           IF contributions[g][c].reversed THEN 0 ELSE contributions[g][c].amount],
        Len(contributions[g]))

\* Contributing and reversing move exactly the recorded amounts, capped or not;
\* no call on existing goals creates money; and a goal that is neither active
\* nor complete only changes by a reversal of a contribution not yet reversed.
ContributionsBackBalances ==
  [][/\ contributions' # contributions => \A g \in Ids : Rest(g)' = Rest(g)
     /\ SumTo([g \in Ids |-> Rest(g)'], LastGoalId)
          <= SumTo([g \in Ids |-> Rest(g)], LastGoalId)
     /\ \A g \in Ids : ~IsOpen(goal[g]) /\ contributions'[g] = contributions[g] =>
          goal'[g].current_amount = goal[g].current_amount]_vars

\* get_user_goals lists every goal of a user once, in creation order, and the
\* counters agree with the goals there are, however batches part-fail.
IndexIsComplete ==
  /\ LastGoalId = Cardinality(Ids) /\ TotalGoalsCreated = LastGoalId
  /\ \A u \in Users :
       LET ids == UserGoals[u]
       IN  /\ {ids[k] : k \in DOMAIN ids} = {g \in Ids : goal[g].user = u}
           /\ \A j, k \in DOMAIN ids : j < k => ids[j] < ids[k]
  /\ \A k \in DOMAIN GoalByName : goal[GoalByName[k]].user = k[1]

\* An alert that is marked as sent was due when it was sent.
AlertsWereDue ==
  \A g \in Ids : \A t \in alertSent[g] : goal[g].deadline - sequence <= t

------------------------------------------------------------------------------
\* What comments of the source say and the code does not do.

\* lib.rs, get_certificate: None "if the goal hasn't reached 100% yet".
CertificateMeansFilled ==
  [][\A g \in DOMAIN goal' :
       Certificate[g] = None /\ Certificate'[g] # None => Filled(goal'[g])]_vars
===============================================================================
