---------------------------- MODULE MCSavingsGoals ----------------------------
(***************************************************************************)
(* Small instances of SavingsGoals.  The constants of the configuration    *)
(* are for money: one saver, two goals, amounts of 1 and 2.  Two more      *)
(* instances of the same module, over the same variables, have two savers  *)
(* who create, clone and rename goals, and three goals that become each    *)
(* other's prerequisites.  A behaviour follows the instance `focus` names. *)
(***************************************************************************)
EXTENDS SavingsGoals, TLC

CONSTANTS ann, bob, car, trip, home, k1, k2, k3, empty,
          Instances      \* the instances to exercise
VARIABLE focus

MCOne == {ann}
MCNames == {car, trip}
MCNoNames == {}
MCTokens == {k1, k2, empty}
MCTokenSymmetry == Permutations({k1, k2})

Goal(u, n, target, initial, lock, expiration, penalty) ==
  [user |-> u, goal_name |-> n, target_amount |-> target,
   initial_contribution |-> initial, deadline |-> 2, lock_duration_seconds |-> lock,
   expiration_seconds |-> expiration, penalty_bps |-> penalty]

MCTwoGoals == {<<Goal(ann, car, 4, 1, 0, 0, 5000), Goal(ann, trip, 2, 0, 0, 0, 0)>>}
MCTwoSmall == {<<Goal(ann, car, 2, 0, 0, 0, 5000), Goal(ann, trip, 2, 1, 0, 0, 0)>>}
\* The second request repeats a name, the third asks for too much and the last
\* one starts above its target.
MCMixed == {<<Goal(ann, car, 2, 0, 1, 2, 0), Goal(ann, car, 2, 0, 0, 0, 0)>>,
            <<Goal(ann, trip, 9, 0, 0, 0, 0), Goal(bob, car, 2, 2, 0, 0, 0)>>,
            <<Goal(bob, trip, 2, 3, 0, 0, 0)>>}
MCThree == {<<Goal(ann, car, 1, 0, 0, 0, 0), Goal(ann, trip, 1, 0, 0, 0, 0),
              Goal(ann, home, 1, 0, 0, 0, 0)>>}

Mark(g, p) == [goal_id |-> g, percentage |-> p]
MCMarks == {<<Mark(1, 100), Mark(1, 100), Mark(2, 25)>>}
MCNoMarks == {}
MCNoPrereqs == {}
MCNoThresholds == {}
MCDefaults == {100, 25, 5}
MCAmounts == {1, 2}
MCCloseTimes == {1}

Creation == INSTANCE SavingsGoals WITH
  Users <- {ann, bob}, NewNames <- MCNames, GoalRequests <- MCMixed,
  MilestoneRequests <- {}, ThresholdLists <- {{0}, {0, 2}}, Amounts <- {},
  DefaultThresholds <- {1}, MaxContributions <- 0, MaxAchievements <- 0,
  MaxSnapshots <- 1, MaxBatches <- 2, MaxSequence <- 1
Chains == INSTANCE SavingsGoals WITH
  Names <- {car, trip, home}, IdempotencyTokens <- {k3}, GoalRequests <- MCThree,
  MilestoneRequests <- {}, PrereqLists <- SUBSET (1..3), Amounts <- {1},
  MaxGoals <- 3, MaxContributions <- 1, MaxAchievements <- 0

MCInit == /\ focus \in Instances
          /\ \/ focus = "money" /\ Init
             \/ focus = "creation" /\ Creation!Init
             \/ focus = "chains" /\ Chains!Init
MCNext == /\ UNCHANGED focus
          /\ \/ focus = "money" /\ Next
             \/ focus = "creation" /\ Creation!Next
             \/ focus = "chains" /\ Chains!Next
MCSpec == MCInit /\ [][MCNext]_<<focus, vars>>

TypesOK == /\ focus = "money" => TypeOK
           /\ focus = "creation" => Creation!TypeOK
           /\ focus = "chains" => Chains!TypeOK
RegisterAgrees == focus = "creation" => Creation!IndexIsComplete /\ Creation!AlertsWereDue
===============================================================================
