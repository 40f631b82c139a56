--------------------------- MODULE MCSharedBudgets ---------------------------
(***************************************************************************)
(* Small instances of SharedBudgets.  The constants of the configuration   *)
(* are for money: one member, one rule, a retention period, budgets in one *)
(* token.  Two more instances, over the same variables, have budgets in    *)
(* different tokens, and larger member lists that repeat an address.  A    *)
(* behaviour follows the one `focus` names; types and invariants are the   *)
(* same for all.                                                           *)
(***************************************************************************)
EXTENDS SharedBudgets

CONSTANTS ann, bob, vault, nobody, zero, usd, eur,
          Instances      \* the instances to exercise
VARIABLE focus

MCUsers == {ann, bob}
MCTokens == {usd, eur}
MCMembers == {<<ann>>, <<ann, bob>>}
MCFirstMember == {<<ann>>}
Limit(u, p, approval) ==
  [applicable_to |-> u, percentage_threshold |-> p, requires_approval |-> approval]
MCNoRules == {}
MCOneRule == {Limit(ann, 50, FALSE)}
MCAmounts == {0, 1, 2}
MCRetentions == {0, 1}
MCNoRetentions == {}
MCSweeps == {0, 1, 2}
MCF64Below == {<<50, 58>>, <<90, 70>>, <<100, 29>>, <<100, 57>>, <<100, 58>>}
MCOpening == [t \in Tokens |-> [u \in Users \cup {vault} |-> IF u = ann THEN 3 ELSE 0]]
MCModest == [t \in Tokens |-> [u \in Users \cup {vault} |-> IF u = ann THEN 2 ELSE 0]]

Exchange == INSTANCE SharedBudgets WITH
  Rules <- {}, Retentions <- {}, MaxTime <- 0
Membership == INSTANCE SharedBudgets WITH
  MemberLists <- {<<ann>>, << >>, <<ann, bob, bob>>},
  Rules <- {Limit(ann, 50, FALSE), Limit(bob, 101, FALSE)}, Amounts <- {},
  Retentions <- {}, MAX_BUDGET_MEMBERS <- 3, MaxTime <- 0,
  Opening <- [t \in Tokens |-> [u \in Users \cup {vault} |-> 0]]

MCInit == /\ focus \in Instances
          /\ \/ focus = "money" /\ Init
             \/ focus = "tokens" /\ Exchange!Init
             \/ focus = "membership" /\ Membership!Init
MCNext == /\ UNCHANGED focus
          /\ \/ focus = "money" /\ Next /\ \A b \in DOMAIN budget' : budget'[b].token = usd
             \/ focus = "tokens" /\ Exchange!Next
             \/ focus = "membership" /\ Membership!Next
MCSpec == MCInit /\ [][MCNext]_<<focus, vars>>
===============================================================================
