-------------------------- MODULE SavingsWithdrawals --------------------------
(***************************************************************************)
(* Withdrawals from savings that need approvals: the functions of          *)
(* contracts/multisig_savings_withdrawal.rs as the contract of             *)
(* multisig_savings_integration.rs exposes them.  No entry point asks for  *)
(* an administrator, initialisation can be repeated and starts the numbers *)
(* again while the old requests, approvals and counts stay stored, and a   *)
(* withdrawal below the threshold needs its approvals like any other.      *)
(***************************************************************************)
EXTENDS Sequences, FiniteSets, Integers

CONSTANTS Users, Unset,
          ApproverLists, Quorums, WithdrawalThresholds,  \* configuration arguments
          WithdrawalAmounts, MaxWithdrawals

VARIABLES Approvers, Quorum, WithdrawalThreshold,  \* Unset before the first configuration
          NextWithdrawalId,     \* 0 before the first one too
          WithdrawalRequest,    \* id -> [requester, amount]
          WithdrawalStatus,     \* id -> "Pending" or "Executed"
          WithdrawalApproval,   \* the set of <<id, approver>> keys
          WithdrawalApprovalCount
settings == <<Approvers, Quorum, WithdrawalThreshold>>
requests == <<NextWithdrawalId, WithdrawalRequest, WithdrawalStatus>>
approvals == <<WithdrawalApproval, WithdrawalApprovalCount>>
vars == <<settings, requests, approvals>>

Ids == DOMAIN WithdrawalRequest
RequestRecord == [requester : Users, amount : Nat \ {0}]

\* What the proofs assume of the constants: the arguments have their types, and an absent
\* setting is not a number.
WithdrawalsAssumption ==
  /\ Unset \notin Nat
  /\ \A as \in ApproverLists : as \in Seq(Users)
  /\ WithdrawalThresholds \subseteq Int /\ WithdrawalAmounts \subseteq Int
  /\ MaxWithdrawals \in Nat

Init == /\ Approvers = << >> /\ Quorum = Unset /\ WithdrawalThreshold = Unset
        /\ NextWithdrawalId = 0
        /\ WithdrawalRequest = << >> /\ WithdrawalStatus = << >>
        /\ WithdrawalApproval = {} /\ WithdrawalApprovalCount = [i \in 1..MaxWithdrawals |-> 0]

ValidApproverConfig(approvers, quorum) ==
  /\ quorum \in 1..Len(approvers)
  /\ \A i, j \in DOMAIN approvers : approvers[i] = approvers[j] => i = j

InitializeWithdrawalConfig(approvers, quorum, threshold) ==
  /\ ValidApproverConfig(approvers, quorum)
  /\ threshold >= 0
  /\ Approvers' = approvers /\ Quorum' = quorum /\ WithdrawalThreshold' = threshold
  /\ NextWithdrawalId' = 0
  /\ UNCHANGED <<WithdrawalRequest, WithdrawalStatus, approvals>>

SetWithdrawalThreshold(threshold) ==
  /\ threshold >= 0
  /\ WithdrawalThreshold' = threshold
  /\ UNCHANGED <<Approvers, Quorum, requests, approvals>>

SetWithdrawalApprovers(approvers, quorum) ==
  /\ ValidApproverConfig(approvers, quorum)
  /\ Approvers' = approvers /\ Quorum' = quorum
  /\ UNCHANGED <<WithdrawalThreshold, requests, approvals>>

Put(f, n, x) == [i \in DOMAIN f \cup {n} |-> IF i = n THEN x ELSE f[i]]

RequestWithdrawal(requester, amount) ==
  LET id == NextWithdrawalId + 1 IN
  /\ id <= MaxWithdrawals
  /\ amount > 0
  /\ WithdrawalThreshold # Unset
  /\ NextWithdrawalId' = id
  /\ WithdrawalRequest' = Put(WithdrawalRequest, id, [requester |-> requester, amount |-> amount])
  /\ WithdrawalStatus' = Put(WithdrawalStatus, id, "Pending")
  /\ UNCHANGED <<settings, approvals>>

IsApprover(u) == \E i \in DOMAIN Approvers : Approvers[i] = u

NotApproved(id, u) == <<id, u>> \notin WithdrawalApproval
Reaches(count) == count >= Quorum

\* The approval that reaches the quorum executes the withdrawal.
ApproveWithdrawal(approver, id) ==
  LET count == WithdrawalApprovalCount[id] + 1 IN
  /\ IsApprover(approver)
  /\ WithdrawalStatus[id] = "Pending"
  /\ NotApproved(id, approver)
  /\ WithdrawalApproval' = WithdrawalApproval \cup {<<id, approver>>}
  /\ WithdrawalApprovalCount' = [WithdrawalApprovalCount EXCEPT ![id] = count]
  /\ WithdrawalStatus' = IF Reaches(count)
                         THEN [WithdrawalStatus EXCEPT ![id] = "Executed"]
                         ELSE WithdrawalStatus
  /\ UNCHANGED <<settings, NextWithdrawalId, WithdrawalRequest>>

\* By anyone: the approvals may have become enough after the last of them.
ExecuteWithdrawal(id) ==
  /\ WithdrawalStatus[id] # "Executed"
  /\ Quorum # Unset
  /\ Reaches(WithdrawalApprovalCount[id])
  /\ WithdrawalStatus' = [WithdrawalStatus EXCEPT ![id] = "Executed"]
  /\ UNCHANGED <<settings, NextWithdrawalId, WithdrawalRequest, approvals>>

Next ==
  \/ \E as \in ApproverLists, q \in Quorums, t \in WithdrawalThresholds :
       InitializeWithdrawalConfig(as, q, t)
  \/ \E t \in WithdrawalThresholds : SetWithdrawalThreshold(t)
  \/ \E as \in ApproverLists, q \in Quorums : SetWithdrawalApprovers(as, q)
  \/ \E u \in Users, a \in WithdrawalAmounts : RequestWithdrawal(u, a)
  \/ \E u \in Users, id \in Ids : ApproveWithdrawal(u, id)
  \/ \E id \in Ids : ExecuteWithdrawal(id)

Spec == Init /\ [][Next]_vars

------------------------------------------------------------------------------
\* Every reachable state is well formed.
TypeOK ==
  /\ Approvers \in Seq(Users)
  /\ Quorum = Unset <=> Approvers = << >>
  /\ Approvers # << >> => ValidApproverConfig(Approvers, Quorum)
  /\ WithdrawalThreshold \in Nat \cup {Unset}
  /\ NextWithdrawalId \in 0..Cardinality(Ids) /\ Ids = 1..Cardinality(Ids)
  /\ WithdrawalRequest \in [Ids -> RequestRecord]
  /\ WithdrawalStatus \in [Ids -> {"Pending", "Executed"}]
  /\ WithdrawalApproval \subseteq Ids \X Users

ApprovedBy(id) == {u \in Users : <<id, u>> \in WithdrawalApproval}

\* Whatever happens to the approvers, the quorum and the numbering in between,
\* the count of a number is the number of different addresses that approved
\* under it, and a withdrawal is executed by as many of them as the quorum of
\* that moment asks for.
QuorumOfDifferentApprovers ==
  /\ [](\A id \in Ids : WithdrawalApprovalCount[id] = Cardinality(ApprovedBy(id)))
  /\ [][\A id \in Ids :
          WithdrawalStatus[id] = "Pending" /\ WithdrawalStatus'[id] = "Executed"
            => Cardinality(ApprovedBy(id)') >= Quorum]_vars
===============================================================================
