------------------------------ MODULE Governance ------------------------------
(***************************************************************************)
(* The governance contract (contracts/governance.rs): anybody proposes a   *)
(* configuration value, anybody votes for it once, and anybody executes it *)
(* when it has enough approvals and its deadline has not passed.  Approvals*)
(* are counted in the proposal, votes are keys of their own.  The counters *)
(* are u32; the bounds keep them far from their limit.                     *)
(***************************************************************************)
EXTENDS Integers, FiniteSets

CONSTANTS Users,
          Unset,               \* a key that is not stored
          Keys, Values,        \* configuration strings of an accepted length
          BadKeys,             \* empty or longer than MAX_CONFIG_STRING_LENGTH
          BadValues,           \* longer than MAX_CONFIG_STRING_LENGTH
          Thresholds,          \* required_approvals arguments
          Durations,           \* duration_seconds arguments
          MaxProposals, MaxTime

ASSUME UsersAssumption == IsFiniteSet(Users)
ASSUME InputAssumption == /\ Thresholds \subseteq Nat /\ Durations \subseteq Nat
                          /\ BadKeys \cap Keys = {} /\ BadValues \cap Values = {}
ASSUME UnsetAssumption == Unset \notin Users \cup Values \cup Nat
ASSUME BoundAssumption == MaxProposals \in Nat /\ MaxTime \in Nat

VARIABLES Admin, RequiredApprovals,
          ProposalCount,
          Proposals,           \* Proposal(1..ProposalCount)
          UserVote,            \* the set of <<id, user>> keys that are true
          ConfigValue,
          timestamp
vars == <<Admin, RequiredApprovals, ProposalCount, Proposals, UserVote, ConfigValue,
          timestamp>>

Proposal == [proposer : Users, config_key : Keys, config_value : Values,
             approvals : Nat, executed : BOOLEAN, deadline : Nat]
Ids == DOMAIN Proposals

Init ==
  /\ Admin = Unset /\ RequiredApprovals = Unset /\ ProposalCount = Unset
  /\ Proposals = [p \in {} |-> Unset] /\ UserVote = {}
  /\ ConfigValue = [k \in Keys |-> Unset]
  /\ timestamp = 0

InitializeGovernance(admin, required_approvals) ==
  /\ Admin = Unset
  /\ Admin' = admin
  /\ RequiredApprovals' = required_approvals
  /\ ProposalCount' = 0
  /\ UNCHANGED <<Proposals, UserVote, ConfigValue, timestamp>>

UpdateAdmin(current_admin, new_admin) ==
  /\ Admin # Unset /\ Admin = current_admin
  /\ Admin' = new_admin
  /\ UNCHANGED <<RequiredApprovals, ProposalCount, Proposals, UserVote, ConfigValue,
                 timestamp>>

\* Mutant: the proposer's approval is counted when the proposal is made.
NewProposalApproved(proposer, key, value, duration) ==
  [proposer |-> proposer, config_key |-> key, config_value |-> value,
   approvals |-> 1, executed |-> FALSE, deadline |-> timestamp + duration]
NewProposal(proposer, key, value, duration) ==
  [proposer |-> proposer, config_key |-> key, config_value |-> value,
   approvals |-> 0, executed |-> FALSE, deadline |-> timestamp + duration]

\* Mutant: the strings are not validated.
ValidConfigAny(key, value) == TRUE
ValidConfig(key, value) == key \notin BadKeys /\ value \notin BadValues

CreateProposal(proposer, key, value, duration) ==
  /\ ValidConfig(key, value)
  /\ duration # 0
  /\ ProposalCount # Unset
  /\ ProposalCount < MaxProposals
  /\ ProposalCount' = ProposalCount + 1
  /\ Proposals' = [p \in Ids \cup {ProposalCount + 1} |->
                     IF p = ProposalCount + 1
                     THEN NewProposal(proposer, key, value, duration) ELSE Proposals[p]]
  /\ UNCHANGED <<Admin, RequiredApprovals, UserVote, ConfigValue, timestamp>>

\* Mutant: votes and executions after the deadline.
OpenForever(p) == ~Proposals[p].executed
Open(p) == ~Proposals[p].executed /\ timestamp <= Proposals[p].deadline

\* Mutant: the vote key is not looked at.
FirstVoteAny(p, voter) == TRUE
FirstVote(p, voter) == <<p, voter>> \notin UserVote

VoteProposal(voter, p) ==
  /\ Open(p)
  /\ FirstVote(p, voter)
  /\ UserVote' = UserVote \cup {<<p, voter>>}
  /\ Proposals' = [Proposals EXCEPT ![p].approvals = @ + 1]
  /\ UNCHANGED <<Admin, RequiredApprovals, ProposalCount, ConfigValue, timestamp>>

\* Mutant: one approval less is enough.
EnoughButOne(p) == Proposals[p].approvals + 1 >= RequiredApprovals
EnoughApprovals(p) == Proposals[p].approvals >= RequiredApprovals

ExecuteProposal(caller, p) ==
  /\ Open(p)
  /\ RequiredApprovals # Unset
  /\ EnoughApprovals(p)
  /\ ConfigValue' = [ConfigValue EXCEPT ![Proposals[p].config_key] = Proposals[p].config_value]
  /\ Proposals' = [Proposals EXCEPT ![p].executed = TRUE]
  /\ UNCHANGED <<Admin, RequiredApprovals, ProposalCount, UserVote, timestamp>>

CloseLedger ==
  /\ timestamp < MaxTime
  /\ timestamp' = timestamp + 1
  /\ UNCHANGED <<Admin, RequiredApprovals, ProposalCount, Proposals, UserVote, ConfigValue>>

Next ==
  \/ \E a \in Users, n \in Thresholds : InitializeGovernance(a, n)
  \/ \E c, a \in Users : UpdateAdmin(c, a)
  \/ \E u \in Users, k \in Keys \cup BadKeys, v \in Values \cup BadValues, d \in Durations :
       CreateProposal(u, k, v, d)
  \/ \E u \in Users, p \in Ids : VoteProposal(u, p)
  \/ \E u \in Users, p \in Ids : ExecuteProposal(u, p)
  \/ CloseLedger

Spec == Init /\ [][Next]_vars

------------------------------------------------------------------------------
\* Every reachable state is well formed: admin, threshold and counter are set
\* together, and the proposals are numbered 1..ProposalCount.
TypeOK ==
  /\ \/ Admin = Unset /\ RequiredApprovals = Unset /\ ProposalCount = Unset /\ Ids = {}
     \/ /\ Admin \in Users /\ RequiredApprovals \in Nat /\ ProposalCount \in Nat
        /\ Ids = 1..ProposalCount
  /\ Proposals \in [Ids -> Proposal]
  /\ UserVote \subseteq Ids \X Users
  /\ ConfigValue \in [Keys -> Values \cup {Unset}]
  /\ timestamp \in Nat

Voters(p) == {u \in Users : <<p, u>> \in UserVote}

\* The approvals counter of a proposal is the number of users who voted for it.
ApprovalsAreVotes == \A p \in Ids : Proposals[p].approvals = Cardinality(Voters(p))

\* Every configuration value in force was proposed, approved by the required
\* number of distinct users, and executed.
ConfigHasMandate ==
  \A k \in Keys : ConfigValue[k] # Unset =>
    \E p \in Ids : /\ Proposals[p].executed
                   /\ Proposals[p].config_key = k
                   /\ Proposals[p].config_value = ConfigValue[k]
                   /\ Cardinality(Voters(p)) >= RequiredApprovals

\* A proposal is decided at most once and in time: an executed proposal never
\* changes again, one past its deadline is never executed or voted for, and
\* what was proposed is never altered.
KeepsDecisions ==
  \A p \in Ids :
    /\ p \in Ids'
    /\ [Proposals'[p] EXCEPT !.approvals = 0, !.executed = FALSE]
         = [Proposals[p] EXCEPT !.approvals = 0, !.executed = FALSE]
    /\ Proposals[p].executed \/ timestamp > Proposals[p].deadline
         => Proposals'[p] = Proposals[p] /\ Voters(p)' = Voters(p)
DecisionsAreFinal == [][KeepsDecisions]_vars

\* Governance implements Mandates: votes are supporters, and executed proposals
\* enacted motions.
Promise == INSTANCE Mandates WITH
  Quorums <- Thresholds,
  quorum <- RequiredApprovals,
  motions <- [p \in Ids |-> [key |-> Proposals[p].config_key,
                             value |-> Proposals[p].config_value]],
  supporters <- [p \in Ids |-> Voters(p)],
  enacted <- {p \in Ids : Proposals[p].executed},
  config <- ConfigValue

\* The configuration changes only by enacting, once, a motion with a quorum of
\* distinct supporters.
ImplementsMandates == Promise!Spec
===============================================================================
