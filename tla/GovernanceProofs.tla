--------------------------- MODULE GovernanceProofs ---------------------------
(***************************************************************************)
(* Proofs about Governance.tla for every set of users, configuration       *)
(* strings, thresholds, durations and bounds: type correctness, the        *)
(* agreement of counters and votes, the mandate behind every value in      *)
(* force, the finality of decisions, and that Governance implements        *)
(* Mandates.  The last section proves about Upgrade.tla, where accounts    *)
(* decide together too, for every finite set of accounts and every choice  *)
(* of versions and delays: the invariants of a pending upgrade, and that   *)
(* code is replaced only by an upgrade a threshold of different accounts   *)
(* approved.                                                               *)
(***************************************************************************)
EXTENDS Governance, Upgrade, FiniteSetTheorems, SequenceTheorems, TLAPS

\* TypeOK, with the facts about one action of Next per step.
LEMMA TypeInit == Init => TypeOK
BY DEF Init, TypeOK, Ids

LEMMA TypeNext == TypeOK /\ [Next]_vars => TypeOK'
<1> SUFFICES ASSUME TypeOK, [Next]_vars PROVE TypeOK'
  OBVIOUS
<1>0. /\ Ids = DOMAIN Proposals
      /\ \A p \in Ids : Proposals[p] \in Proposal
      /\ UserVote \subseteq Ids \X Users
      /\ ConfigValue \in [Keys -> Values \cup {Unset}]
      /\ timestamp \in Nat
  BY DEF TypeOK, Ids
<1>1. ASSUME NEW a \in Users, NEW n \in Thresholds, InitializeGovernance(a, n)
      PROVE  TypeOK'
  <2>1. Admin = Unset /\ Ids = {}
    BY <1>1, UnsetAssumption DEF InitializeGovernance, TypeOK
  <2>2. Ids' = 1..ProposalCount'
    BY <1>1, <2>1 DEF InitializeGovernance, Ids
  <2>3. Admin' \in Users /\ RequiredApprovals' \in Nat /\ ProposalCount' \in Nat
    BY <1>1, InputAssumption DEF InitializeGovernance
  <2> QED
    BY <1>0, <1>1, <2>2, <2>3 DEF InitializeGovernance, TypeOK, Ids
<1>2. ASSUME NEW c \in Users, NEW a \in Users, UpdateAdmin(c, a) PROVE TypeOK'
  BY <1>2, UnsetAssumption DEF UpdateAdmin, TypeOK, Ids
<1>3. ASSUME NEW u \in Users, NEW k \in Keys \cup BadKeys, NEW v \in Values \cup BadValues,
             NEW d \in Durations, CreateProposal(u, k, v, d)
      PROVE  TypeOK'
  <2>1. /\ Admin \in Users /\ RequiredApprovals \in Nat /\ ProposalCount \in Nat
        /\ Ids = 1..ProposalCount
    BY <1>3 DEF CreateProposal, TypeOK
  <2>2. k \in Keys /\ v \in Values /\ d \in Nat
    BY <1>3, InputAssumption DEF CreateProposal, ValidConfig
  <2>3. NewProposal(u, k, v, d) \in Proposal
    BY <1>0, <2>2 DEF NewProposal, Proposal
  <2>4. Ids' = 1..ProposalCount' /\ Ids' = Ids \cup {ProposalCount + 1}
    BY <1>3, <2>1 DEF CreateProposal, Ids
  <2>5. Proposals' \in [Ids' -> Proposal]
    BY <1>0, <1>3, <2>3, <2>4 DEF CreateProposal, Ids
  <2>6. UserVote' \subseteq Ids' \X Users
    BY <1>0, <1>3, <2>4 DEF CreateProposal
  <2> QED
    BY <1>0, <1>3, <2>1, <2>4, <2>5, <2>6 DEF CreateProposal, TypeOK
<1>4. ASSUME NEW u \in Users, NEW p \in Ids, VoteProposal(u, p) PROVE TypeOK'
  <2>1. Ids' = Ids
    BY <1>4 DEF VoteProposal, Ids
  <2>2. [Proposals[p] EXCEPT !.approvals = @ + 1] \in Proposal
    BY <1>0 DEF Proposal
  <2>3. Proposals' \in [Ids' -> Proposal]
    BY <1>0, <1>4, <2>1, <2>2 DEF VoteProposal, TypeOK
  <2>4. UserVote' \subseteq Ids' \X Users
    BY <1>0, <1>4, <2>1 DEF VoteProposal
  <2> QED
    BY <1>0, <1>4, <2>1, <2>3, <2>4 DEF VoteProposal, TypeOK
<1>5. ASSUME NEW u \in Users, NEW p \in Ids, ExecuteProposal(u, p) PROVE TypeOK'
  <2>1. Ids' = Ids
    BY <1>5 DEF ExecuteProposal, Ids
  <2>2. [Proposals[p] EXCEPT !.executed = TRUE] \in Proposal
    BY <1>0 DEF Proposal
  <2>3. Proposals' \in [Ids' -> Proposal]
    BY <1>0, <1>5, <2>1, <2>2 DEF ExecuteProposal, TypeOK
  <2>4. ConfigValue' \in [Keys -> Values \cup {Unset}]
    BY <1>0, <1>5 DEF ExecuteProposal, Proposal
  <2> QED
    BY <1>0, <1>5, <2>1, <2>3, <2>4 DEF ExecuteProposal, TypeOK
<1>6. CASE CloseLedger
  BY <1>0, <1>6 DEF CloseLedger, TypeOK, Ids
<1>7. CASE UNCHANGED vars
  BY <1>7 DEF vars, TypeOK, Ids
<1> QED
  BY <1>1, <1>2, <1>3, <1>4, <1>5, <1>6, <1>7 DEF Next

\* In every reachable state the governance record is well formed.
THEOREM TypeCorrect == Spec => []TypeOK
BY TypeInit, TypeNext, PTL DEF Spec

------------------------------------------------------------------------------
\* Votes.

\* What the calls do to the sets of voters: a vote adds the voter to one of them
\* and nothing else changes any; a new proposal has none.
LEMMA VotersFinite == \A p : IsFiniteSet(Voters(p)) /\ Voters(p) \in SUBSET Users
<1> SUFFICES ASSUME NEW p PROVE IsFiniteSet(Voters(p)) /\ Voters(p) \in SUBSET Users
  OBVIOUS
<1>1. Voters(p) \in SUBSET Users
  BY DEF Voters
<1> QED
  BY <1>1, UsersAssumption, FS_Subset

LEMMA VotersKept ==
  ASSUME UserVote' = UserVote
  PROVE  \A p : Voters(p)' = Voters(p)
BY DEF Voters

LEMMA VotersOfVote ==
  ASSUME TypeOK, NEW u \in Users, NEW p \in Ids, VoteProposal(u, p)
  PROVE  /\ Voters(p)' = Voters(p) \cup {u} /\ u \notin Voters(p)
         /\ \A q : q # p => Voters(q)' = Voters(q)
<1>1. UserVote' = UserVote \cup {<<p, u>>} /\ <<p, u>> \notin UserVote
  BY DEF VoteProposal, FirstVote
<1> QED
  BY <1>1 DEF Voters

\* The effect of a vote on the counter of its proposal.
LEMMA VoteCounts ==
  ASSUME TypeOK, NEW u \in Users, NEW p \in Ids, VoteProposal(u, p)
  PROVE  /\ Ids' = Ids
         /\ \A q \in Ids : Proposals'[q].approvals = Proposals[q].approvals
                                                     + (IF q = p THEN 1 ELSE 0)
         /\ \A q \in Ids : Cardinality(Voters(q))' = Cardinality(Voters(q))
                                                     + (IF q = p THEN 1 ELSE 0)
<1>1. \A q \in Ids : Proposals[q] \in Proposal
  BY DEF TypeOK, Ids
<1>2. Proposals' = [Proposals EXCEPT ![p].approvals = @ + 1]
  BY DEF VoteProposal
<1>3. \A q \in Ids : Proposals'[q].approvals = Proposals[q].approvals
                                              + (IF q = p THEN 1 ELSE 0)
  BY <1>1, <1>2 DEF Ids, Proposal
<1>4. ASSUME NEW q \in Ids
      PROVE  Cardinality(Voters(q))' = Cardinality(Voters(q)) + (IF q = p THEN 1 ELSE 0)
  <2>1. IsFiniteSet(Voters(q)) /\ Cardinality(Voters(q)) \in Nat
    BY VotersFinite, FS_CardinalityType
  <2>2. CASE q = p
    <3>1. Voters(p)' = Voters(p) \cup {u} /\ u \notin Voters(p)
      BY VotersOfVote
    <3>2. Cardinality(Voters(p) \cup {u}) = Cardinality(Voters(p)) + 1
      BY <2>1, <2>2, <3>1, FS_AddElement
    <3> QED
      BY <2>2, <3>1, <3>2
  <2>3. CASE q # p
    <3>1. Voters(q)' = Voters(q)
      BY <2>3, VotersOfVote
    <3> QED
      BY <2>1, <2>3, <3>1
  <2> QED
    BY <2>2, <2>3
<1> QED
  BY <1>2, <1>3, <1>4 DEF Ids

\* A proposal has no votes before it exists.
LEMMA NewProposalHasNoVotes ==
  ASSUME TypeOK, NEW p, p \notin Ids
  PROVE  Voters(p) = {} /\ Cardinality(Voters(p)) = 0
<1>1. Voters(p) = {}
  BY DEF TypeOK, Voters
<1> QED
  BY <1>1, FS_EmptySet

LEMMA VotesNext ==
  ASSUME TypeOK, ApprovalsAreVotes, [Next]_vars
  PROVE  ApprovalsAreVotes'
<1>0. \A p \in Ids : Proposals[p] \in Proposal /\ Proposals[p].approvals = Cardinality(Voters(p))
  BY DEF TypeOK, Ids, ApprovalsAreVotes
<1>1. ASSUME Proposals' = Proposals, UserVote' = UserVote PROVE ApprovalsAreVotes'
  <2>1. \A p : Voters(p)' = Voters(p)
    BY <1>1, VotersKept
  <2> QED
    BY <1>0, <1>1, <2>1 DEF ApprovalsAreVotes, Ids
<1>2. ASSUME NEW u \in Users, NEW k \in Keys \cup BadKeys, NEW v \in Values \cup BadValues,
             NEW d \in Durations, CreateProposal(u, k, v, d)
      PROVE  ApprovalsAreVotes'
  <2> DEFINE n == ProposalCount + 1
  <2>1. n \notin Ids
    BY <1>2 DEF CreateProposal, TypeOK
  <2>2. Cardinality(Voters(n)) = 0
    BY <2>1, NewProposalHasNoVotes
  <2>3. \A p : Voters(p)' = Voters(p)
    BY <1>2, VotersKept DEF CreateProposal
  <2>4. /\ Ids' = Ids \cup {n}
        /\ \A p \in Ids : Proposals'[p] = Proposals[p]
        /\ Proposals'[n].approvals = 0
    BY <1>2, <2>1 DEF CreateProposal, NewProposal, Ids
  <2> HIDE DEF n
  <2> QED
    BY <1>0, <2>2, <2>3, <2>4 DEF ApprovalsAreVotes
<1>3. ASSUME NEW u \in Users, NEW p \in Ids, VoteProposal(u, p) PROVE ApprovalsAreVotes'
  BY <1>0, <1>3, VoteCounts DEF ApprovalsAreVotes
<1>4. ASSUME NEW u \in Users, NEW p \in Ids, ExecuteProposal(u, p) PROVE ApprovalsAreVotes'
  <2>1. Proposals' = [Proposals EXCEPT ![p].executed = TRUE] /\ UserVote' = UserVote
    BY <1>4 DEF ExecuteProposal
  <2>2. \A q : Voters(q)' = Voters(q)
    BY <2>1, VotersKept
  <2>3. Ids' = Ids /\ \A q \in Ids : Proposals'[q].approvals = Proposals[q].approvals
    BY <1>0, <2>1 DEF Ids, Proposal
  <2> QED
    BY <1>0, <2>2, <2>3 DEF ApprovalsAreVotes
<1>5. ASSUME \/ \E a \in Users, n \in Thresholds : InitializeGovernance(a, n)
             \/ \E c, a \in Users : UpdateAdmin(c, a)
             \/ CloseLedger
             \/ UNCHANGED vars
      PROVE  ApprovalsAreVotes'
  <2>1. Proposals' = Proposals /\ UserVote' = UserVote
    BY <1>5 DEF InitializeGovernance, UpdateAdmin, CloseLedger, vars
  <2> QED
    BY <1>1, <2>1
<1> QED
  BY <1>2, <1>3, <1>4, <1>5 DEF Next

\* The approvals counter of every proposal is the number of its distinct voters.
THEOREM VotesCounted == Spec => []ApprovalsAreVotes
<1>1. Init => ApprovalsAreVotes
  BY DEF Init, ApprovalsAreVotes, Ids
<1> QED
  BY <1>1, TypeInit, TypeNext, VotesNext, PTL DEF Spec

------------------------------------------------------------------------------
\* Decisions.

\* What each kind of step does to the proposals that exist before it: it leaves
\* them alone, or votes for one, or executes one, both open.
Unchanged(p) == Proposals'[p] = Proposals[p] /\ Voters(p)' = Voters(p)
VotedFor(p) == /\ Open(p)
               /\ Proposals'[p] = [Proposals[p] EXCEPT !.approvals = @ + 1]
Executed(p) == /\ Open(p) /\ EnoughApprovals(p) /\ RequiredApprovals # Unset
               /\ Proposals'[p] = [Proposals[p] EXCEPT !.executed = TRUE]
               /\ Voters(p)' = Voters(p)

LEMMA StepOnProposal ==
  ASSUME TypeOK, [Next]_vars, NEW p \in Ids
  PROVE  p \in Ids' /\ (Unchanged(p) \/ VotedFor(p) \/ Executed(p))
<1>0. p \in DOMAIN Proposals
  BY DEF Ids
<1>1. ASSUME Proposals' = Proposals, UserVote' = UserVote
      PROVE  p \in Ids' /\ Unchanged(p)
  BY <1>0, <1>1, VotersKept DEF Unchanged, Ids
<1>2. ASSUME NEW u \in Users, NEW k \in Keys \cup BadKeys, NEW v \in Values \cup BadValues,
             NEW d \in Durations, CreateProposal(u, k, v, d)
      PROVE  p \in Ids' /\ Unchanged(p)
  <2>1. p # ProposalCount + 1
    BY <1>2 DEF CreateProposal, TypeOK
  <2> QED
    BY <1>0, <1>2, <2>1, VotersKept DEF CreateProposal, Unchanged, Ids
<1>3. ASSUME NEW u \in Users, NEW q \in Ids, VoteProposal(u, q)
      PROVE  p \in Ids' /\ (Unchanged(p) \/ VotedFor(p))
  <2>1. Proposals' = [Proposals EXCEPT ![q].approvals = @ + 1] /\ Open(q)
    BY <1>3 DEF VoteProposal
  <2>2. p \in Ids'
    BY <1>0, <2>1 DEF Ids
  <2>3. CASE p = q
    BY <1>0, <2>1, <2>2, <2>3 DEF VotedFor
  <2>4. CASE p # q
    <3>1. Voters(p)' = Voters(p)
      BY <1>3, <2>4, VotersOfVote
    <3> QED
      BY <1>0, <2>1, <2>2, <2>4, <3>1 DEF Unchanged
  <2> QED
    BY <2>3, <2>4
<1>4. ASSUME NEW u \in Users, NEW q \in Ids, ExecuteProposal(u, q)
      PROVE  p \in Ids' /\ (Unchanged(p) \/ Executed(p))
  <2>1. /\ Proposals' = [Proposals EXCEPT ![q].executed = TRUE]
        /\ Open(q) /\ EnoughApprovals(q) /\ RequiredApprovals # Unset
        /\ Voters(p)' = Voters(p)
    BY <1>4, VotersKept DEF ExecuteProposal
  <2>2. p \in Ids'
    BY <1>0, <2>1 DEF Ids
  <2> QED
    BY <1>0, <2>1, <2>2 DEF Executed, Unchanged
<1>5. ASSUME \/ \E a \in Users, n \in Thresholds : InitializeGovernance(a, n)
             \/ \E c, a \in Users : UpdateAdmin(c, a)
             \/ CloseLedger
             \/ UNCHANGED vars
      PROVE  p \in Ids' /\ Unchanged(p)
  BY <1>1, <1>5 DEF InitializeGovernance, UpdateAdmin, CloseLedger, vars
<1> QED
  BY <1>2, <1>3, <1>4, <1>5 DEF Next

\* Neither a vote nor an execution touches what was proposed.
LEMMA SameMotion ==
  ASSUME NEW r \in Proposal
  PROVE  /\ [[r EXCEPT !.approvals = @ + 1] EXCEPT !.approvals = 0, !.executed = FALSE]
              = [r EXCEPT !.approvals = 0, !.executed = FALSE]
         /\ [[r EXCEPT !.executed = TRUE] EXCEPT !.approvals = 0, !.executed = FALSE]
              = [r EXCEPT !.approvals = 0, !.executed = FALSE]
BY DEF Proposal

LEMMA DecisionsNext ==
  ASSUME TypeOK, [Next]_vars
  PROVE  KeepsDecisions
<1> SUFFICES ASSUME NEW p \in Ids
             PROVE  /\ p \in Ids'
                    /\ [Proposals'[p] EXCEPT !.approvals = 0, !.executed = FALSE]
                         = [Proposals[p] EXCEPT !.approvals = 0, !.executed = FALSE]
                    /\ Proposals[p].executed \/ timestamp > Proposals[p].deadline
                         => Proposals'[p] = Proposals[p] /\ Voters(p)' = Voters(p)
  BY DEF KeepsDecisions
<1>1. Proposals[p] \in Proposal /\ timestamp \in Nat /\ Proposals[p].deadline \in Nat
  BY DEF TypeOK, Ids, Proposal
<1>2. p \in Ids' /\ (Unchanged(p) \/ VotedFor(p) \/ Executed(p))
  BY StepOnProposal
<1>3. CASE Unchanged(p)
  BY <1>2, <1>3 DEF Unchanged
<1>4. CASE VotedFor(p) \/ Executed(p)
  <2>1. ~Proposals[p].executed /\ ~(timestamp > Proposals[p].deadline)
    BY <1>1, <1>4 DEF VotedFor, Executed, Open
  <2>2. [Proposals'[p] EXCEPT !.approvals = 0, !.executed = FALSE]
          = [Proposals[p] EXCEPT !.approvals = 0, !.executed = FALSE]
    BY <1>1, <1>4, SameMotion DEF VotedFor, Executed
  <2> QED
    BY <1>2, <2>1, <2>2
<1> QED
  BY <1>2, <1>3, <1>4

\* A proposal is executed at most once, in time, and never altered.
THEOREM Finality == Spec => DecisionsAreFinal
<1>1. TypeOK /\ [Next]_vars => [KeepsDecisions]_vars
  BY DecisionsNext
<1> QED
  BY <1>1, TypeInit, TypeNext, PTL DEF Spec, DecisionsAreFinal

------------------------------------------------------------------------------
\* The mandate of the configuration.

\* Proposal p is a mandate for the value v of the key k.
Mandate(p, k, v) == /\ Proposals[p].executed
                    /\ Proposals[p].config_key = k
                    /\ Proposals[p].config_value = v
                    /\ Cardinality(Voters(p)) >= RequiredApprovals

\* Mandates survive every step: an executed proposal is final, and the threshold
\* is set once, before the first proposal.
LEMMA MandatesKept ==
  ASSUME TypeOK, [Next]_vars, NEW p \in Ids, NEW k, NEW v, Mandate(p, k, v)
  PROVE  p \in Ids' /\ Mandate(p, k, v)'
<1>1. p \in Ids' /\ Proposals'[p] = Proposals[p] /\ Voters(p)' = Voters(p)
  BY StepOnProposal DEF Unchanged, VotedFor, Executed, Open, Mandate
<1>2. RequiredApprovals' = RequiredApprovals
  <2>1. Admin # Unset
    BY UnsetAssumption DEF TypeOK
  <2> QED
    BY <2>1 DEF Next, InitializeGovernance, UpdateAdmin, CreateProposal, VoteProposal,
                ExecuteProposal, CloseLedger, vars
<1> QED
  BY <1>1, <1>2 DEF Mandate

LEMMA MandateNext ==
  ASSUME TypeOK, ApprovalsAreVotes, ConfigHasMandate, [Next]_vars
  PROVE  ConfigHasMandate'
<1>0. SUFFICES ASSUME NEW k \in Keys, ConfigValue'[k] # Unset
               PROVE  \E p \in Ids' : Mandate(p, k, ConfigValue[k])'
  BY DEF ConfigHasMandate, Mandate
<1>1. CASE ConfigValue'[k] = ConfigValue[k]
  <2>1. PICK p \in Ids : Mandate(p, k, ConfigValue[k])
    BY <1>0, <1>1 DEF ConfigHasMandate, Mandate
  <2>2. p \in Ids' /\ Mandate(p, k, ConfigValue[k])'
    BY <1>1, <2>1, MandatesKept DEF Mandate
  <2> QED
    BY <2>2
<1>2. CASE ConfigValue'[k] # ConfigValue[k]
  <2>1. PICK u \in Users, p \in Ids : ExecuteProposal(u, p)
    BY <1>2 DEF Next, InitializeGovernance, UpdateAdmin, CreateProposal, VoteProposal,
                CloseLedger, vars
  <2>2. Proposals[p] \in Proposal /\ Proposals[p].approvals = Cardinality(Voters(p))
    BY DEF TypeOK, Ids, ApprovalsAreVotes
  <2>3. /\ ConfigValue' = [ConfigValue EXCEPT ![Proposals[p].config_key] = Proposals[p].config_value]
        /\ Proposals' = [Proposals EXCEPT ![p].executed = TRUE]
        /\ RequiredApprovals' = RequiredApprovals
        /\ Proposals[p].approvals >= RequiredApprovals
        /\ UserVote' = UserVote
    BY <2>1 DEF ExecuteProposal, EnoughApprovals
  <2>4. Proposals[p].config_key = k /\ ConfigValue'[k] = Proposals[p].config_value
    BY <1>2, <2>3 DEF TypeOK
  <2>5. p \in Ids' /\ Proposals'[p] = [Proposals[p] EXCEPT !.executed = TRUE]
    BY <2>3 DEF Ids
  <2>6. Voters(p)' = Voters(p)
    BY <2>3, VotersKept
  <2>7. /\ Proposals'[p].executed
        /\ Proposals'[p].config_key = k
        /\ Proposals'[p].config_value = ConfigValue'[k]
    BY <2>2, <2>4, <2>5 DEF Proposal
  <2>8. Mandate(p, k, ConfigValue[k])'
    BY <2>2, <2>3, <2>6, <2>7 DEF Mandate
  <2> QED
    BY <2>5, <2>8
<1> QED
  BY <1>1, <1>2

\* Every configuration value in force has an executed proposal with enough
\* distinct voters behind it.
THEOREM MandateHeld == Spec => []ConfigHasMandate
<1>1. Init => ApprovalsAreVotes /\ ConfigHasMandate
  BY DEF Init, ApprovalsAreVotes, ConfigHasMandate, Ids
<1> QED
  BY <1>1, TypeInit, TypeNext, VotesNext, MandateNext, PTL DEF Spec

------------------------------------------------------------------------------
\* Refinement.

\* Mandates counts with the same Cardinality.
LEMMA SameCardinality == \A S : Promise!Cardinality(S) = Cardinality(S)
BY DEF Promise!Cardinality, Cardinality

LEMMA RefinesInit == Init => Promise!Init
<1> SUFFICES ASSUME Init PROVE Promise!Init
  OBVIOUS
<1>1. Ids = {}
  BY DEF Init, Ids
<1> QED
  BY <1>1 DEF Init, Promise!Init

\* A step that leaves the mapped variables alone.
LEMMA RefinesStutter ==
  ASSUME Proposals' = Proposals, UserVote' = UserVote,
         RequiredApprovals' = RequiredApprovals, ConfigValue' = ConfigValue
  PROVE  UNCHANGED Promise!vars
<1>1. \A p : Voters(p)' = Voters(p)
  BY VotersKept
<1> QED
  BY <1>1 DEF Promise!vars, Ids

LEMMA RefinesNext ==
  ASSUME TypeOK, ApprovalsAreVotes, [Next]_vars
  PROVE  [Promise!Next]_(Promise!vars)
<1>0. \A p \in Ids : Proposals[p] \in Proposal
  BY DEF TypeOK, Ids
<1>1. ASSUME NEW a \in Users, NEW n \in Thresholds, InitializeGovernance(a, n)
      PROVE  Promise!Next
  <2>1. RequiredApprovals = Unset
    BY <1>1, UnsetAssumption DEF InitializeGovernance, TypeOK
  <2>2. \A p : Voters(p)' = Voters(p)
    BY <1>1, VotersKept DEF InitializeGovernance
  <2>3. Promise!Found(n)
    BY <1>1, <2>1, <2>2 DEF InitializeGovernance, Promise!Found, Ids
  <2> QED
    BY <2>3 DEF Promise!Next
<1>2. ASSUME NEW u \in Users, NEW k \in Keys \cup BadKeys, NEW v \in Values \cup BadValues,
             NEW d \in Durations, CreateProposal(u, k, v, d)
      PROVE  Promise!Next
  <2> DEFINE n == ProposalCount + 1
             New == NewProposal(u, k, v, d)
  <2>1. /\ ProposalCount \in Nat /\ Ids = 1..ProposalCount
        /\ RequiredApprovals # Unset
        /\ k \in Keys /\ v \in Values
    BY <1>2, UnsetAssumption DEF CreateProposal, TypeOK, ValidConfig
  <2>2. n \notin Ids /\ Cardinality(Ids) + 1 = n
    <3>1. Cardinality(1..ProposalCount) = ProposalCount
      BY <2>1, FS_Interval
    <3> QED
      BY <2>1, <3>1
  <2>3. /\ New.config_key = k /\ New.config_value = v /\ New.executed = FALSE
    BY DEF NewProposal
  <2>4. \A p : Voters(p)' = Voters(p)
    BY <1>2, VotersKept DEF CreateProposal
  <2>5. Voters(n) = {}
    BY <2>2, NewProposalHasNoVotes
  <2>6. Proposals' = [p \in Ids \cup {n} |-> IF p = n THEN New ELSE Proposals[p]]
    BY <1>2 DEF CreateProposal
  <2>7. RequiredApprovals' = RequiredApprovals /\ ConfigValue' = ConfigValue
    BY <1>2 DEF CreateProposal
  <2> HIDE DEF n, New
  <2>8. Ids' = Ids \cup {n}
    BY <2>6 DEF Ids
  <2>9. \A p \in Ids' : Proposals'[p] = IF p = n THEN New ELSE Proposals[p]
    BY <2>6, <2>8
  <2>10. {p \in Ids' : Proposals'[p].executed} = {p \in Ids : Proposals[p].executed}
    BY <2>2, <2>3, <2>8, <2>9
  <2>11. [p \in Ids' |-> [key |-> Proposals'[p].config_key, value |-> Proposals'[p].config_value]]
           = [p \in Ids \cup {n} |->
                IF p = n THEN [key |-> k, value |-> v]
                ELSE [p1 \in Ids |-> [key |-> Proposals[p1].config_key,
                                      value |-> Proposals[p1].config_value]][p]]
    BY <2>2, <2>3, <2>8, <2>9
  <2>12. [p \in Ids' |-> Voters(p)'] = [p \in Ids \cup {n} |->
                                        IF p = n THEN {} ELSE [p1 \in Ids |-> Voters(p1)][p]]
    BY <2>2, <2>4, <2>5, <2>8
  <2>13. Promise!Motions = Ids /\ Promise!Cardinality(Promise!Motions) + 1 = n
    BY <2>2, SameCardinality DEF Promise!Motions
  <2>14. Promise!Put(k, v)
    BY <2>1, <2>7, <2>10, <2>11, <2>12, <2>13, Zenon DEF Promise!Put
  <2> QED
    BY <2>1, <2>14 DEF Promise!Next
<1>3. ASSUME NEW u \in Users, NEW p \in Ids, VoteProposal(u, p) PROVE Promise!Next
  <2>1. /\ Proposals' = [Proposals EXCEPT ![p].approvals = @ + 1]
        /\ RequiredApprovals' = RequiredApprovals /\ ConfigValue' = ConfigValue
        /\ ~Proposals[p].executed
    BY <1>3 DEF VoteProposal, Open
  <2>2. Ids' = Ids
    BY <2>1 DEF Ids
  <2>3. \A q \in Ids : /\ Proposals'[q].config_key = Proposals[q].config_key
                       /\ Proposals'[q].config_value = Proposals[q].config_value
                       /\ Proposals'[q].executed = Proposals[q].executed
    BY <1>0, <2>1 DEF Ids, Proposal
  <2>4. /\ Voters(p)' = Voters(p) \cup {u} /\ u \notin Voters(p)
        /\ \A q : q # p => Voters(q)' = Voters(q)
    BY <1>3, VotersOfVote
  <2>5. [q \in Ids' |-> Voters(q)']
          = [[q \in Ids |-> Voters(q)] EXCEPT ![p] = Voters(p) \cup {u}]
    BY <2>2, <2>4
  <2>6. Promise!Support(p, u)
    BY <2>1, <2>2, <2>3, <2>4, <2>5 DEF Promise!Support, Promise!Motions
  <2> QED
    BY <2>6 DEF Promise!Next, Promise!Motions
<1>4. ASSUME NEW u \in Users, NEW p \in Ids, ExecuteProposal(u, p) PROVE Promise!Next
  <2>1. /\ Proposals' = [Proposals EXCEPT ![p].executed = TRUE]
        /\ RequiredApprovals' = RequiredApprovals
        /\ ConfigValue' = [ConfigValue EXCEPT ![Proposals[p].config_key] = Proposals[p].config_value]
        /\ ~Proposals[p].executed
        /\ Proposals[p].approvals >= RequiredApprovals
    BY <1>4 DEF ExecuteProposal, Open, EnoughApprovals
  <2>2. Ids' = Ids
    BY <2>1 DEF Ids
  <2>3. \A q \in Ids : /\ Proposals'[q].config_key = Proposals[q].config_key
                       /\ Proposals'[q].config_value = Proposals[q].config_value
                       /\ Proposals'[q].executed = (q = p \/ Proposals[q].executed)
    BY <1>0, <2>1 DEF Ids, Proposal
  <2>4. \A q : Voters(q)' = Voters(q)
    BY <1>4, VotersKept DEF ExecuteProposal
  <2>5. Proposals[p].approvals = Promise!Cardinality(Voters(p))
    BY SameCardinality DEF ApprovalsAreVotes
  <2>6. {q \in Ids' : Proposals'[q].executed} = {q \in Ids : Proposals[q].executed} \cup {p}
    BY <2>2, <2>3
  <2>7. Promise!Enact(p)
    BY <2>1, <2>2, <2>3, <2>4, <2>5, <2>6 DEF Promise!Enact, Promise!Motions
  <2> QED
    BY <2>7 DEF Promise!Next, Promise!Motions
<1>5. ASSUME \/ \E c, a \in Users : UpdateAdmin(c, a)
             \/ CloseLedger
             \/ UNCHANGED vars
      PROVE  UNCHANGED Promise!vars
  <2>1. /\ Proposals' = Proposals /\ UserVote' = UserVote
        /\ RequiredApprovals' = RequiredApprovals /\ ConfigValue' = ConfigValue
    BY <1>5 DEF UpdateAdmin, CloseLedger, vars
  <2> QED
    BY <2>1, RefinesStutter
<1> QED
  BY <1>1, <1>2, <1>3, <1>4, <1>5 DEF Next

\* The configuration changes only by enacting, once, a motion with a quorum of
\* distinct supporters: the contract implements Mandates.
THEOREM Refinement == Spec => ImplementsMandates
<1>1. Init => ApprovalsAreVotes
  BY DEF Init, ApprovalsAreVotes, Ids
<1> QED
  BY <1>1, RefinesInit, RefinesNext, TypeInit, TypeNext, VotesNext, PTL
     DEF Spec, ImplementsMandates, Promise!Spec

----------------------------------------------------------------------------
\* contract-upgrade.

\* New code runs at version 2 or above: that is why the migration, which
\* writes 2, never overtakes an upgrade that waits.
VersionOfCode == Version >= 1 /\ (code = "new" => Version >= 2)

UpgradeInv == UpgradeTypeOK /\ UpgradeSafe /\ VersionOfCode

LEMMA UpgradeStarts == ASSUME UpgradeAssumption, UpgradeInit PROVE UpgradeInv
<1>1. UpgradeTypeOK
  <2>1. code \in {"old", "new"} /\ hasNewAdmin \in BOOLEAN /\ Version \in Nat
    <3>1. code \in {"old", "new"} /\ Version \in Nat
      BY DEF UpgradeInit
    <3>2. hasNewAdmin = FALSE \/ hasNewAdmin = TRUE
      BY Zenon DEF UpgradeInit
    <3> QED
      BY <3>1, <3>2
  <2>2. /\ Signers \subseteq Accounts /\ Threshold \in Nat /\ TimelockDelay \in Nat
        /\ Pending = NoUpgrade /\ upgradeTime \in Nat
    BY DEF UpgradeInit, UpgradeAssumption
  <2> QED
    BY <2>1, <2>2 DEF UpgradeTypeOK
<1>2. Cardinality(Signers) = 1
  BY FS_Singleton DEF UpgradeInit
<1>3. Pending = NoUpgrade /\ Threshold = 1
  BY DEF UpgradeInit
<1>4. UpgradeSafe
  BY <1>2, <1>3 DEF UpgradeSafe, ApprovedOnce, PendingIsNewer, AlwaysApprovable, MigratedFirst
<1>5. VersionOfCode
  BY DEF UpgradeInit, VersionOfCode
<1> QED
  BY <1>1, <1>4, <1>5 DEF UpgradeInv

\* Who approved and who may still approve are finitely many, and at least as
\* many as the signers alone.
LEMMA SignersCountUp ==
  ASSUME UpgradeAssumption, NEW S \in SUBSET Accounts, NEW A \in SUBSET Accounts
  PROVE  Cardinality(A \cup S) \in Nat /\ Cardinality(A \cup S) >= Cardinality(S)
         /\ Cardinality(S) \in Nat
<1>1. IsFiniteSet(A \cup S) /\ IsFiniteSet(S)
  BY FS_Subset DEF UpgradeAssumption
<1>2. Cardinality(S) <= Cardinality(A \cup S)
  BY <1>1, FS_Subset
<1> QED
  BY <1>1, <1>2, FS_CardinalityType

\* The signers alone are enough, so approvals of any accounts keep an upgrade
\* approvable.
LEMMA StillApprovable ==
  ASSUME UpgradeAssumption, Signers' \subseteq Accounts, Threshold' \in 1 .. Cardinality(Signers'),
         Pending' # NoUpgrade => Pending' \in Upgrades
  PROVE  AlwaysApprovable'
<1>1. ASSUME Pending' # NoUpgrade
      PROVE  Cardinality(Range(Pending'.approvals) \cup Signers') >= Threshold'
  <2>1. Range(Pending'.approvals) \subseteq Accounts
    <3>1. Pending'.approvals \in Seq(Accounts)
      BY <1>1 DEF Upgrades
    <3> QED
      BY <3>1 DEF Range
  <2>2. /\ Cardinality(Range(Pending'.approvals) \cup Signers') \in Nat
        /\ Cardinality(Range(Pending'.approvals) \cup Signers') >= Cardinality(Signers')
        /\ Cardinality(Signers') \in Nat
    BY <2>1, SignersCountUp
  <2> QED
    BY <2>2
<1> QED
  BY <1>1 DEF AlwaysApprovable

\* Appending an account that is not in a sequence without repeats.
LEMMA AppendKeepsInjective ==
  ASSUME NEW S, NEW s \in Seq(S), IsInjective(s), NEW x \in S, x \notin Range(s)
  PROVE  IsInjective(Append(s, x))
<1>1. \A i \in 1 .. Len(s) : s[i] # x
  BY DEF Range
<1>2. \A i, j \in 1 .. Len(s) : s[i] = s[j] => i = j
  BY DEF IsInjective
<1>3. DOMAIN Append(s, x) = 1 .. Len(s) + 1
  OBVIOUS
<1>4. \A i \in 1 .. Len(s) : Append(s, x)[i] = s[i]
  OBVIOUS
<1>5. Append(s, x)[Len(s) + 1] = x
  OBVIOUS
<1>6. SUFFICES ASSUME NEW i \in 1 .. Len(s) + 1, NEW j \in 1 .. Len(s) + 1,
                      Append(s, x)[i] = Append(s, x)[j]
               PROVE  i = j
  BY <1>3 DEF IsInjective
<1>7. Len(s) \in Nat
  OBVIOUS
<1>8. CASE i \in 1 .. Len(s) /\ j \in 1 .. Len(s)
  BY <1>2, <1>4, <1>6, <1>8
<1>9. CASE i = Len(s) + 1 \/ j = Len(s) + 1
  BY <1>1, <1>4, <1>5, <1>6, <1>7, <1>9
<1> QED
  BY <1>7, <1>8, <1>9

\* Approvals without repeats are as many as the accounts that gave them.
LEMMA ApprovalsCount ==
  ASSUME NEW S, NEW s \in Seq(S), IsInjective(s)
  PROVE  Cardinality(Range(s)) = Len(s)
<1>1. s \in [1 .. Len(s) -> Range(s)] /\ DOMAIN s = 1 .. Len(s) /\ Len(s) \in Nat
  BY DEF Range
<1>2. s \in Injection(1 .. Len(s), Range(s))
  BY <1>1 DEF Injection
<1>3. s \in Surjection(1 .. Len(s), Range(s))
  BY <1>1 DEF Surjection, Range
<1>4. ExistsBijection(1 .. Len(s), Range(s))
  BY <1>2, <1>3 DEF ExistsBijection, Bijection
<1> QED
  BY <1>1, <1>4, FS_CountingElements

\* What a waiting upgrade is, and the record an approval makes of it.
LEMMA ApprovedPending ==
  ASSUME UpgradeInv, NEW a \in Accounts, ApproveUpgrade(a)
  PROVE  /\ Pending' \in Upgrades /\ Pending'.new_version = Pending.new_version
         /\ IsInjective(Pending'.approvals)
<1>1. /\ Pending \in Upgrades /\ a \notin Range(Pending.approvals)
      /\ IsInjective(Pending.approvals)
      /\ Pending' = [Pending EXCEPT !.approvals = Append(@, a)]
  BY DEF UpgradeInv, UpgradeTypeOK, UpgradeSafe, ApprovedOnce, ApproveUpgrade, MayApprove
<1>2. Pending.approvals \in Seq(Accounts)
  BY <1>1 DEF Upgrades
<1>3. Append(Pending.approvals, a) \in Seq(Accounts)
  BY <1>2
<1>4. Pending' = [wasm |-> Pending.wasm, new_version |-> Pending.new_version,
                  execute_at |-> Pending.execute_at, approvals |-> Append(Pending.approvals, a)]
  BY <1>1 DEF Upgrades
<1>5. IsInjective(Append(Pending.approvals, a))
  BY <1>1, <1>2, AppendKeepsInjective
<1>6. Pending'.approvals = Append(Pending.approvals, a) /\ Pending'.new_version = Pending.new_version
  BY <1>4
<1>7. Pending' \in Upgrades
  BY <1>1, <1>3, <1>4 DEF Upgrades
<1> QED
  BY <1>5, <1>6, <1>7

\* The migration and the configuration leave what waits as it is.
LEMMA ConfiguringKeeps == ASSUME UpgradeAssumption, UpgradeInv, Configuring PROVE UpgradeInv'
<1>1. CASE HandleUpgrade
  <2>1. Version >= 2 /\ Version' = 2 /\ code' = "new" /\ hasNewAdmin' = TRUE
    BY <1>1 DEF HandleUpgrade, UpgradeInv, VersionOfCode, UpgradeTypeOK
  <2>2. UpgradeTypeOK'
    BY <1>1, <2>1 DEF HandleUpgrade, UpgradeInv, UpgradeTypeOK
  <2>3. PendingIsNewer'
    <3>1. Pending # NoUpgrade => Pending.new_version \in Nat /\ Pending.new_version > Version
      BY DEF UpgradeInv, UpgradeSafe, PendingIsNewer, UpgradeTypeOK, Upgrades
    <3> QED
      BY <1>1, <2>1, <3>1 DEF HandleUpgrade, PendingIsNewer, UpgradeInv, UpgradeTypeOK
  <2>4. ApprovedOnce' /\ AlwaysApprovable'
    BY <1>1 DEF HandleUpgrade, UpgradeInv, UpgradeSafe, ApprovedOnce, AlwaysApprovable
  <2>5. MigratedFirst' /\ VersionOfCode'
    BY <2>1 DEF MigratedFirst, AdminKnown, VersionOfCode
  <2> QED
    BY <2>2, <2>3, <2>4, <2>5 DEF UpgradeInv, UpgradeSafe
<1>2. ASSUME NEW S \in SUBSET Accounts, NEW n \in 0 .. Cardinality(Accounts) + 1,
             SetUpgradeSigners(S, n)
      PROVE  UpgradeInv'
  <2>1. Signers' = S /\ Threshold' = n /\ n \in 1 .. Cardinality(S) /\ Pending' = Pending
    BY <1>2 DEF SetUpgradeSigners, ValidSignerConfig
  <2>2. Cardinality(S) \in Nat
    BY SignersCountUp
  <2>3. UpgradeTypeOK'
    BY <1>2, <2>1, <2>2 DEF SetUpgradeSigners, UpgradeInv, UpgradeTypeOK
  <2>4. AlwaysApprovable'
    BY <2>1, <2>3, StillApprovable DEF UpgradeTypeOK
  <2>5. ApprovedOnce' /\ PendingIsNewer' /\ MigratedFirst' /\ VersionOfCode'
    BY <1>2 DEF SetUpgradeSigners, UpgradeInv, UpgradeSafe, ApprovedOnce, PendingIsNewer,
                MigratedFirst, AdminKnown, VersionOfCode
  <2> QED
    BY <2>3, <2>4, <2>5 DEF UpgradeInv, UpgradeSafe
<1>3. ASSUME UNCHANGED <<code, hasNewAdmin, Version, Signers, Threshold, Pending>>,
             TimelockDelay' \in Nat, upgradeTime' \in Nat
      PROVE  UpgradeInv'
  BY <1>3 DEF UpgradeInv, UpgradeTypeOK, UpgradeSafe, ApprovedOnce, PendingIsNewer,
              AlwaysApprovable, MigratedFirst, AdminKnown, VersionOfCode
<1>4. ASSUME NEW delay \in Delays, SetTimelockDelay(delay) PROVE UpgradeInv'
  BY <1>3, <1>4 DEF SetTimelockDelay, UpgradeAssumption, UpgradeInv, UpgradeTypeOK
<1>5. CASE CloseUpgradeLedger
  BY <1>3, <1>5 DEF CloseUpgradeLedger, UpgradeInv, UpgradeTypeOK
<1> QED
  BY <1>1, <1>2, <1>4, <1>5 DEF Configuring

LEMMA UpgradingKeeps == ASSUME UpgradeAssumption, UpgradeInv, Upgrading PROVE UpgradeInv'
<1>1. /\ UpgradeTypeOK /\ AlwaysApprovable /\ VersionOfCode
      /\ Threshold \in 1 .. Cardinality(Signers)
  BY DEF UpgradeInv, UpgradeSafe, AlwaysApprovable
<1>2. ASSUME NEW a \in Accounts, NEW wasm \in {"old", "new"}, NEW v \in Versions,
             ScheduleUpgrade(a, wasm, v)
      PROVE  UpgradeInv'
  <2>1. Pending' = [wasm |-> wasm, new_version |-> v, execute_at |-> upgradeTime + TimelockDelay,
                    approvals |-> <<a>>]
    BY <1>2 DEF ScheduleUpgrade
  <2>2. Pending' \in Upgrades
    BY <1>1, <2>1 DEF Upgrades, UpgradeTypeOK, UpgradeAssumption
  <2>3. IsInjective(Pending'.approvals)
    <3>1. Pending'.approvals = <<a>> /\ DOMAIN <<a>> = {1}
      BY <2>1
    <3> QED
      BY <3>1 DEF IsInjective
  <2>4. UpgradeTypeOK' /\ ApprovedOnce' /\ PendingIsNewer' /\ MigratedFirst' /\ VersionOfCode'
    BY <1>1, <1>2, <2>1, <2>2, <2>3
    DEF ScheduleUpgrade, UpgradeTypeOK, ApprovedOnce, PendingIsNewer, MigratedFirst, AdminKnown,
        VersionOfCode
  <2>5. AlwaysApprovable'
    BY <1>1, <1>2, <2>4, StillApprovable DEF ScheduleUpgrade, UpgradeTypeOK
  <2> QED
    BY <2>4, <2>5 DEF UpgradeInv, UpgradeSafe
<1>3. ASSUME NEW a \in Accounts, ApproveUpgrade(a) PROVE UpgradeInv'
  <2>1. /\ Pending' \in Upgrades /\ Pending'.new_version = Pending.new_version
        /\ IsInjective(Pending'.approvals)
    BY <1>3, ApprovedPending
  <2>2. UpgradeTypeOK' /\ VersionOfCode'
    BY <1>1, <1>3, <2>1 DEF ApproveUpgrade, UpgradeTypeOK, VersionOfCode
  <2>3. PendingIsNewer' /\ MigratedFirst'
    BY <1>3, <2>1 DEF ApproveUpgrade, UpgradeInv, UpgradeSafe, PendingIsNewer, MigratedFirst,
                      AdminKnown
  <2>4. AlwaysApprovable'
    BY <1>1, <1>3, <2>2, StillApprovable DEF ApproveUpgrade, UpgradeTypeOK
  <2> QED
    BY <2>1, <2>2, <2>3, <2>4 DEF UpgradeInv, UpgradeSafe, ApprovedOnce
<1>4. ASSUME Pending' = NoUpgrade, UpgradeTypeOK', VersionOfCode', Signers' = Signers,
             Threshold' = Threshold
      PROVE  UpgradeInv'
  BY <1>1, <1>4 DEF UpgradeInv, UpgradeSafe, ApprovedOnce, PendingIsNewer, AlwaysApprovable,
                    MigratedFirst
<1>5. ASSUME NEW a \in Accounts, CancelUpgrade(a) PROVE UpgradeInv'
  <2>1. UpgradeTypeOK' /\ VersionOfCode'
    BY <1>1, <1>5 DEF CancelUpgrade, UpgradeTypeOK, VersionOfCode
  <2> QED
    BY <1>4, <1>5, <2>1 DEF CancelUpgrade
<1>6. ASSUME NEW a \in Accounts, ExecuteUpgrade(a) PROVE UpgradeInv'
  <2>1. Pending \in Upgrades /\ Version' = Pending.new_version /\ code' = Pending.wasm
    BY <1>1, <1>6 DEF ExecuteUpgrade, UpgradeTypeOK
  <2>2. Version' \in Nat /\ code' \in {"old", "new"}
    BY <2>1 DEF Upgrades
  <2>3. UpgradeTypeOK'
    BY <1>1, <1>6, <2>2 DEF ExecuteUpgrade, UpgradeTypeOK
  <2>4. Version' >= 2
    <3>1. Version >= 1
      BY DEF UpgradeInv, VersionOfCode
    <3> QED
      BY <1>1, <1>6, <2>1, <2>2, <3>1 DEF ExecuteUpgrade, UpgradeTypeOK
  <2>5. VersionOfCode'
    BY <2>2, <2>4 DEF VersionOfCode
  <2> QED
    BY <1>4, <1>6, <2>3, <2>5 DEF ExecuteUpgrade
<1> QED
  BY <1>2, <1>3, <1>5, <1>6 DEF Upgrading

\* What holds of a pending upgrade in every reachable state, for any finite set
\* of accounts: different approvers, a version still ahead of the current one,
\* approvals in reach, and the migration done.
THEOREM UpgradesStaySafe ==
  ASSUME UpgradeAssumption PROVE UpgradeSpec => [](UpgradeTypeOK /\ UpgradeSafe)
<1>1. UpgradeInit => UpgradeInv
  BY UpgradeStarts
<1>2. UpgradeInv /\ [UpgradeNext]_upgradeVars => UpgradeInv'
  <2>1. ASSUME UpgradeInv, UNCHANGED upgradeVars PROVE UpgradeInv'
    BY <2>1 DEF upgradeVars, UpgradeInv, UpgradeTypeOK, UpgradeSafe, ApprovedOnce, PendingIsNewer,
                AlwaysApprovable, MigratedFirst, AdminKnown, VersionOfCode
  <2> QED
    BY <2>1, ConfiguringKeeps, UpgradingKeeps DEF UpgradeNext
<1>3. UpgradeInv => UpgradeTypeOK /\ UpgradeSafe
  BY DEF UpgradeInv
<1> QED
  BY <1>1, <1>2, <1>3, PTL DEF UpgradeSpec

\* Code is replaced only by an upgrade that as many different accounts approved
\* as the threshold asks for and that has waited; only the migration lowers a
\* version.
THEOREM OnlyApprovedUpgrades == ASSUME UpgradeAssumption PROVE UpgradeSpec => UpgradesApproved
<1> DEFINE Honoured ==
      /\ code' # code => /\ Pending # NoUpgrade
                         /\ Cardinality(Range(Pending.approvals)) >= Threshold
                         /\ upgradeTime >= Pending.execute_at
      /\ Version' < Version => Version' = 2 /\ code' = code
<1>1. ASSUME UpgradeTypeOK, UpgradeSafe, Configuring PROVE Honoured
  BY <1>1 DEF Configuring, HandleUpgrade, SetUpgradeSigners, SetTimelockDelay,
              CloseUpgradeLedger, UpgradeTypeOK
<1>2. ASSUME UpgradeTypeOK, UpgradeSafe, NEW a \in Accounts, ExecuteUpgrade(a) PROVE Honoured
  <2>1. /\ Pending # NoUpgrade /\ upgradeTime >= Pending.execute_at /\ Pending \in Upgrades
        /\ Len(Pending.approvals) >= Threshold /\ IsInjective(Pending.approvals)
        /\ Version' > Version
    BY <1>2 DEF ExecuteUpgrade, UpgradeTypeOK, UpgradeSafe, ApprovedOnce
  <2>2. Cardinality(Range(Pending.approvals)) = Len(Pending.approvals)
    <3>1. Pending.approvals \in Seq(Accounts)
      BY <2>1 DEF Upgrades
    <3> QED
      BY <2>1, <3>1, ApprovalsCount
  <2>3. ~(Version' < Version)
    <3>1. Version \in Nat /\ Version' \in Nat
      BY <1>2, <2>1 DEF ExecuteUpgrade, UpgradeTypeOK, Upgrades
    <3> QED
      BY <2>1, <3>1
  <2> QED
    BY <2>1, <2>2, <2>3
<1>3. ASSUME UpgradeTypeOK, UpgradeSafe, Upgrading PROVE Honoured
  <2>1. ASSUME NEW a \in Accounts, NEW wasm \in {"old", "new"}, NEW v \in Versions,
               ScheduleUpgrade(a, wasm, v) \/ ApproveUpgrade(a) \/ CancelUpgrade(a)
        PROVE  Honoured
    BY <1>3, <2>1 DEF ScheduleUpgrade, ApproveUpgrade, CancelUpgrade, UpgradeTypeOK
  <2>2. ASSUME NEW a \in Accounts, ApproveUpgrade(a) \/ CancelUpgrade(a) PROVE Honoured
    BY <1>3, <2>2 DEF ApproveUpgrade, CancelUpgrade, UpgradeTypeOK
  <2> QED
    BY <1>2, <1>3, <2>1, <2>2 DEF Upgrading
<1>4. UpgradeTypeOK /\ UpgradeSafe /\ [UpgradeNext]_upgradeVars => [Honoured]_upgradeVars
  BY <1>1, <1>3 DEF UpgradeNext
<1> QED
  BY <1>4, UpgradesStaySafe, PTL DEF UpgradeSpec, UpgradesApproved
===============================================================================
