-------------------------- MODULE TransactionsProofs --------------------------
(***************************************************************************)
(* Proofs about Transactions.tla for every finite set of users and every   *)
(* choice of payments, signer lists, thresholds and bounds: type           *)
(* correctness, the agreement of the approval counters with the approvals, *)
(* the timelock, that no large amount moves without consent, and that the  *)
(* contract implements Orders.                                             *)
(***************************************************************************)
EXTENDS Transactions, FiniteSetTheorems, TLAPS

\* Initialize resets the numbering: no payment waits before it, because
\* signers come after it; and a list of signers comes with a threshold.
Configured == /\ Admin = Unset => Signers = << >> /\ NextTxId = 0
              /\ Signers # << >> => Threshold > 0

LEMMA TypeInit == Init => TypeOK /\ Configured
<1> SUFFICES ASSUME Init PROVE TypeOK /\ Configured
  OBVIOUS
<1>1. /\ Admin \in Users \cup {Unset} /\ HighValueThreshold \in 0..I128_MAX
      /\ Balance \in [Users -> 0..I128_MAX] /\ timestamp \in Nat
  BY BoundAssumption DEF Init
<1>2. Signers \in Seq(Users) /\ Len(Signers) = 0 /\ DOMAIN Signers = {} /\ Threshold = 0
  BY DEF Init
<1>3. /\ NextTxId = 0 /\ TxIds = {} /\ PendingTx \in [TxIds -> PendingRecord]
      /\ ApprovalCount \in [TxIds -> Nat] /\ Approval = {}
  BY DEF Init, TxIds
<1>4. /\ NextTimelockId = 0 /\ TimelockIds = {}
      /\ TimelockedTx \in [TimelockIds -> TimelockedRecord] /\ BlacklistedDestination = {}
  BY DEF Init, TimelockIds
<1>5. 1..0 = {}
  OBVIOUS
<1>6. TypeOK
  BY <1>1, <1>2, <1>3, <1>4, <1>5 DEF TypeOK
<1> QED
  BY <1>6 DEF Init, Configured

\* A payment that can move leaves balances within their bounds.
LEMMA TransferredInBounds ==
  ASSUME TypeOK, NEW p, p.from \in Users, p.to \in Users, p.amount \in Nat \ {0},
         CanTransfer(p)
  PROVE  Transferred(p) \in [Users -> 0..I128_MAX]
<1>1. /\ Balance \in [Users -> 0..I128_MAX] /\ I128_MAX \in Nat
  BY BoundAssumption DEF TypeOK
<1>2. Balance[p.from] - p.amount \in 0..I128_MAX /\ Balance[p.to] + p.amount \in 0..I128_MAX
  BY <1>1 DEF CanTransfer
<1> QED
  BY <1>1, <1>2 DEF Transferred

\* What administration leaves alone.
LEMMA AdministrationKeeps ==
  ASSUME TypeOK, Configured, NEW c \in Users,
         \/ Initialize(c)
         \/ \E ss \in SignerLists, n \in Thresholds : SetSigners(c, ss, n)
         \/ \E a \in HighValues : SetHighValueThreshold(c, a)
         \/ \E u \in Users, a \in Grants : SetBalance(c, u, a)
  PROVE  TypeOK' /\ Configured'
<1>1. CASE Initialize(c)
  <2>1. /\ NextTxId = 0 /\ NextTxId' = 0 /\ Signers' = << >> /\ Threshold' = 0 /\ Admin' = c
        /\ HighValueThreshold' \in 0..I128_MAX
    BY <1>1, BoundAssumption DEF Initialize, Configured
  <2>2. TxIds' = 1..NextTxId' /\ TimelockIds' = TimelockIds /\ TxIds' = TxIds
    BY <1>1, <2>1 DEF Initialize, TypeOK, TxIds, TimelockIds, timelock
  <2>3. Signers' \in Seq(Users) /\ Threshold' \in 0..Len(Signers') /\ DOMAIN Signers' = {}
    BY <2>1
  <2>4. TypeOK'
    BY <1>1, <2>1, <2>2, <2>3 DEF Initialize, TypeOK, timelock
  <2> QED
    BY <2>1, <2>4, UsersAssumption DEF Configured
<1>2. ASSUME NEW ss \in SignerLists, NEW n \in Thresholds, SetSigners(c, ss, n)
      PROVE  TypeOK' /\ Configured'
  <2>1. /\ Signers' = ss /\ Threshold' = n /\ ss \in Seq(Users) /\ n \in 1..Len(ss)
        /\ \A i, j \in DOMAIN ss : ss[i] = ss[j] => i = j
    BY <1>2, InputAssumption DEF SetSigners, ValidSigners
  <2>2. TxIds' = TxIds /\ TimelockIds' = TimelockIds
    BY <1>2 DEF SetSigners, TxIds, TimelockIds, multisig, timelock
  <2>3. Threshold' \in 0..Len(Signers') /\ Threshold' > 0
    BY <2>1
  <2>4. TypeOK'
    BY <1>2, <2>1, <2>2, <2>3 DEF SetSigners, TypeOK, multisig, timelock
  <2>5. Admin' # Unset
    BY <1>2 DEF SetSigners, IsAdmin
  <2> QED
    BY <2>3, <2>4, <2>5 DEF Configured
<1>3. ASSUME NEW a \in HighValues, SetHighValueThreshold(c, a) PROVE TypeOK' /\ Configured'
  <2>1. a \in 0..I128_MAX
    BY <1>3, InputAssumption DEF SetHighValueThreshold
  <2>2. TxIds' = TxIds /\ TimelockIds' = TimelockIds
    BY <1>3 DEF SetHighValueThreshold, TxIds, TimelockIds, multisig, timelock
  <2>3. TypeOK'
    BY <1>3, <2>1, <2>2 DEF SetHighValueThreshold, TypeOK, multisig, timelock
  <2> QED
    BY <1>3, <2>3 DEF SetHighValueThreshold, Configured, multisig
<1>4. ASSUME NEW u \in Users, NEW a \in Grants, SetBalance(c, u, a)
      PROVE  TypeOK' /\ Configured'
  <2>1. a \in 0..I128_MAX
    BY <1>4, InputAssumption DEF SetBalance
  <2>2. TxIds' = TxIds /\ TimelockIds' = TimelockIds
    BY <1>4 DEF SetBalance, TxIds, TimelockIds, multisig, timelock
  <2>3. Balance' \in [Users -> 0..I128_MAX]
    BY <1>4, <2>1 DEF SetBalance, TypeOK
  <2>4. TypeOK'
    BY <1>4, <2>2, <2>3 DEF SetBalance, TypeOK, settings, multisig, timelock
  <2> QED
    BY <1>4, <2>4 DEF SetBalance, Configured, settings, multisig
<1> QED
  BY <1>1, <1>2, <1>3, <1>4

\* Block lists and the passing of time.
LEMMA ListsKeep ==
  ASSUME TypeOK, Configured,
         \/ \E b \in Blockable : BlockDestination(b[1], b[2])
         \/ \E b \in Blockable : UnblockDestination(b[1], b[2])
         \/ CloseLedger
         \/ UNCHANGED vars
  PROVE  TypeOK' /\ Configured'
<1>1. TxIds' = TxIds /\ TimelockIds' = TimelockIds
  BY DEF BlockDestination, UnblockDestination, CloseLedger, vars, TxIds, TimelockIds,
         multisig, timelock
<1>2. BlacklistedDestination' \subseteq Users \X Users
  <2>1. \A b \in Blockable : b \in Users \X Users /\ b = <<b[1], b[2]>>
    BY InputAssumption
  <2> QED
    BY <2>1 DEF BlockDestination, UnblockDestination, CloseLedger, vars, TypeOK
<1>3. timestamp' \in Nat
  BY DEF BlockDestination, UnblockDestination, CloseLedger, vars, TypeOK
<1>4. UNCHANGED <<settings, multisig, Balance, timelock>>
  BY DEF BlockDestination, UnblockDestination, CloseLedger, vars
<1>5. TypeOK'
  BY <1>1, <1>2, <1>3, <1>4 DEF TypeOK, settings, multisig, timelock
<1> QED
  BY <1>4, <1>5 DEF Configured, settings, multisig

\* A new payment that waits gets the next number.
LEMMA SubmitHighValueKeeps ==
  ASSUME TypeOK, Configured, NEW p \in Payments, SubmitHighValue(p)
  PROVE  TypeOK' /\ Configured'
<1> DEFINE id == NextTxId + 1
           waiting == [from |-> p.from, to |-> p.to, amount |-> p.amount, executed |-> FALSE]
<1>1. /\ NextTxId \in Nat /\ TxIds = 1..NextTxId /\ NextTxId' = id
      /\ PendingTx \in [TxIds -> PendingRecord]
      /\ ApprovalCount \in [TxIds -> Nat] /\ Approval \subseteq TxIds \X Users
  BY DEF SubmitHighValue, TypeOK
<1>2. waiting \in PendingRecord
  BY InputAssumption DEF SubmitHighValue, Admissible, Payment, PendingRecord
<1>3. PendingTx' = [t \in TxIds \cup {id} |-> IF t = id THEN waiting ELSE PendingTx[t]]
  BY DEF SubmitHighValue
<1>4. TxIds' = TxIds \cup {id} /\ TxIds' = 1..NextTxId'
  BY <1>1, <1>3 DEF TxIds
<1>5. PendingTx' \in [TxIds' -> PendingRecord]
  <2>1. \A t \in TxIds : PendingTx[t] \in PendingRecord
    BY <1>1
  <2> HIDE DEF waiting
  <2> QED
    BY <1>2, <1>3, <1>4, <2>1
<1>6. ApprovalCount' \in [TxIds' -> Nat] /\ Approval' \subseteq TxIds' \X Users
  BY <1>1, <1>4 DEF SubmitHighValue
<1>7. TimelockIds' = TimelockIds
  BY DEF SubmitHighValue, TimelockIds, timelock
<1>8. TypeOK'
  <2>1. UNCHANGED <<settings, Balance, BlacklistedDestination, timelock, timestamp>>
    BY DEF SubmitHighValue
  <2>2. NextTxId' \in Nat
    BY <1>1
  <2> QED
    BY <1>4, <1>5, <1>6, <1>7, <2>1, <2>2 DEF TypeOK, settings, timelock
<1>9. Admin # Unset
  BY DEF SubmitHighValue, MultisigConfigured, Configured
<1> QED
  BY <1>8, <1>9 DEF SubmitHighValue, Configured, settings

\* An approval, with the payment if it is the last one.
LEMMA ApproveKeeps ==
  ASSUME TypeOK, Configured, NEW t \in TxIds, NEW s \in Users, Approve(t, s)
  PROVE  TypeOK' /\ Configured'
<1>1. /\ PendingTx \in [TxIds -> PendingRecord] /\ PendingTx[t] \in PendingRecord
      /\ ApprovalCount \in [TxIds -> Nat] /\ Approval \subseteq TxIds \X Users
  BY DEF TypeOK
<1>2. PendingTx[t].from \in Users /\ PendingTx[t].to \in Users /\ PendingTx[t].amount \in Nat \ {0}
  BY <1>1 DEF PendingRecord
<1>3. Balance' \in [Users -> 0..I128_MAX]
  BY <1>2, TransferredInBounds DEF Approve, TypeOK
<1>4. TxIds' = TxIds /\ PendingTx' \in [TxIds -> PendingRecord]
  <2>1. [PendingTx[t] EXCEPT !.executed = TRUE] \in PendingRecord
    BY <1>1 DEF PendingRecord
  <2>2. Executed(t) \in [TxIds -> PendingRecord]
    BY <1>1, <2>1 DEF Executed
  <2> QED
    BY <1>1, <2>2 DEF Approve, TxIds
<1>5. ApprovalCount' \in [TxIds -> Nat] /\ Approval' \subseteq TxIds \X Users
  BY <1>1 DEF Approve
<1>6. TimelockIds' = TimelockIds
  BY DEF Approve, TimelockIds, timelock
<1>7. TypeOK'
  BY <1>3, <1>4, <1>5, <1>6 DEF Approve, TypeOK, settings, timelock
<1> QED
  BY <1>7 DEF Approve, Configured, settings

\* A scheduled payment gets the next number.
LEMMA ScheduleKeeps ==
  ASSUME TypeOK, Configured, NEW p \in Payments, NEW at \in ScheduleTimes, Schedule(p, at)
  PROVE  TypeOK' /\ Configured'
<1> DEFINE id == NextTimelockId + 1
           waiting == [from |-> p.from, to |-> p.to, amount |-> p.amount, execute_at |-> at,
                       executed |-> FALSE, canceled |-> FALSE,
                       executed_at |-> Unset, canceled_at |-> Unset]
<1>1. /\ NextTimelockId \in Nat /\ TimelockIds = 1..NextTimelockId /\ NextTimelockId' = id
      /\ TimelockedTx \in [TimelockIds -> TimelockedRecord]
  BY DEF Schedule, TypeOK
<1>2. waiting \in TimelockedRecord
  BY InputAssumption DEF Schedule, Admissible, Payment, TimelockedRecord
<1>3. TimelockedTx' = [i \in TimelockIds \cup {id} |-> IF i = id THEN waiting
                                                       ELSE TimelockedTx[i]]
  BY DEF Schedule
<1>4. TimelockIds' = TimelockIds \cup {id} /\ TimelockIds' = 1..NextTimelockId'
  BY <1>1, <1>3 DEF TimelockIds
<1>5. TimelockedTx' \in [TimelockIds' -> TimelockedRecord]
  <2>1. \A i \in TimelockIds : TimelockedTx[i] \in TimelockedRecord
    BY <1>1
  <2> HIDE DEF waiting
  <2> QED
    BY <1>2, <1>3, <1>4, <2>1
<1>6. TxIds' = TxIds
  BY DEF Schedule, TxIds, multisig
<1>7. TypeOK'
  <2>1. UNCHANGED <<settings, multisig, Balance, BlacklistedDestination, timestamp>>
    BY DEF Schedule
  <2>2. NextTimelockId' \in Nat
    BY <1>1
  <2> QED
    BY <1>4, <1>5, <1>6, <2>1, <2>2 DEF TypeOK, settings, multisig
<1> QED
  BY <1>7 DEF Schedule, Configured, settings, multisig

\* What executing or canceling makes of a scheduled payment.
LEMMA DecidedRecord ==
  ASSUME TypeOK, NEW i \in TimelockIds
  PROVE  /\ TimelockedTx[i] \in TimelockedRecord
         /\ [TimelockedTx EXCEPT ![i].executed = TRUE, ![i].executed_at = timestamp]
              \in [TimelockIds -> TimelockedRecord]
         /\ [TimelockedTx EXCEPT ![i].canceled = TRUE, ![i].canceled_at = timestamp]
              \in [TimelockIds -> TimelockedRecord]
<1>1. /\ TimelockedTx \in [TimelockIds -> TimelockedRecord]
      /\ TimelockedTx[i] \in TimelockedRecord /\ timestamp \in Nat
  BY DEF TypeOK
<1>2. [TimelockedTx[i] EXCEPT !.executed = TRUE, !.executed_at = timestamp] \in TimelockedRecord
  BY <1>1 DEF TimelockedRecord
<1>3. [TimelockedTx[i] EXCEPT !.canceled = TRUE, !.canceled_at = timestamp] \in TimelockedRecord
  BY <1>1 DEF TimelockedRecord
<1> QED
  BY <1>1, <1>2, <1>3

LEMMA DecideKeeps ==
  ASSUME TypeOK, Configured, NEW i \in TimelockIds, NEW c \in Users,
         ExecuteTimelocked(c, i) \/ CancelTimelocked(c, i)
  PROVE  TypeOK' /\ Configured'
<1>1. TimelockedTx[i] \in TimelockedRecord /\ TimelockedTx' \in [TimelockIds -> TimelockedRecord]
  BY DecidedRecord DEF ExecuteTimelocked, CancelTimelocked
<1>2. /\ TimelockedTx[i].from \in Users /\ TimelockedTx[i].to \in Users
      /\ TimelockedTx[i].amount \in Nat \ {0}
  BY <1>1 DEF TimelockedRecord
<1>3. Balance' \in [Users -> 0..I128_MAX]
  BY <1>2, TransferredInBounds DEF ExecuteTimelocked, CancelTimelocked, TypeOK
<1>4. TimelockIds' = TimelockIds /\ TxIds' = TxIds
  BY <1>1 DEF ExecuteTimelocked, CancelTimelocked, TimelockIds, TxIds, multisig
<1>5. UNCHANGED <<settings, multisig, BlacklistedDestination, NextTimelockId, timestamp>>
  BY DEF ExecuteTimelocked, CancelTimelocked
<1>6. TypeOK'
  BY <1>1, <1>3, <1>4, <1>5 DEF TypeOK, settings, multisig
<1> QED
  BY <1>5, <1>6 DEF Configured, settings, multisig

LEMMA TypeNext == ASSUME TypeOK, Configured, [Next]_vars PROVE TypeOK' /\ Configured'
<1>1. ASSUME NEW p \in Payments, SubmitLowValue(p) PROVE TypeOK' /\ Configured'
  <2>1. p.from \in Users /\ p.to \in Users /\ p.amount \in Nat \ {0}
    BY <1>1, InputAssumption DEF SubmitLowValue, Admissible, Payment
  <2>2. Balance' \in [Users -> 0..I128_MAX]
    BY <1>1, <2>1, TransferredInBounds DEF SubmitLowValue
  <2>3. TxIds' = TxIds /\ TimelockIds' = TimelockIds
    BY <1>1 DEF SubmitLowValue, TxIds, TimelockIds, multisig, timelock
  <2>4. TypeOK'
    BY <1>1, <2>2, <2>3 DEF SubmitLowValue, TypeOK, settings, multisig, timelock
  <2> QED
    BY <1>1, <2>4 DEF SubmitLowValue, Configured, settings, multisig
<1> QED
  BY <1>1, AdministrationKeeps, ListsKeep, SubmitHighValueKeeps, ApproveKeeps, ScheduleKeeps,
     DecideKeeps DEF Next

\* In every reachable state the contract's records are well formed and balances
\* are within bounds, whatever is paid, scheduled or granted.
THEOREM TypeCorrect == Spec => [](TypeOK /\ Configured)
<1>1. Init => TypeOK /\ Configured
  BY TypeInit
<1>2. TypeOK /\ Configured /\ [Next]_vars => (TypeOK /\ Configured)'
  BY TypeNext
<1> QED
  BY <1>1, <1>2, PTL DEF Spec

------------------------------------------------------------------------------
\* Approvals and their count.

LEMMA ApproversFinite ==
  \A t : IsFiniteSet(Approvers(t)) /\ Cardinality(Approvers(t)) \in Nat
<1> SUFFICES ASSUME NEW t PROVE IsFiniteSet(Approvers(t))
  BY FS_CardinalityType
<1>1. Approvers(t) \subseteq Users
  BY DEF Approvers
<1> QED
  BY <1>1, UsersAssumption, FS_Subset

\* An approval adds its author to the approvers of its payment, and counts it.
LEMMA ApproveCounts ==
  ASSUME TypeOK, CountsAgree, NEW t \in TxIds, NEW s \in Users, Approve(t, s)
  PROVE  /\ \A k \in TxIds : ApprovalCount'[k] = Cardinality(Approvers(k)')
         /\ ApprovalCount'[t] = ApprovalCount[t] + 1
<1>1. /\ Approval' = Approval \cup {<<t, s>>} /\ <<t, s>> \notin Approval
      /\ ApprovalCount' = [ApprovalCount EXCEPT ![t] = @ + 1]
      /\ ApprovalCount \in [TxIds -> Nat]
  BY DEF Approve, FirstApproval, TypeOK
<1>2. Approvers(t)' = Approvers(t) \cup {s} /\ s \notin Approvers(t)
  BY <1>1 DEF Approvers
<1>3. Cardinality(Approvers(t)') = Cardinality(Approvers(t)) + 1
  BY <1>2, ApproversFinite, FS_AddElement
<1>4. \A k \in TxIds : k # t => Approvers(k)' = Approvers(k)
  BY <1>1 DEF Approvers
<1> QED
  BY <1>1, <1>3, <1>4 DEF CountsAgree

\* Nothing but an approval touches the approvals of a payment that waits.
LEMMA OthersKeepCounts ==
  ASSUME TypeOK, Configured, CountsAgree, TxIds' = TxIds,
         UNCHANGED <<Approval, ApprovalCount>>
  PROVE  CountsAgree'
BY DEF CountsAgree, Approvers

LEMMA CountsNext == ASSUME TypeOK, Configured, CountsAgree, [Next]_vars PROVE CountsAgree'
<1>1. ASSUME NEW t \in TxIds, NEW s \in Users, Approve(t, s) PROVE CountsAgree'
  <2>1. TxIds' = TxIds
    BY <1>1 DEF Approve, TxIds, Executed
  <2> QED
    BY <1>1, <2>1, ApproveCounts DEF CountsAgree
<1>2. ASSUME NEW p \in Payments, SubmitHighValue(p) PROVE CountsAgree'
  <2>0. PICK id \in Nat : id = NextTxId + 1
    BY DEF TypeOK
  <2>1. /\ NextTxId \in Nat /\ TxIds = 1..NextTxId /\ Approval \subseteq TxIds \X Users
        /\ Approval' = Approval
        /\ ApprovalCount' = [t \in TxIds \cup {id} |-> IF t = id THEN 0 ELSE ApprovalCount[t]]
    BY <1>2, <2>0 DEF SubmitHighValue, TypeOK
  <2>2. TxIds' = TxIds \cup {id} /\ id \notin TxIds
    BY <1>2, <2>0, <2>1 DEF SubmitHighValue, TxIds
  <2>3. \A t : Approvers(t)' = Approvers(t)
    BY <2>1 DEF Approvers
  <2>4. Approvers(id) = {}
    BY <2>1, <2>2 DEF Approvers
  <2>5. Cardinality(Approvers(id)') = 0
    BY <2>3, <2>4, FS_EmptySet
  <2> QED
    BY <2>1, <2>2, <2>3, <2>5 DEF CountsAgree
<1>3. ASSUME TxIds' = TxIds /\ UNCHANGED <<Approval, ApprovalCount>> PROVE CountsAgree'
  BY <1>3, OthersKeepCounts
<1>4. ASSUME NEW c \in Users,
             \/ Initialize(c)
             \/ \E ss \in SignerLists, n \in Thresholds : SetSigners(c, ss, n)
             \/ \E a \in HighValues : SetHighValueThreshold(c, a)
             \/ \E u \in Users, a \in Grants : SetBalance(c, u, a)
      PROVE  CountsAgree'
  BY <1>3, <1>4 DEF Initialize, SetSigners, SetHighValueThreshold, SetBalance, multisig, TxIds
<1>5. ASSUME UNCHANGED multisig PROVE CountsAgree'
  BY <1>3, <1>5 DEF multisig, TxIds
<1>6. ASSUME NEW p \in Payments,
             SubmitLowValue(p) \/ \E at \in ScheduleTimes : Schedule(p, at)
      PROVE  CountsAgree'
  BY <1>5, <1>6 DEF SubmitLowValue, Schedule
<1>7. ASSUME NEW i \in TimelockIds, NEW c \in Users,
             ExecuteTimelocked(c, i) \/ CancelTimelocked(c, i)
      PROVE  CountsAgree'
  BY <1>5, <1>7 DEF ExecuteTimelocked, CancelTimelocked
<1>8. CASE \/ \E b \in Blockable : BlockDestination(b[1], b[2])
           \/ \E b \in Blockable : UnblockDestination(b[1], b[2])
           \/ CloseLedger \/ UNCHANGED vars
  BY <1>5, <1>8 DEF BlockDestination, UnblockDestination, CloseLedger, vars
<1> QED
  BY <1>1, <1>2, <1>4, <1>6, <1>7, <1>8 DEF Next

\* The stored count of approvals of a payment is the number of different
\* addresses that approved it, however signers and thresholds are replaced.
THEOREM ApprovalsCounted == Spec => []CountsAgree
<1>1. Init => CountsAgree
  BY DEF Init, CountsAgree, TxIds
<1>2. TypeOK /\ Configured /\ CountsAgree /\ [Next]_vars => CountsAgree'
  BY CountsNext
<1> QED
  BY <1>1, <1>2, TypeCorrect, PTL DEF Spec

------------------------------------------------------------------------------
\* The timelock.

\* The part of TimelockHonoured about one scheduled payment.
Honoured(tx) == /\ ~(tx.executed /\ tx.canceled)
                /\ tx.executed => tx.executed_at \in tx.execute_at..timestamp
                /\ tx.canceled => tx.canceled_at \in 0..timestamp

\* Time passing keeps what was decided.
LEMMA HonouredLater ==
  ASSUME TypeOK, TimelockHonoured, timestamp' \in Nat, timestamp' >= timestamp,
         NEW i \in TimelockIds, TimelockIds' = TimelockIds, TimelockedTx'[i] = TimelockedTx[i]
  PROVE  Honoured(TimelockedTx[i])'
<1>1. /\ TimelockedTx[i] \in TimelockedRecord /\ timestamp \in Nat
      /\ Honoured(TimelockedTx[i])
  BY DEF TypeOK, TimelockHonoured, Honoured
<1>2. /\ TimelockedTx[i].execute_at \in Nat
  BY <1>1 DEF TimelockedRecord
<1> QED
  BY <1>1, <1>2 DEF Honoured

LEMMA TimelockNext ==
  ASSUME TypeOK, Configured, TimelockHonoured, [Next]_vars PROVE TimelockHonoured'
<1>1. timestamp' \in Nat /\ timestamp' >= timestamp /\ timestamp \in Nat
  <2>1. timestamp \in Nat
    BY DEF TypeOK
  <2>2. CloseLedger \/ UNCHANGED timestamp
    BY DEF Next, Initialize, SetSigners, SetHighValueThreshold, SetBalance, BlockDestination,
           UnblockDestination, SubmitLowValue, SubmitHighValue, Approve, Schedule,
           ExecuteTimelocked, CancelTimelocked, vars
  <2>3. CloseLedger => timestamp' = timestamp + 1
    BY DEF CloseLedger
  <2> QED
    BY <2>1, <2>2, <2>3
<1>2. ASSUME UNCHANGED TimelockedTx PROVE TimelockHonoured'
  <2>1. TimelockIds' = TimelockIds
    BY <1>2 DEF TimelockIds
  <2>2. \A i \in TimelockIds' : Honoured(TimelockedTx[i])'
    BY <1>1, <1>2, <2>1, HonouredLater
  <2> QED
    BY <2>2 DEF TimelockHonoured, Honoured
<1>3. ASSUME NEW p \in Payments, NEW at \in ScheduleTimes, Schedule(p, at)
      PROVE  TimelockHonoured'
  <2>1. /\ \A i \in TimelockIds' : i \in TimelockIds \/ i = NextTimelockId + 1
        /\ NextTimelockId \in Nat /\ TimelockIds = 1..NextTimelockId /\ timestamp' = timestamp
    BY <1>3 DEF Schedule, TypeOK, TimelockIds
  <2>2. \A i \in TimelockIds : TimelockedTx'[i] = TimelockedTx[i]
    BY <1>3, <2>1 DEF Schedule
  <2>3. LET tx == TimelockedTx'[NextTimelockId + 1] IN ~tx.executed /\ ~tx.canceled
    BY <1>3 DEF Schedule
  <2> QED
    BY <2>1, <2>2, <2>3 DEF TimelockHonoured
<1>4. ASSUME NEW i \in TimelockIds, NEW c \in Users, ExecuteTimelocked(c, i)
      PROVE  TimelockHonoured'
  <2>1. /\ TimelockedTx[i] \in TimelockedRecord /\ timestamp' = timestamp
        /\ TimelockedTx' = [TimelockedTx EXCEPT ![i].executed = TRUE, ![i].executed_at = timestamp]
        /\ ~TimelockedTx[i].canceled /\ timestamp >= TimelockedTx[i].execute_at
        /\ TimelockIds' = TimelockIds
    BY <1>4 DEF ExecuteTimelocked, TypeOK, Undecided, Ripe, TimelockIds
  <2>2. TimelockedTx[i].execute_at \in Nat
    BY <2>1 DEF TimelockedRecord
  <2>3. /\ ~TimelockedTx'[i].canceled /\ TimelockedTx'[i].executed_at = timestamp
        /\ TimelockedTx'[i].execute_at = TimelockedTx[i].execute_at
    BY <2>1 DEF TimelockIds, TimelockedRecord
  <2>4. \A j \in TimelockIds : j # i => TimelockedTx'[j] = TimelockedTx[j]
    BY <2>1 DEF TimelockIds
  <2>5. Honoured(TimelockedTx[i])'
    BY <1>1, <2>1, <2>2, <2>3 DEF Honoured
  <2>6. \A j \in TimelockIds : j # i => Honoured(TimelockedTx[j])'
    BY <1>1, <2>1, <2>4, HonouredLater
  <2> QED
    BY <2>1, <2>5, <2>6 DEF TimelockHonoured, Honoured
<1>5. ASSUME NEW i \in TimelockIds, NEW c \in Users, CancelTimelocked(c, i)
      PROVE  TimelockHonoured'
  <2>1. /\ TimelockedTx[i] \in TimelockedRecord /\ timestamp' = timestamp
        /\ TimelockedTx' = [TimelockedTx EXCEPT ![i].canceled = TRUE, ![i].canceled_at = timestamp]
        /\ ~TimelockedTx[i].executed /\ TimelockIds' = TimelockIds
    BY <1>5 DEF CancelTimelocked, TypeOK, Undecided, TimelockIds
  <2>2. ~TimelockedTx'[i].executed /\ TimelockedTx'[i].canceled_at = timestamp
    BY <2>1 DEF TimelockIds, TimelockedRecord
  <2>3. \A j \in TimelockIds : j # i => TimelockedTx'[j] = TimelockedTx[j]
    BY <2>1 DEF TimelockIds
  <2>5. Honoured(TimelockedTx[i])'
    BY <1>1, <2>1, <2>2 DEF Honoured
  <2>6. \A j \in TimelockIds : j # i => Honoured(TimelockedTx[j])'
    BY <1>1, <2>1, <2>3, HonouredLater
  <2> QED
    BY <2>1, <2>5, <2>6 DEF TimelockHonoured, Honoured
<1>6. CASE \/ \E c \in Users : Initialize(c)
           \/ \E c \in Users, ss \in SignerLists, n \in Thresholds : SetSigners(c, ss, n)
           \/ \E c \in Users, a \in HighValues : SetHighValueThreshold(c, a)
           \/ \E c, u \in Users, a \in Grants : SetBalance(c, u, a)
           \/ \E b \in Blockable : BlockDestination(b[1], b[2])
           \/ \E b \in Blockable : UnblockDestination(b[1], b[2])
           \/ \E p \in Payments : SubmitLowValue(p)
           \/ \E p \in Payments : SubmitHighValue(p)
           \/ \E t \in TxIds, u \in Users : Approve(t, u)
           \/ CloseLedger \/ UNCHANGED vars
  <2>1. UNCHANGED TimelockedTx
    BY <1>6 DEF Initialize, SetSigners, SetHighValueThreshold, SetBalance, BlockDestination,
         UnblockDestination, SubmitLowValue, SubmitHighValue, Approve, CloseLedger, vars, timelock
  <2> QED
    BY <1>2, <2>1
<1> QED
  BY <1>3, <1>4, <1>5, <1>6 DEF Next

\* A scheduled payment is executed or canceled, never both, and executed when due,
\* for every schedule.
THEOREM TimelockStands == Spec => []TimelockHonoured
<1>1. Init => TimelockHonoured
  BY DEF Init, TimelockHonoured, TimelockIds
<1>2. TypeOK /\ Configured /\ TimelockHonoured /\ [Next]_vars => TimelockHonoured'
  BY TimelockNext
<1> QED
  BY <1>1, <1>2, TypeCorrect, PTL DEF Spec

------------------------------------------------------------------------------
\* Consent.

\* A payment that moves takes from its payer and gives to its payee, and nobody
\* else's balance changes.
LEMMA OnlyPartiesMove ==
  ASSUME TypeOK, NEW p, p.from \in Users, p.to \in Users, p.amount \in Nat \ {0},
         Balance' = Transferred(p),
         NEW u \in Users, NEW v \in Users, Balance'[u] < Balance[u], Balance'[v] > Balance[v]
  PROVE  /\ u = p.from /\ v = p.to
         /\ Balance[u] - Balance'[u] = p.amount /\ Balance'[v] - Balance[v] = p.amount
<1>1. /\ Balance \in [Users -> 0..I128_MAX] /\ I128_MAX \in Nat
  BY BoundAssumption DEF TypeOK
<1>2. \A w \in Users : Balance[w] \in Int
  BY <1>1
<1>3. Balance'[p.to] = Balance[p.to] + p.amount
  BY <1>1 DEF Transferred
<1>4. p.from # p.to => Balance'[p.from] = Balance[p.from] - p.amount
  BY <1>1 DEF Transferred
<1>5. \A w \in Users : w \notin {p.from, p.to} => Balance'[w] = Balance[w]
  BY <1>1 DEF Transferred
<1>6. u = p.from /\ u # p.to
  BY <1>2, <1>3, <1>5
<1>7. v = p.to
  BY <1>2, <1>4, <1>5, <1>6
<1> QED
  BY <1>2, <1>3, <1>4, <1>6, <1>7

\* The last approval executes its payment with a quorum of different addresses.
LEMMA ApprovedWithQuorum ==
  ASSUME TypeOK, Configured, CountsAgree, NEW t \in TxIds, NEW s \in Users, Approve(t, s),
         Balance' # Balance
  PROVE  /\ ~PendingTx[t].executed /\ PendingTx'[t].executed
         /\ Cardinality(Approvers(t)') >= Threshold /\ Threshold > 0
         /\ PendingTx[t] \in PendingRecord /\ Balance' = Transferred(PendingTx[t])
<1>1. /\ PendingTx \in [TxIds -> PendingRecord] /\ PendingTx[t] \in PendingRecord
      /\ ApprovalCount[t] \in Nat
  BY DEF TypeOK
<1>2. Completes(t) /\ PendingTx' = Executed(t) /\ Balance' = Transferred(PendingTx[t])
  BY DEF Approve
<1>3. ~PendingTx[t].executed
  BY DEF Approve
<1>4. PendingTx'[t].executed
  BY <1>1, <1>2 DEF Executed, PendingRecord
<1>5. Cardinality(Approvers(t)') >= Threshold
  <2>1. ApprovalCount'[t] = Cardinality(Approvers(t)') /\ ApprovalCount'[t] = ApprovalCount[t] + 1
    BY ApproveCounts
  <2> QED
    BY <1>2, <2>1 DEF Completes
<1>6. Threshold > 0
  <2>1. Signers # << >>
    BY DEF Approve, IsSigner
  <2> QED
    BY <2>1 DEF Configured
<1> QED
  BY <1>1, <1>2, <1>3, <1>4, <1>5, <1>6

LEMMA ConsentNext ==
  ASSUME TypeOK, Configured, CountsAgree, [Next]_vars PROVE ConsentToMove
<1> SUFFICES ASSUME NEW u \in Users, NEW v \in Users,
                    Balance'[u] < Balance[u], Balance'[v] > Balance[v]
             PROVE  LET amount == Balance[u] - Balance'[u] IN
                    /\ Balance'[v] - Balance[v] = amount
                    /\ \/ amount < HighValueThreshold
                       \/ \E t \in TxIds : ExecutesWithQuorum(t, u, v, amount)
                       \/ \E i \in TimelockIds : ExecutesWhenDue(i, u, v, amount)
  BY DEF ConsentToMove
<1> DEFINE amount == Balance[u] - Balance'[u]
<1>0. /\ Balance \in [Users -> 0..I128_MAX] /\ Balance[u] \in Int /\ Balance[v] \in Int
      /\ Balance' # Balance
  <2>1. Balance \in [Users -> 0..I128_MAX] /\ I128_MAX \in Nat
    BY BoundAssumption DEF TypeOK
  <2>2. Balance[u] \in Int /\ Balance[v] \in Int
    BY <2>1
  <2> QED
    BY <2>1, <2>2
<1>1. ASSUME NEW p \in Payments, SubmitLowValue(p)
      PROVE  Balance'[v] - Balance[v] = amount /\ amount < HighValueThreshold
  <2>1. p.from \in Users /\ p.to \in Users /\ p.amount \in Nat \ {0}
    BY <1>1, InputAssumption DEF SubmitLowValue, Admissible, Payment
  <2>2. Balance' = Transferred(p) /\ p.amount < HighValueThreshold
    BY <1>1 DEF SubmitLowValue, LowValue
  <2> QED
    BY <2>1, <2>2, OnlyPartiesMove
<1>2. ASSUME NEW t \in TxIds, NEW s \in Users, Approve(t, s)
      PROVE  Balance'[v] - Balance[v] = amount /\ ExecutesWithQuorum(t, u, v, amount)
  <2>1. /\ ~PendingTx[t].executed /\ PendingTx'[t].executed
        /\ Cardinality(Approvers(t)') >= Threshold /\ Threshold > 0
        /\ PendingTx[t] \in PendingRecord /\ Balance' = Transferred(PendingTx[t])
    BY <1>0, <1>2, ApprovedWithQuorum
  <2>2. /\ PendingTx[t].from \in Users /\ PendingTx[t].to \in Users
        /\ PendingTx[t].amount \in Nat \ {0}
    BY <2>1 DEF PendingRecord
  <2>3. /\ PendingTx[t].from = u /\ PendingTx[t].to = v
        /\ Balance[u] - Balance'[u] = PendingTx[t].amount
        /\ Balance'[v] - Balance[v] = PendingTx[t].amount
    BY <2>1, <2>2, OnlyPartiesMove
  <2> QED
    BY <2>1, <2>3 DEF ExecutesWithQuorum
<1>3. ASSUME NEW i \in TimelockIds, NEW c \in Users, ExecuteTimelocked(c, i)
      PROVE  Balance'[v] - Balance[v] = amount /\ ExecutesWhenDue(i, u, v, amount)
  <2>1. /\ TimelockedTx \in [TimelockIds -> TimelockedRecord]
        /\ TimelockedTx[i] \in TimelockedRecord
        /\ ~TimelockedTx[i].executed /\ ~TimelockedTx[i].canceled
        /\ timestamp >= TimelockedTx[i].execute_at /\ Balance' = Transferred(TimelockedTx[i])
        /\ TimelockedTx' = [TimelockedTx EXCEPT ![i].executed = TRUE, ![i].executed_at = timestamp]
    BY <1>3 DEF ExecuteTimelocked, TypeOK, Undecided, Ripe
  <2>2. /\ TimelockedTx[i].from \in Users /\ TimelockedTx[i].to \in Users
        /\ TimelockedTx[i].amount \in Nat \ {0}
    BY <2>1 DEF TimelockedRecord
  <2>3. /\ TimelockedTx[i].from = u /\ TimelockedTx[i].to = v
        /\ Balance[u] - Balance'[u] = TimelockedTx[i].amount
        /\ Balance'[v] - Balance[v] = TimelockedTx[i].amount
    BY <2>1, <2>2, OnlyPartiesMove
  <2>4. TimelockedTx'[i].executed
    BY <2>1 DEF TimelockedRecord
  <2> QED
    BY <2>1, <2>3, <2>4 DEF ExecutesWhenDue
<1>4. ASSUME NEW c \in Users, NEW w \in Users, NEW a \in Grants, SetBalance(c, w, a)
      PROVE  FALSE
  <2>1. Balance' = [Balance EXCEPT ![w] = a]
    BY <1>4 DEF SetBalance
  <2>2. u = w /\ v = w
    BY <1>0, <2>1
  <2> QED
    BY <1>0, <2>2, InputAssumption, <2>1
<1>5. CASE \/ \E c \in Users : Initialize(c)
           \/ \E c \in Users, ss \in SignerLists, n \in Thresholds : SetSigners(c, ss, n)
           \/ \E c \in Users, a \in HighValues : SetHighValueThreshold(c, a)
           \/ \E b \in Blockable : BlockDestination(b[1], b[2])
           \/ \E b \in Blockable : UnblockDestination(b[1], b[2])
           \/ \E p \in Payments : SubmitHighValue(p)
           \/ \E p \in Payments, at \in ScheduleTimes : Schedule(p, at)
           \/ \E i \in TimelockIds, c \in Users : CancelTimelocked(c, i)
           \/ CloseLedger \/ UNCHANGED vars
  <2>1. UNCHANGED Balance
    BY <1>5 DEF Initialize, SetSigners, SetHighValueThreshold, BlockDestination,
         UnblockDestination, SubmitHighValue, Schedule, CancelTimelocked, CloseLedger, vars
  <2> QED
    BY <1>0, <2>1
<1> QED
  BY <1>1, <1>2, <1>3, <1>4, <1>5 DEF Next

\* Whatever the signers, thresholds and schedules, an amount of the high-value
\* threshold or more leaves an account for another only with a quorum of different
\* approvers of that very payment, or through the timelock when it was due.
THEOREM LargeAmountsNeedConsent == Spec => HighValueNeedsConsent
<1>1. TypeOK /\ Configured /\ CountsAgree /\ [Next]_vars => [ConsentToMove]_vars
  BY ConsentNext
<1> QED
  BY <1>1, TypeCorrect, ApprovalsCounted, PTL DEF Spec, HighValueNeedsConsent

------------------------------------------------------------------------------
\* Refinement.

\* No payment that waits is to its own payer.
NobodyWaitsForOneself == /\ \A t \in TxIds : PendingTx[t].from # PendingTx[t].to
                         /\ \A i \in TimelockIds : TimelockedTx[i].from # TimelockedTx[i].to

\* An order stands for one record.
LEMMA OrderCases ==
  /\ \A t : /\ <<"pending", t>> \in OrderIds <=> t \in TxIds
            /\ OrderOf(<<"pending", t>>) = [from |-> PendingTx[t].from, to |-> PendingTx[t].to,
                                            amount |-> PendingTx[t].amount]
            /\ OutcomeOf(<<"pending", t>>) = IF PendingTx[t].executed THEN "moved" ELSE "open"
  /\ \A i : /\ <<"timelocked", i>> \in OrderIds <=> i \in TimelockIds
            /\ OrderOf(<<"timelocked", i>>)
                 = [from |-> TimelockedTx[i].from, to |-> TimelockedTx[i].to,
                    amount |-> TimelockedTx[i].amount]
            /\ OutcomeOf(<<"timelocked", i>>)
                 = IF TimelockedTx[i].executed THEN "moved"
                   ELSE IF TimelockedTx[i].canceled THEN "dropped" ELSE "open"
  /\ \A n \in OrderIds : \/ \E t \in TxIds : n = <<"pending", t>>
                         \/ \E i \in TimelockIds : n = <<"timelocked", i>>
<1>1. "pending" # "timelocked"
  OBVIOUS
<1>2. \A t : <<"pending", t>> \in OrderIds <=> t \in TxIds
  BY <1>1 DEF OrderIds
<1>3. \A i : <<"timelocked", i>> \in OrderIds <=> i \in TimelockIds
  BY <1>1 DEF OrderIds
<1>4. \A n \in OrderIds : \/ \E t \in TxIds : n = <<"pending", t>>
                          \/ \E i \in TimelockIds : n = <<"timelocked", i>>
  BY DEF OrderIds
<1> QED
  BY <1>1, <1>2, <1>3, <1>4 DEF OrderOf, OutcomeOf

\* A step that leaves the records of payments alone leaves the orders alone.
LEMMA SameOrders ==
  ASSUME UNCHANGED <<PendingTx, TimelockedTx>>
  PROVE  /\ [n \in OrderIds |-> OrderOf(n)]' = [n \in OrderIds |-> OrderOf(n)]
         /\ [n \in OrderIds |-> OutcomeOf(n)]' = [n \in OrderIds |-> OutcomeOf(n)]
<1>1. OrderIds' = OrderIds
  BY DEF OrderIds, TxIds, TimelockIds
<1>2. \A n : OrderOf(n)' = OrderOf(n) /\ OutcomeOf(n)' = OutcomeOf(n)
  BY DEF OrderOf, OutcomeOf
<1> QED
  BY <1>1, <1>2

\* A step that adds one open order is a Place.
LEMMA PlaceMaps ==
  ASSUME NEW n \in OrderNames, NEW o, n \notin OrderIds, OrderIds' = OrderIds \cup {n},
         OrderOf(n)' = o, OutcomeOf(n)' = "open",
         \A m \in OrderIds : OrderOf(m)' = OrderOf(m) /\ OutcomeOf(m)' = OutcomeOf(m),
         UNCHANGED <<Balance, HighValueThreshold>>
  PROVE  Promise!Place(n, o)
<1>1. [m \in OrderIds |-> OrderOf(m)]'
        = [m \in OrderIds \cup {n} |-> IF m = n THEN o ELSE [k \in OrderIds |-> OrderOf(k)][m]]
  OBVIOUS
<1>2. [m \in OrderIds |-> OutcomeOf(m)]'
        = [m \in OrderIds \cup {n} |->
             IF m = n THEN "open" ELSE [k \in OrderIds |-> OutcomeOf(k)][m]]
  OBVIOUS
<1>3. Promise!Placed = OrderIds
  BY DEF Promise!Placed
<1> QED
  BY <1>1, <1>2, <1>3 DEF Promise!Place

\* A step that closes one order.
LEMMA CloseMaps ==
  ASSUME NEW n \in OrderIds, NEW x, OrderIds' = OrderIds, OutcomeOf(n)' = x,
         \A m \in OrderIds : OrderOf(m)' = OrderOf(m),
         \A m \in OrderIds : m # n => OutcomeOf(m)' = OutcomeOf(m)
  PROVE  /\ [m \in OrderIds |-> OrderOf(m)]' = [m \in OrderIds |-> OrderOf(m)]
         /\ [m \in OrderIds |-> OutcomeOf(m)]'
              = [[m \in OrderIds |-> OutcomeOf(m)] EXCEPT ![n] = x]
OBVIOUS

\* Without payments to oneself, the transfer of the code is that of Orders.
LEMMA TransferMoves ==
  ASSUME TypeOK, NEW p, NEW o, o = [from |-> p.from, to |-> p.to, amount |-> p.amount],
         p.from \in Users, p.to \in Users, p.from # p.to,
         CanTransfer(p), Balance' = Transferred(p)
  PROVE  Promise!Moves(o)
<1>1. Balance \in [Users -> 0..I128_MAX]
  BY DEF TypeOK
<1>2. Balance' = [Balance EXCEPT ![p.from] = @ - p.amount, ![p.to] = @ + p.amount]
  BY <1>1 DEF Transferred
<1> QED
  BY <1>2 DEF Promise!Moves, CanTransfer

\* A payment asked for is an order.
LEMMA PaymentIsOrder ==
  ASSUME NEW p \in Payments
  PROVE  /\ p \in Payment
         /\ [from |-> p.from, to |-> p.to, amount |-> p.amount] \in Promise!Order
  BY InputAssumption DEF Payment, Promise!Order

LEMMA NobodyWaitsNext ==
  ASSUME \A p \in Payments : p.from # p.to,
         TypeOK, NobodyWaitsForOneself, [Next]_vars
  PROVE  NobodyWaitsForOneself'
<1>1. ASSUME NEW p \in Payments, SubmitHighValue(p) PROVE NobodyWaitsForOneself'
  <2>1. /\ TimelockedTx' = TimelockedTx
        /\ PendingTx' = [t \in TxIds \cup {NextTxId + 1} |->
             IF t = NextTxId + 1
             THEN [from |-> p.from, to |-> p.to, amount |-> p.amount, executed |-> FALSE]
             ELSE PendingTx[t]]
    BY <1>1 DEF SubmitHighValue, timelock
  <2>2. \A t \in TxIds' : PendingTx'[t].from # PendingTx'[t].to
    BY <2>1 DEF NobodyWaitsForOneself, TxIds
  <2> QED
    BY <2>1, <2>2 DEF NobodyWaitsForOneself, TimelockIds
<1>2. ASSUME NEW p \in Payments, NEW at \in ScheduleTimes, Schedule(p, at)
      PROVE  NobodyWaitsForOneself'
  <2>1. PICK waiting : /\ waiting.from = p.from /\ waiting.to = p.to
                       /\ TimelockedTx' = [i \in TimelockIds \cup {NextTimelockId + 1} |->
                            IF i = NextTimelockId + 1 THEN waiting ELSE TimelockedTx[i]]
                       /\ PendingTx' = PendingTx
    BY <1>2 DEF Schedule, multisig
  <2>2. \A i \in TimelockIds' : TimelockedTx'[i].from # TimelockedTx'[i].to
    BY <2>1 DEF NobodyWaitsForOneself, TimelockIds
  <2> QED
    BY <2>1, <2>2 DEF NobodyWaitsForOneself, TxIds
<1>3. ASSUME NEW t \in TxIds, NEW s \in Users, Approve(t, s) PROVE NobodyWaitsForOneself'
  <2>1. /\ TimelockedTx' = TimelockedTx
        /\ PendingTx' = PendingTx \/ PendingTx' = [PendingTx EXCEPT ![t].executed = TRUE]
        /\ PendingTx \in [TxIds -> PendingRecord]
    BY <1>3 DEF Approve, Executed, TypeOK, timelock
  <2>2. /\ TxIds' = TxIds
        /\ \A k \in TxIds : PendingTx'[k].from = PendingTx[k].from
                            /\ PendingTx'[k].to = PendingTx[k].to
    BY <2>1 DEF TxIds, PendingRecord
  <2> QED
    BY <2>1, <2>2 DEF NobodyWaitsForOneself, TimelockIds
<1>4. ASSUME NEW i \in TimelockIds, NEW c \in Users,
             ExecuteTimelocked(c, i) \/ CancelTimelocked(c, i)
      PROVE  NobodyWaitsForOneself'
  <2>1. /\ PendingTx' = PendingTx /\ TimelockedTx \in [TimelockIds -> TimelockedRecord]
        /\ \/ TimelockedTx' = [TimelockedTx EXCEPT ![i].executed = TRUE, ![i].executed_at = timestamp]
           \/ TimelockedTx' = [TimelockedTx EXCEPT ![i].canceled = TRUE, ![i].canceled_at = timestamp]
    BY <1>4 DEF ExecuteTimelocked, CancelTimelocked, TypeOK, multisig
  <2>2. /\ TimelockIds' = TimelockIds
        /\ \A k \in TimelockIds : TimelockedTx'[k].from = TimelockedTx[k].from
                                  /\ TimelockedTx'[k].to = TimelockedTx[k].to
    BY <2>1 DEF TimelockIds, TimelockedRecord
  <2> QED
    BY <2>1, <2>2 DEF NobodyWaitsForOneself, TxIds
<1>5. ASSUME UNCHANGED <<PendingTx, TimelockedTx>> PROVE NobodyWaitsForOneself'
  BY <1>5 DEF NobodyWaitsForOneself, TxIds, TimelockIds
<1>6. ASSUME \/ \E c \in Users : Initialize(c)
             \/ \E c \in Users, ss \in SignerLists, n \in Thresholds : SetSigners(c, ss, n)
             \/ \E c \in Users, a \in HighValues : SetHighValueThreshold(c, a)
             \/ \E c, u \in Users, a \in Grants : SetBalance(c, u, a)
             \/ \E b \in Blockable : BlockDestination(b[1], b[2])
             \/ \E b \in Blockable : UnblockDestination(b[1], b[2])
             \/ \E p \in Payments : SubmitLowValue(p)
             \/ CloseLedger \/ UNCHANGED vars
      PROVE  UNCHANGED <<PendingTx, TimelockedTx>>
  BY <1>6 DEF Initialize, SetSigners, SetHighValueThreshold, SetBalance, BlockDestination,
       UnblockDestination, SubmitLowValue, CloseLedger, vars, multisig, timelock
<1> QED
  BY <1>1, <1>2, <1>3, <1>4, <1>5, <1>6 DEF Next

\* The steps that place or close an order.
LEMMA SubmitHighValueMaps ==
  ASSUME TypeOK, NEW p \in Payments, SubmitHighValue(p)
  PROVE  \E o \in Promise!Order : \E n \in OrderNames : Promise!Place(n, o)
<1>1. PICK id : id = NextTxId + 1
  OBVIOUS
<1>2. /\ NextTxId \in Nat /\ TxIds = 1..NextTxId /\ NextTxId < MaxPending /\ MaxPending \in Nat
      /\ UNCHANGED <<TimelockedTx, Balance, HighValueThreshold>>
      /\ PendingTx' = [t \in TxIds \cup {id} |->
           IF t = id THEN [from |-> p.from, to |-> p.to, amount |-> p.amount, executed |-> FALSE]
           ELSE PendingTx[t]]
  BY <1>1, BoundAssumption DEF SubmitHighValue, TypeOK, settings, timelock
<1>3. id \in 1..MaxPending /\ id \notin TxIds
  BY <1>1, <1>2
<1>4. TxIds' = TxIds \cup {id} /\ TimelockIds' = TimelockIds
  BY <1>2 DEF TxIds, TimelockIds
<1> DEFINE n == <<"pending", id>>
           o == [from |-> p.from, to |-> p.to, amount |-> p.amount]
<1>5. n \in OrderNames /\ n \notin OrderIds
  BY <1>3, OrderCases DEF OrderNames
<1>6. OrderIds' = OrderIds \cup {n}
  BY <1>4 DEF OrderIds
<1>7. OrderOf(n)' = o /\ OutcomeOf(n)' = "open"
  BY <1>2, <1>4 DEF OrderOf, OutcomeOf
<1>8. \A m \in OrderIds : OrderOf(m)' = OrderOf(m) /\ OutcomeOf(m)' = OutcomeOf(m)
  <2> SUFFICES ASSUME NEW m \in OrderIds
               PROVE  OrderOf(m)' = OrderOf(m) /\ OutcomeOf(m)' = OutcomeOf(m)
    OBVIOUS
  <2>1. CASE \E t \in TxIds : m = <<"pending", t>>
    <3>1. PICK t \in TxIds : m = <<"pending", t>>
      BY <2>1
    <3>2. PendingTx'[t] = PendingTx[t]
      BY <1>2, <1>3
    <3> QED
      BY <3>1, <3>2 DEF OrderOf, OutcomeOf
  <2>2. CASE \E i \in TimelockIds : m = <<"timelocked", i>>
    BY <1>2, <2>2 DEF OrderOf, OutcomeOf
  <2> QED
    BY <2>1, <2>2, OrderCases
<1>9. o \in Promise!Order
  BY PaymentIsOrder
<1> HIDE DEF n, o
<1>10. Promise!Place(n, o)
  BY <1>2, <1>5, <1>6, <1>7, <1>8, PlaceMaps
<1> QED
  BY <1>5, <1>9, <1>10

LEMMA ScheduleMaps ==
  ASSUME TypeOK, NEW p \in Payments, NEW at \in ScheduleTimes, Schedule(p, at)
  PROVE  \E o \in Promise!Order : \E n \in OrderNames : Promise!Place(n, o)
<1>1. PICK id : id = NextTimelockId + 1
  OBVIOUS
<1>2. /\ NextTimelockId \in Nat /\ TimelockIds = 1..NextTimelockId
      /\ NextTimelockId < MaxTimelocked /\ MaxTimelocked \in Nat
      /\ UNCHANGED <<PendingTx, Balance, HighValueThreshold>>
  BY BoundAssumption DEF Schedule, TypeOK, settings, multisig
<1>3. PICK waiting :
        /\ waiting.from = p.from /\ waiting.to = p.to /\ waiting.amount = p.amount
        /\ ~waiting.executed /\ ~waiting.canceled
        /\ TimelockedTx' = [i \in TimelockIds \cup {id} |->
                              IF i = id THEN waiting ELSE TimelockedTx[i]]
  BY <1>1 DEF Schedule
<1>4. id \in 1..MaxTimelocked /\ id \notin TimelockIds
  BY <1>1, <1>2
<1>5. TimelockIds' = TimelockIds \cup {id} /\ TxIds' = TxIds
  BY <1>2, <1>3 DEF TxIds, TimelockIds
<1> DEFINE n == <<"timelocked", id>>
           o == [from |-> p.from, to |-> p.to, amount |-> p.amount]
<1>6. n \in OrderNames /\ n \notin OrderIds
  BY <1>4, OrderCases DEF OrderNames
<1>7. OrderIds' = OrderIds \cup {n}
  BY <1>5 DEF OrderIds
<1>8. OrderOf(n)' = o /\ OutcomeOf(n)' = "open"
  BY <1>3, <1>5 DEF OrderOf, OutcomeOf
<1>9. \A m \in OrderIds : OrderOf(m)' = OrderOf(m) /\ OutcomeOf(m)' = OutcomeOf(m)
  <2> SUFFICES ASSUME NEW m \in OrderIds
               PROVE  OrderOf(m)' = OrderOf(m) /\ OutcomeOf(m)' = OutcomeOf(m)
    OBVIOUS
  <2>1. CASE \E t \in TxIds : m = <<"pending", t>>
    BY <1>2, <2>1 DEF OrderOf, OutcomeOf
  <2>2. CASE \E i \in TimelockIds : m = <<"timelocked", i>>
    <3>1. PICK i \in TimelockIds : m = <<"timelocked", i>>
      BY <2>2
    <3>2. TimelockedTx'[i] = TimelockedTx[i]
      BY <1>3, <1>4
    <3> QED
      BY <3>1, <3>2 DEF OrderOf, OutcomeOf
  <2> QED
    BY <2>1, <2>2, OrderCases
<1>10. o \in Promise!Order
  BY PaymentIsOrder
<1> HIDE DEF n, o
<1>11. Promise!Place(n, o)
  BY <1>2, <1>6, <1>7, <1>8, <1>9, PlaceMaps
<1> QED
  BY <1>6, <1>10, <1>11

\* An approval moves the order when it is the last one, and nothing otherwise.
LEMMA ApproveMaps ==
  ASSUME TypeOK, NobodyWaitsForOneself, NEW t \in TxIds, NEW s \in Users, Approve(t, s)
  PROVE  (\E n \in Promise!Placed : Promise!Move(n)) \/ UNCHANGED Promise!vars
<1>1. /\ PendingTx \in [TxIds -> PendingRecord] /\ PendingTx[t] \in PendingRecord
      /\ ~PendingTx[t].executed
      /\ UNCHANGED <<TimelockedTx, HighValueThreshold>>
  BY DEF Approve, TypeOK, settings, timelock
<1>2. CASE ~Completes(t)
  <2>1. UNCHANGED <<PendingTx, TimelockedTx, Balance, HighValueThreshold>>
    BY <1>1, <1>2 DEF Approve
  <2> QED
    BY <2>1, SameOrders DEF Promise!vars
<1>3. CASE Completes(t)
  <2> DEFINE n == <<"pending", t>>
  <2>1. /\ CanTransfer(PendingTx[t]) /\ Balance' = Transferred(PendingTx[t])
        /\ PendingTx' = [PendingTx EXCEPT ![t].executed = TRUE]
    BY <1>3 DEF Approve, Executed
  <2>2. /\ PendingTx[t].from \in Users /\ PendingTx[t].to \in Users
        /\ PendingTx[t].from # PendingTx[t].to
    BY <1>1 DEF PendingRecord, NobodyWaitsForOneself
  <2>3. Promise!Moves(OrderOf(n))
    BY <2>1, <2>2, OrderCases, TransferMoves
  <2>4. TxIds' = TxIds /\ TimelockIds' = TimelockIds /\ OrderIds' = OrderIds
    BY <1>1, <2>1 DEF TxIds, TimelockIds, OrderIds
  <2>5. n \in OrderIds /\ OutcomeOf(n) = "open"
    BY <1>1, OrderCases
  <2>6. /\ PendingTx'[t].executed
        /\ \A k \in TxIds : /\ PendingTx'[k].from = PendingTx[k].from
                            /\ PendingTx'[k].to = PendingTx[k].to
                            /\ PendingTx'[k].amount = PendingTx[k].amount
        /\ \A k \in TxIds : k # t => PendingTx'[k] = PendingTx[k]
    BY <1>1, <2>1 DEF PendingRecord
  <2>7. OutcomeOf(n)' = "moved"
    BY <2>6 DEF OutcomeOf
  <2>8. \A m \in OrderIds : /\ OrderOf(m)' = OrderOf(m)
                            /\ m # n => OutcomeOf(m)' = OutcomeOf(m)
    <3> SUFFICES ASSUME NEW m \in OrderIds
                 PROVE  OrderOf(m)' = OrderOf(m) /\ (m # n => OutcomeOf(m)' = OutcomeOf(m))
      OBVIOUS
    <3>1. CASE \E k \in TxIds : m = <<"pending", k>>
      <4>1. PICK k \in TxIds : m = <<"pending", k>>
        BY <3>1
      <4> QED
        BY <2>6, <4>1 DEF OrderOf, OutcomeOf
    <3>2. CASE \E i \in TimelockIds : m = <<"timelocked", i>>
      BY <1>1, <3>2 DEF OrderOf, OutcomeOf
    <3> QED
      BY <3>1, <3>2, OrderCases
  <2> HIDE DEF n
  <2>9. /\ [m \in OrderIds |-> OrderOf(m)]' = [m \in OrderIds |-> OrderOf(m)]
        /\ [m \in OrderIds |-> OutcomeOf(m)]'
             = [[m \in OrderIds |-> OutcomeOf(m)] EXCEPT ![n] = "moved"]
    BY <2>4, <2>5, <2>7, <2>8, CloseMaps
  <2>10. Promise!Move(n)
    BY <1>1, <2>3, <2>5, <2>9 DEF Promise!Move
  <2> QED
    BY <2>5, <2>10 DEF Promise!Placed
<1> QED
  BY <1>2, <1>3

\* Deciding a scheduled payment touches its outcome only.
LEMMA DecideCloses ==
  ASSUME TypeOK, NEW i \in TimelockIds, UNCHANGED PendingTx, Undecided(i), NEW x,
         \/ /\ x = "moved"
            /\ TimelockedTx' = [TimelockedTx EXCEPT ![i].executed = TRUE,
                                                    ![i].executed_at = timestamp]
         \/ /\ x = "dropped"
            /\ TimelockedTx' = [TimelockedTx EXCEPT ![i].canceled = TRUE,
                                                    ![i].canceled_at = timestamp]
  PROVE  /\ <<"timelocked", i>> \in OrderIds /\ OutcomeOf(<<"timelocked", i>>) = "open"
         /\ [m \in OrderIds |-> OrderOf(m)]' = [m \in OrderIds |-> OrderOf(m)]
         /\ [m \in OrderIds |-> OutcomeOf(m)]'
              = [[m \in OrderIds |-> OutcomeOf(m)] EXCEPT ![<<"timelocked", i>>] = x]
<1> DEFINE n == <<"timelocked", i>>
<1>1. /\ TimelockedTx \in [TimelockIds -> TimelockedRecord]
      /\ TimelockedTx[i] \in TimelockedRecord
  BY DEF TypeOK
<1>2. n \in OrderIds /\ OutcomeOf(n) = "open"
  BY OrderCases DEF Undecided
<1>3. TimelockIds' = TimelockIds /\ OrderIds' = OrderIds
  <2>1. TimelockIds' = TimelockIds /\ TxIds' = TxIds
    BY DEF TimelockIds, TxIds
  <2> QED
    BY <2>1 DEF OrderIds
<1>4. /\ IF TimelockedTx'[i].executed THEN x = "moved"
         ELSE TimelockedTx'[i].canceled /\ x = "dropped"
      /\ \A k \in TimelockIds : /\ TimelockedTx'[k].from = TimelockedTx[k].from
                                /\ TimelockedTx'[k].to = TimelockedTx[k].to
                                /\ TimelockedTx'[k].amount = TimelockedTx[k].amount
      /\ \A k \in TimelockIds : k # i => TimelockedTx'[k] = TimelockedTx[k]
  BY <1>1 DEF TimelockedRecord, Undecided
<1>5. OutcomeOf(n)' = x
  BY <1>4 DEF OutcomeOf
<1>6. \A m \in OrderIds : /\ OrderOf(m)' = OrderOf(m)
                          /\ m # n => OutcomeOf(m)' = OutcomeOf(m)
  <2> SUFFICES ASSUME NEW m \in OrderIds
               PROVE  OrderOf(m)' = OrderOf(m) /\ (m # n => OutcomeOf(m)' = OutcomeOf(m))
    OBVIOUS
  <2>1. CASE \E t \in TxIds : m = <<"pending", t>>
    BY <2>1 DEF OrderOf, OutcomeOf
  <2>2. CASE \E k \in TimelockIds : m = <<"timelocked", k>>
    <3>1. PICK k \in TimelockIds : m = <<"timelocked", k>>
      BY <2>2
    <3> QED
      BY <1>4, <3>1 DEF OrderOf, OutcomeOf
  <2> QED
    BY <2>1, <2>2, OrderCases
<1> HIDE DEF n
<1>7. /\ [m \in OrderIds |-> OrderOf(m)]' = [m \in OrderIds |-> OrderOf(m)]
      /\ [m \in OrderIds |-> OutcomeOf(m)]'
           = [[m \in OrderIds |-> OutcomeOf(m)] EXCEPT ![n] = x]
  BY <1>2, <1>3, <1>5, <1>6, CloseMaps
<1> USE DEF n
<1> QED
  BY <1>2, <1>7

LEMMA DecideMaps ==
  ASSUME TypeOK, NobodyWaitsForOneself, NEW i \in TimelockIds, NEW c \in Users,
         ExecuteTimelocked(c, i) \/ CancelTimelocked(c, i)
  PROVE  \E n \in Promise!Placed : Promise!Move(n) \/ Promise!Drop(n)
<1> DEFINE n == <<"timelocked", i>>
<1>1. CASE ExecuteTimelocked(c, i)
  <2>1. /\ Undecided(i) /\ UNCHANGED <<PendingTx, HighValueThreshold>>
        /\ CanTransfer(TimelockedTx[i]) /\ Balance' = Transferred(TimelockedTx[i])
        /\ TimelockedTx' = [TimelockedTx EXCEPT ![i].executed = TRUE, ![i].executed_at = timestamp]
    BY <1>1 DEF ExecuteTimelocked, settings, multisig
  <2>2. TimelockedTx[i] \in TimelockedRecord
    BY DEF TypeOK
  <2>3. Promise!Moves(OrderOf(n))
    BY <2>1, <2>2, OrderCases, TransferMoves DEF TimelockedRecord, NobodyWaitsForOneself
  <2>4. /\ n \in OrderIds /\ OutcomeOf(n) = "open"
        /\ [m \in OrderIds |-> OrderOf(m)]' = [m \in OrderIds |-> OrderOf(m)]
        /\ [m \in OrderIds |-> OutcomeOf(m)]'
             = [[m \in OrderIds |-> OutcomeOf(m)] EXCEPT ![n] = "moved"]
    BY <2>1, DecideCloses
  <2> HIDE DEF n
  <2>5. Promise!Move(n)
    BY <2>1, <2>3, <2>4 DEF Promise!Move
  <2> QED
    BY <2>4, <2>5 DEF Promise!Placed
<1>2. CASE CancelTimelocked(c, i)
  <2>1. /\ Undecided(i) /\ UNCHANGED <<PendingTx, Balance, HighValueThreshold>>
        /\ TimelockedTx' = [TimelockedTx EXCEPT ![i].canceled = TRUE, ![i].canceled_at = timestamp]
    BY <1>2 DEF CancelTimelocked, settings, multisig
  <2>2. /\ n \in OrderIds /\ OutcomeOf(n) = "open"
        /\ [m \in OrderIds |-> OrderOf(m)]' = [m \in OrderIds |-> OrderOf(m)]
        /\ [m \in OrderIds |-> OutcomeOf(m)]'
             = [[m \in OrderIds |-> OutcomeOf(m)] EXCEPT ![n] = "dropped"]
    BY <2>1, DecideCloses
  <2> HIDE DEF n
  <2>3. Promise!Drop(n)
    BY <2>1, <2>2 DEF Promise!Drop
  <2> QED
    BY <2>2, <2>3 DEF Promise!Placed
<1> QED
  BY <1>1, <1>2

LEMMA RefinesNext ==
  ASSUME \A p \in Payments : p.from # p.to,
         TypeOK, Configured, NobodyWaitsForOneself, [Next]_vars
  PROVE  [Promise!Next]_(Promise!vars)
<1>1. ASSUME NEW c \in Users, NEW u \in Users, NEW a \in Grants, SetBalance(c, u, a)
      PROVE  Promise!Next
  <2>1. a \in 0..I128_MAX
    BY <1>1, InputAssumption DEF SetBalance
  <2>2. Promise!Grant(u, a)
    BY <1>1, SameOrders DEF SetBalance, Promise!Grant, settings, multisig, timelock
  <2> QED
    BY <2>1, <2>2 DEF Promise!Next
<1>2. ASSUME \/ \E c \in Users : Initialize(c)
             \/ \E c \in Users, a \in HighValues : SetHighValueThreshold(c, a)
      PROVE  Promise!Next
  <2>1. PICK a \in 0..I128_MAX : HighValueThreshold' = a
    BY <1>2, InputAssumption, BoundAssumption DEF Initialize, SetHighValueThreshold
  <2>2. Promise!SetCeiling(a)
    BY <1>2, <2>1, SameOrders
       DEF Initialize, SetHighValueThreshold, Promise!SetCeiling, multisig, timelock
  <2> QED
    BY <2>2 DEF Promise!Next
<1>3. ASSUME NEW p \in Payments, SubmitLowValue(p) PROVE Promise!Next
  <2>1. /\ p \in Payment /\ p.from # p.to
        /\ [from |-> p.from, to |-> p.to, amount |-> p.amount] \in Promise!Order
    BY PaymentIsOrder
  <2>2. PICK o : /\ o = [from |-> p.from, to |-> p.to, amount |-> p.amount]
                 /\ o \in Promise!Order
    BY <2>1
  <2>3. Promise!Moves(o)
    BY <1>3, <2>1, <2>2, TransferMoves DEF SubmitLowValue, Payment
  <2>4. o.amount < HighValueThreshold
    BY <1>3, <2>2 DEF SubmitLowValue, LowValue
  <2>5. Promise!PayAtOnce(o)
    BY <1>3, <2>3, <2>4, SameOrders
       DEF SubmitLowValue, Promise!PayAtOnce, settings, multisig, timelock
  <2> QED
    BY <2>2, <2>5 DEF Promise!Next
<1>4. ASSUME NEW p \in Payments,
             SubmitHighValue(p) \/ \E at \in ScheduleTimes : Schedule(p, at)
      PROVE  Promise!Next
  BY <1>4, SubmitHighValueMaps, ScheduleMaps DEF Promise!Next
<1>5. ASSUME NEW t \in TxIds, NEW s \in Users, Approve(t, s) PROVE [Promise!Next]_(Promise!vars)
  BY <1>5, ApproveMaps DEF Promise!Next
<1>6. ASSUME NEW i \in TimelockIds, NEW c \in Users,
             ExecuteTimelocked(c, i) \/ CancelTimelocked(c, i)
      PROVE  Promise!Next
  BY <1>6, DecideMaps DEF Promise!Next
<1>7. ASSUME \/ \E c \in Users, ss \in SignerLists, n \in Thresholds : SetSigners(c, ss, n)
             \/ \E b \in Blockable : BlockDestination(b[1], b[2])
             \/ \E b \in Blockable : UnblockDestination(b[1], b[2])
             \/ CloseLedger \/ UNCHANGED vars
      PROVE  UNCHANGED Promise!vars
  <2>1. UNCHANGED <<PendingTx, TimelockedTx, Balance, HighValueThreshold>>
    BY <1>7 DEF SetSigners, BlockDestination, UnblockDestination, CloseLedger, vars, settings,
         multisig, timelock
  <2> QED
    BY <2>1, SameOrders DEF Promise!vars
<1> QED
  BY <1>1, <1>2, <1>3, <1>4, <1>5, <1>6, <1>7 DEF Next

\* While nobody pays oneself, the contract implements Orders: a payment that waits
\* is moved at most once, with its amount, between its payer and its payee; only a
\* payment below the high-value threshold moves without waiting; and balances
\* change in no other way except by grants.
THEOREM PaymentsAreOrders ==
  ASSUME \A p \in Payments : p.from # p.to
  PROVE  Spec => ImplementsOrders
<1>1. Init => Promise!Init /\ NobodyWaitsForOneself
  <2> SUFFICES ASSUME Init PROVE Promise!Init /\ NobodyWaitsForOneself
    OBVIOUS
  <2>1. TxIds = {} /\ TimelockIds = {}
    BY DEF Init, TxIds, TimelockIds
  <2>2. OrderIds = {}
    BY <2>1 DEF OrderIds
  <2>3. /\ [n \in OrderIds |-> OrderOf(n)] = [n \in {} |-> "none"]
        /\ [n \in OrderIds |-> OutcomeOf(n)] = [n \in {} |-> "none"]
    BY <2>2
  <2> QED
    BY <2>1, <2>3 DEF Init, Promise!Init, NobodyWaitsForOneself
<1>2. TypeOK /\ NobodyWaitsForOneself /\ [Next]_vars => NobodyWaitsForOneself'
  BY NobodyWaitsNext
<1>3. TypeOK /\ Configured /\ NobodyWaitsForOneself /\ [Next]_vars
        => [Promise!Next]_(Promise!vars)
  BY RefinesNext
<1> QED
  BY <1>1, <1>2, <1>3, TypeCorrect, PTL DEF Spec, ImplementsOrders, Promise!Spec
===============================================================================
