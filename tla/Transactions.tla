----------------------------- MODULE Transactions -----------------------------
(***************************************************************************)
(* The transactions contract (contracts/transactions.rs), which composes   *)
(* the multisignature (multisig.rs) and the timelock (timelock.rs) over    *)
(* one ledger of balances.  A payment below the high-value threshold moves *)
(* at once; any other waits until enough signers have approved it; and any *)
(* payment at all may be scheduled for later instead.  A call is atomic,   *)
(* so an action's guard is everything that must not panic, and the last    *)
(* approval of a payment that cannot move is not recorded.                 *)
(* The payload and the asset of a payment are stored and never looked at.  *)
(***************************************************************************)
EXTENDS Sequences, FiniteSets, Integers

CONSTANTS Users,
          Unset,          \* a key that is not stored
          Payments,       \* the [from, to, amount] arguments of submit and schedule
          SignerLists, Thresholds,   \* set_signers arguments
          HighValues,     \* set_high_value_threshold arguments
          Grants,         \* set_balance amounts
          Blockable,      \* <<caller, destination>> pairs that may be blocked
          ScheduleTimes,  \* execute_at arguments
          I128_MAX,
          MaxPending, MaxTimelocked, MaxTime

Payment == [from : Users, to : Users, amount : Int]

ASSUME UsersAssumption == IsFiniteSet(Users) /\ Unset \notin Users \cup Nat
ASSUME InputAssumption ==
  /\ Payments \subseteq Payment
  /\ \A ss \in SignerLists : ss \in Seq(Users)
  /\ Thresholds \subseteq Nat /\ HighValues \subseteq Int /\ Grants \subseteq Int
  /\ \A n \in HighValues \cup Grants : n <= I128_MAX
  /\ Blockable \subseteq Users \X Users /\ ScheduleTimes \subseteq Nat
ASSUME BoundAssumption == /\ I128_MAX \in Nat /\ MaxPending \in Nat
                          /\ MaxTimelocked \in Nat /\ MaxTime \in Nat

VARIABLES Admin, Signers, Threshold, HighValueThreshold,
          NextTxId, PendingTx,          \* PendingTx(1..NextTxId)
          Approval,                     \* the set of <<id, signer>> keys
          ApprovalCount,                \* id -> u32
          Balance,                      \* 0 where no key is stored
          BlacklistedDestination,       \* the set of <<caller, destination>> keys
          NextTimelockId, TimelockedTx, \* TimelockedTx(1..NextTimelockId)
          timestamp

settings  == <<Admin, Signers, Threshold, HighValueThreshold>>
multisig  == <<NextTxId, PendingTx, Approval, ApprovalCount>>
timelock  == <<NextTimelockId, TimelockedTx>>
vars == <<settings, multisig, Balance, BlacklistedDestination, timelock, timestamp>>

PendingRecord == [from : Users, to : Users, amount : Nat \ {0}, executed : BOOLEAN]
TimelockedRecord == [from : Users, to : Users, amount : Nat \ {0}, execute_at : Nat,
                     executed : BOOLEAN, canceled : BOOLEAN,
                     executed_at : Nat \cup {Unset}, canceled_at : Nat \cup {Unset}]
TxIds == DOMAIN PendingTx
TimelockIds == DOMAIN TimelockedTx

\* Before initialize the getters answer with these same defaults.
Init ==
  /\ Admin = Unset
  /\ Signers = << >> /\ Threshold = 0 /\ HighValueThreshold = I128_MAX
  /\ NextTxId = 0 /\ PendingTx = [t \in {} |-> Unset]
  /\ Approval = {} /\ ApprovalCount = [t \in {} |-> 0]
  /\ Balance = [u \in Users |-> 0]
  /\ BlacklistedDestination = {}
  /\ NextTimelockId = 0 /\ TimelockedTx = [i \in {} |-> Unset]
  /\ timestamp = 0

------------------------------------------------------------------------------
\* Administration.

IsAdmin(caller) == Admin # Unset /\ caller = Admin

Initialize(admin) ==
  /\ Admin = Unset
  /\ Admin' = admin
  /\ Signers' = << >> /\ Threshold' = 0 /\ HighValueThreshold' = I128_MAX
  /\ NextTxId' = 0
  /\ UNCHANGED <<PendingTx, Approval, ApprovalCount, Balance, BlacklistedDestination,
                 timelock, timestamp>>

IsSigner(u) == \E i \in DOMAIN Signers : Signers[i] = u

ValidSigners(signers, threshold) ==
  /\ threshold \in 1..Len(signers)
  /\ \A i, j \in DOMAIN signers : signers[i] = signers[j] => i = j

SetSigners(caller, signers, threshold) ==
  /\ IsAdmin(caller)
  /\ ValidSigners(signers, threshold)
  /\ Signers' = signers /\ Threshold' = threshold
  /\ UNCHANGED <<Admin, HighValueThreshold, multisig, Balance, BlacklistedDestination,
                 timelock, timestamp>>

SetHighValueThreshold(caller, amount) ==
  /\ IsAdmin(caller)
  /\ amount >= 0
  /\ HighValueThreshold' = amount
  /\ UNCHANGED <<Admin, Signers, Threshold, multisig, Balance, BlacklistedDestination,
                 timelock, timestamp>>

SetBalance(caller, user, amount) ==
  /\ IsAdmin(caller)
  /\ amount >= 0
  /\ Balance' = [Balance EXCEPT ![user] = amount]
  /\ UNCHANGED <<settings, multisig, BlacklistedDestination, timelock, timestamp>>

BlockDestination(caller, destination) ==
  /\ BlacklistedDestination' = BlacklistedDestination \cup {<<caller, destination>>}
  /\ UNCHANGED <<settings, multisig, Balance, timelock, timestamp>>

UnblockDestination(caller, destination) ==
  /\ BlacklistedDestination' = BlacklistedDestination \ {<<caller, destination>>}
  /\ UNCHANGED <<settings, multisig, Balance, timelock, timestamp>>

------------------------------------------------------------------------------
\* The internal transfer.  Both balances are read before either is written, so
\* paying oneself adds the amount.

\* Mutant: the payer's balance is not checked.
CanTransferUnfunded(p) == Balance[p.to] + p.amount <= I128_MAX
CanTransfer(p) == /\ Balance[p.from] >= p.amount
                  /\ Balance[p.to] + p.amount <= I128_MAX

Transferred(p) ==
  [Balance EXCEPT ![p.from] = Balance[p.from] - p.amount,
                  ![p.to] = Balance[p.to] + p.amount]

------------------------------------------------------------------------------
\* Payments that need approvals.

Admissible(p) == <<p.from, p.to>> \notin BlacklistedDestination /\ p.amount > 0

LowValue(p) == p.amount < HighValueThreshold

MultisigConfigured == Len(Signers) > 0 /\ Threshold \in 1..Len(Signers)

\* submit_transaction of a low-value payment; no record of it is kept.
SubmitLowValue(p) ==
  /\ Admissible(p)
  /\ LowValue(p)
  /\ CanTransfer(p)
  /\ Balance' = Transferred(p)
  /\ UNCHANGED <<settings, multisig, BlacklistedDestination, timelock, timestamp>>

\* submit_transaction of a high-value payment; whether the payer can pay is not
\* looked at before the last approval.
SubmitHighValue(p) ==
  LET id == NextTxId + 1 IN
  /\ Admissible(p)
  /\ ~LowValue(p)
  /\ MultisigConfigured
  /\ NextTxId < MaxPending
  /\ NextTxId' = id
  /\ PendingTx' = [t \in TxIds \cup {id} |->
       IF t = id THEN [from |-> p.from, to |-> p.to, amount |-> p.amount, executed |-> FALSE]
       ELSE PendingTx[t]]
  /\ ApprovalCount' = [t \in TxIds \cup {id} |-> IF t = id THEN 0 ELSE ApprovalCount[t]]
  /\ UNCHANGED <<settings, Approval, Balance, BlacklistedDestination, timelock, timestamp>>

\* Mutant: the approval key is not looked at.
FirstApprovalAny(t, signer) == TRUE
FirstApproval(t, signer) == <<t, signer>> \notin Approval

\* Mutant: one approval too few is enough.
CompletesEarly(t) == ApprovalCount[t] + 2 >= Threshold
Completes(t) == ApprovalCount[t] + 1 >= Threshold

\* Mutant: the executed payment is not stored.
ExecutedUnsaved(t) == PendingTx
Executed(t) == [PendingTx EXCEPT ![t].executed = TRUE]

\* Earlier approvals count whether or not their authors are still signers.
Approve(t, signer) ==
  /\ IsSigner(signer)
  /\ ~PendingTx[t].executed
  /\ FirstApproval(t, signer)
  /\ Approval' = Approval \cup {<<t, signer>>}
  /\ ApprovalCount' = [ApprovalCount EXCEPT ![t] = @ + 1]
  /\ IF Completes(t)
     THEN /\ CanTransfer(PendingTx[t])
          /\ Balance' = Transferred(PendingTx[t])
          /\ PendingTx' = Executed(t)
     ELSE UNCHANGED <<Balance, PendingTx>>
  /\ UNCHANGED <<settings, NextTxId, BlacklistedDestination, timelock, timestamp>>

------------------------------------------------------------------------------
\* Payments scheduled for later, whatever their amount and without approvals.

\* Scheduling needs no administrator, so it works before initialize.
Schedule(p, execute_at) ==
  LET id == NextTimelockId + 1 IN
  /\ Admissible(p)
  /\ execute_at > timestamp
  /\ NextTimelockId < MaxTimelocked
  /\ NextTimelockId' = id
  /\ TimelockedTx' = [i \in TimelockIds \cup {id} |->
       IF i = id
       THEN [from |-> p.from, to |-> p.to, amount |-> p.amount, execute_at |-> execute_at,
             executed |-> FALSE, canceled |-> FALSE,
             executed_at |-> Unset, canceled_at |-> Unset]
       ELSE TimelockedTx[i]]
  /\ UNCHANGED <<settings, multisig, Balance, BlacklistedDestination, timestamp>>

\* Mutant: a canceled payment can still be executed or canceled.
UndecidedIfNotExecuted(i) == ~TimelockedTx[i].executed
Undecided(i) == ~TimelockedTx[i].executed /\ ~TimelockedTx[i].canceled

Ripe(i) == timestamp >= TimelockedTx[i].execute_at

MayDecide(caller, i) == Admin # Unset /\ caller \in {TimelockedTx[i].from, Admin}

ExecuteTimelocked(caller, i) ==
  /\ Undecided(i)
  /\ Ripe(i)
  /\ MayDecide(caller, i)
  /\ CanTransfer(TimelockedTx[i])
  /\ Balance' = Transferred(TimelockedTx[i])
  /\ TimelockedTx' = [TimelockedTx EXCEPT ![i].executed = TRUE, ![i].executed_at = timestamp]
  /\ UNCHANGED <<settings, multisig, BlacklistedDestination, NextTimelockId, timestamp>>

CancelTimelocked(caller, i) ==
  /\ Undecided(i)
  /\ MayDecide(caller, i)
  /\ TimelockedTx' = [TimelockedTx EXCEPT ![i].canceled = TRUE, ![i].canceled_at = timestamp]
  /\ UNCHANGED <<settings, multisig, Balance, BlacklistedDestination, NextTimelockId,
                 timestamp>>

CloseLedger ==
  /\ timestamp < MaxTime
  /\ timestamp' = timestamp + 1
  /\ UNCHANGED <<settings, multisig, Balance, BlacklistedDestination, timelock>>

Next ==
  \/ \E a \in Users : Initialize(a)
  \/ \E c \in Users, ss \in SignerLists, n \in Thresholds : SetSigners(c, ss, n)
  \/ \E c \in Users, a \in HighValues : SetHighValueThreshold(c, a)
  \/ \E c, u \in Users, a \in Grants : SetBalance(c, u, a)
  \/ \E b \in Blockable : BlockDestination(b[1], b[2])
  \/ \E b \in Blockable : UnblockDestination(b[1], b[2])
  \/ \E p \in Payments : SubmitLowValue(p)
  \/ \E p \in Payments : SubmitHighValue(p)
  \/ \E t \in TxIds, u \in Users : Approve(t, u)
  \/ \E p \in Payments, at \in ScheduleTimes : Schedule(p, at)
  \/ \E i \in TimelockIds, c \in Users : ExecuteTimelocked(c, i)
  \/ \E i \in TimelockIds, c \in Users : CancelTimelocked(c, i)
  \/ CloseLedger

Spec == Init /\ [][Next]_vars

------------------------------------------------------------------------------
\* Every reachable state is well formed: records are numbered without gaps,
\* balances stay within 0..I128_MAX, and the administrator and the settings are
\* of their types.
TypeOK ==
  /\ Admin \in Users \cup {Unset}
  /\ Signers \in Seq(Users) /\ Threshold \in 0..Len(Signers)
  /\ \A i, j \in DOMAIN Signers : Signers[i] = Signers[j] => i = j
  /\ HighValueThreshold \in 0..I128_MAX
  /\ NextTxId \in Nat /\ TxIds = 1..NextTxId
  /\ PendingTx \in [TxIds -> PendingRecord]
  /\ Approval \subseteq TxIds \X Users
  /\ ApprovalCount \in [TxIds -> Nat]
  /\ Balance \in [Users -> 0..I128_MAX]
  /\ BlacklistedDestination \subseteq Users \X Users
  /\ NextTimelockId \in Nat /\ TimelockIds = 1..NextTimelockId
  /\ TimelockedTx \in [TimelockIds -> TimelockedRecord]
  /\ timestamp \in Nat

Approvers(t) == {u \in Users : <<t, u>> \in Approval}

\* The stored count of approvals of a payment is the number of different
\* addresses that approved it.
CountsAgree == \A t \in TxIds : ApprovalCount[t] = Cardinality(Approvers(t))

\* A payment scheduled for later is decided at most once and not too early: it
\* is executed or canceled, never both, and was executed when it was due.
TimelockHonoured ==
  \A i \in TimelockIds :
    LET tx == TimelockedTx[i] IN
    /\ ~(tx.executed /\ tx.canceled)
    /\ tx.executed => tx.executed_at \in tx.execute_at..timestamp
    /\ tx.canceled => tx.canceled_at \in 0..timestamp

\* t is executed by this step, with a quorum of signatures.
ExecutesWithQuorum(t, from, to, amount) ==
  /\ ~PendingTx[t].executed /\ PendingTx'[t].executed
  /\ PendingTx[t].from = from /\ PendingTx[t].to = to /\ PendingTx[t].amount = amount
  /\ Cardinality(Approvers(t)') >= Threshold /\ Threshold > 0

\* i is executed by this step, in its time.
ExecutesWhenDue(i, from, to, amount) ==
  /\ ~TimelockedTx[i].executed /\ ~TimelockedTx[i].canceled /\ TimelockedTx'[i].executed
  /\ TimelockedTx[i].from = from /\ TimelockedTx[i].to = to
  /\ TimelockedTx[i].amount = amount
  /\ timestamp >= TimelockedTx[i].execute_at

\* Money moves from one user to another in equal amounts, and an amount of the
\* high-value threshold or more moves only with a quorum of approvals for that
\* very payment or through the timelock.
ConsentToMove ==
  \A u, v \in Users :
    Balance'[u] < Balance[u] /\ Balance'[v] > Balance[v] =>
      LET amount == Balance[u] - Balance'[u] IN
      /\ Balance'[v] - Balance[v] = amount
      /\ \/ amount < HighValueThreshold
         \/ \E t \in TxIds : ExecutesWithQuorum(t, u, v, amount)
         \/ \E i \in TimelockIds : ExecutesWhenDue(i, u, v, amount)
HighValueNeedsConsent == [][ConsentToMove]_vars

\* Pending and scheduled payments are orders, known by kind and number.
\* (Orders has its own reading of how a payment changes balances.)
OrderNames == ({"pending"} \X (1..MaxPending)) \cup ({"timelocked"} \X (1..MaxTimelocked))
OrderIds == ({"pending"} \X TxIds) \cup ({"timelocked"} \X TimelockIds)
OrderOf(n) == LET r == IF n[1] = "pending" THEN PendingTx[n[2]] ELSE TimelockedTx[n[2]]
              IN  [from |-> r.from, to |-> r.to, amount |-> r.amount]
OutcomeOf(n) ==
  IF n[1] = "pending" THEN IF PendingTx[n[2]].executed THEN "moved" ELSE "open"
  ELSE IF TimelockedTx[n[2]].executed THEN "moved"
  ELSE IF TimelockedTx[n[2]].canceled THEN "dropped" ELSE "open"
Promise == INSTANCE Orders WITH
  Amounts <- {p.amount : p \in Payments}, Names <- OrderNames, Limit <- I128_MAX,
  order <- [n \in OrderIds |-> OrderOf(n)], outcome <- [n \in OrderIds |-> OutcomeOf(n)],
  account <- Balance, ceiling <- HighValueThreshold

\* While nobody pays oneself, a payment that waits is moved at most once, with
\* its amount, between its payer and its payee; only a payment below the
\* high-value threshold moves without waiting; and balances change in no other
\* way except by grants.
ImplementsOrders == Promise!Spec

------------------------------------------------------------------------------
\* contracts/tests/concurrent_spending_tests.rs: "Self transfer should conserve
\* balance".  Paying oneself at once reads the balance, then adds the amount.
SelfTransferConserves ==
  [][\A p \in Payments : p.from = p.to /\ SubmitLowValue(p)
       => Balance'[p.from] = Balance[p.from]]_vars
===============================================================================
