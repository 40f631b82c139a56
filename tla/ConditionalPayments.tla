------------------------- MODULE ConditionalPayments --------------------------
(***************************************************************************)
(* The conditional payments contract (contracts/conditional_payment.rs):   *)
(* a payer locks tokens in the contract under a list of conditions, anyone *)
(* may have the payment executed while all of them hold, and the payer may *)
(* take the money back before that.  The order of the calls decides which, *)
(* and a condition that held may cease to hold.                            *)
(* One token is modelled, with the balances this contract moves.           *)
(***************************************************************************)
EXTENDS Sequences, Sums, FiniteSets

CONSTANTS Users, Unset,
          Contract,          \* the address of this contract
          Offers,            \* [payer, recipient, amount, conditions] of create_payment
          Opening,           \* the token balances at the start
          Allowances,        \* what a payer lets the contract draw
          MAX_CONDITIONS, MAX_SIGNERS,
          MaxPayments, MaxTime

VARIABLES Admin,
          Payment,           \* Payment(0..NextPaymentId - 1), numbered from 1 here
          ApprovalStamp,     \* the set of <<id, signer>> keys
          wallet, allowance, \* the token: balances, and what Contract may draw
          timestamp
vars == <<Admin, Payment, ApprovalStamp, wallet, allowance, timestamp>>

\* TimeAfter and TimeBefore compare the ledger time, BalanceAbove and
\* BalanceBelow a token balance, MultiSigApproved counts signers' approvals.
TimeCondition == [type : {"TimeAfter", "TimeBefore"}, at : Nat]
BalanceCondition == [type : {"BalanceAbove", "BalanceBelow"}, watch : Users, threshold : Int]
MultiSigCondition == [type : {"MultiSigApproved"}, signers : Seq(Users), required : Nat]
Condition == TimeCondition \cup BalanceCondition \cup MultiSigCondition

PaymentIds == DOMAIN Payment
PaymentRecord == [payer : Users, recipient : Users, amount : Nat \ {0},
                  conditions : Seq(Condition),
                  status : {"Pending", "Executed", "Cancelled"}, settled_at : Nat]

\* The contract is no user, and callers send well-formed arguments.
ConditionalAssumption ==
  /\ Contract \notin Users /\ Unset \notin Users
  /\ Offers \subseteq [payer : Users, recipient : Users, amount : Int, conditions : Seq(Condition)]
  /\ Opening \in [Users \cup {Contract} -> Nat]
  /\ Allowances \subseteq Nat

Init == /\ Admin = Unset
        /\ Payment = << >> /\ ApprovalStamp = {}
        /\ wallet = Opening /\ allowance = [u \in Users |-> 0]
        /\ timestamp = 0

Initialize(admin) ==
  /\ Admin = Unset
  /\ Admin' = admin
  /\ UNCHANGED <<Payment, ApprovalStamp, wallet, allowance, timestamp>>

ValidCondition(c) ==
  CASE c.type \in {"TimeAfter", "TimeBefore"} -> c.at # 0
    [] c.type \in {"BalanceAbove", "BalanceBelow"} -> c.threshold > 0
    [] c.type = "MultiSigApproved" -> /\ Len(c.signers) \in 1..MAX_SIGNERS
                                      /\ c.required \in 1..Len(c.signers)

\* The positions of the list are counted, so a repeated signer counts twice.
Approvals(id, c) == Cardinality({i \in DOMAIN c.signers : <<id, c.signers[i]>> \in ApprovalStamp})

Holds(id, c) ==
  CASE c.type = "TimeAfter" -> timestamp >= c.at
    [] c.type = "TimeBefore" -> timestamp < c.at
    [] c.type = "BalanceAbove" -> wallet[c.watch] >= c.threshold
    [] c.type = "BalanceBelow" -> wallet[c.watch] < c.threshold
    [] c.type = "MultiSigApproved" -> Approvals(id, c) >= c.required

\* The contract is the spender: the payer must have allowed it the amount.
CreatePayment(o) ==
  /\ Len(Payment) < MaxPayments
  /\ Admin # Unset
  /\ o.amount > 0
  /\ o.payer # o.recipient
  /\ Len(o.conditions) \in 1..MAX_CONDITIONS
  /\ \A i \in DOMAIN o.conditions : ValidCondition(o.conditions[i])
  /\ wallet[o.payer] >= o.amount /\ allowance[o.payer] >= o.amount
  /\ Payment' = Append(Payment, [payer |-> o.payer, recipient |-> o.recipient,
                                 amount |-> o.amount, conditions |-> o.conditions,
                                 status |-> "Pending", settled_at |-> 0])
  /\ wallet' = [wallet EXCEPT ![o.payer] = @ - o.amount, ![Contract] = @ + o.amount]
  /\ allowance' = [allowance EXCEPT ![o.payer] = @ - o.amount]
  /\ UNCHANGED <<Admin, ApprovalStamp, timestamp>>

MaySign(p, signer) ==
  \E i \in DOMAIN p.conditions :
    /\ p.conditions[i].type = "MultiSigApproved"
    /\ \E k \in DOMAIN p.conditions[i].signers : p.conditions[i].signers[k] = signer

Approve(signer, id) ==
  /\ Admin # Unset
  /\ Payment[id].status = "Pending"
  /\ MaySign(Payment[id], signer)
  /\ <<id, signer>> \notin ApprovalStamp
  /\ ApprovalStamp' = ApprovalStamp \cup {<<id, signer>>}
  /\ UNCHANGED <<Admin, Payment, wallet, allowance, timestamp>>

\* The record is written before the tokens leave.
Settle(id, status, payee) ==
  /\ Payment' = [Payment EXCEPT ![id].status = status, ![id].settled_at = timestamp]
  /\ wallet[Contract] >= Payment[id].amount
  /\ wallet' = [wallet EXCEPT ![Contract] = @ - Payment[id].amount,
                              ![payee] = @ + Payment[id].amount]
  /\ UNCHANGED <<Admin, ApprovalStamp, allowance, timestamp>>

\* Mutant: a payment that was cancelled is still open.
OpenIfNotExecuted(id) == Payment[id].status # "Executed"
Open(id) == Payment[id].status = "Pending"
AllHold(id) == \A i \in DOMAIN Payment[id].conditions : Holds(id, Payment[id].conditions[i])

ExecutePayment(id) ==
  /\ Open(id)
  /\ AllHold(id)
  /\ Settle(id, "Executed", Payment[id].recipient)

CancelPayment(caller, id) ==
  /\ caller = Payment[id].payer
  /\ Open(id)
  /\ Settle(id, "Cancelled", Payment[id].payer)

\* The token, outside the contract: a user lets the contract draw an amount.
SetAllowance(u, amount) ==
  /\ allowance[u] = 0
  /\ allowance' = [allowance EXCEPT ![u] = amount]
  /\ UNCHANGED <<Admin, Payment, ApprovalStamp, wallet, timestamp>>

CloseLedger == /\ timestamp < MaxTime
               /\ timestamp' = timestamp + 1
               /\ UNCHANGED <<Admin, Payment, ApprovalStamp, wallet, allowance>>

Next ==
  \/ \E u \in Users : Initialize(u)
  \/ \E o \in Offers : CreatePayment(o)
  \/ \E u \in Users, id \in PaymentIds : Approve(u, id)
  \/ \E id \in PaymentIds : ExecutePayment(id)
  \/ \E u \in Users, id \in PaymentIds : CancelPayment(u, id)
  \/ \E u \in Users, n \in Allowances : SetAllowance(u, n)
  \/ CloseLedger

Spec == Init /\ [][Next]_vars

------------------------------------------------------------------------------
\* Every reachable state is well formed.
TypeOK ==
  /\ Admin \in Users \cup {Unset}
  /\ Payment \in Seq(PaymentRecord)
  /\ \A id \in PaymentIds : /\ Payment[id].payer # Payment[id].recipient
                             /\ Payment[id].settled_at <= timestamp
  /\ ApprovalStamp \subseteq PaymentIds \X Users
  /\ wallet \in [Users \cup {Contract} -> Nat] /\ allowance \in [Users -> Nat]
  /\ timestamp \in Nat

Signers(c) == {c.signers[k] : k \in DOMAIN c.signers}
Repeats(c) == Len(c.signers) - Cardinality(Signers(c))

\* What the record of an executed payment says it was executed under still
\* holds of the record: it left in its time, and as many different signers as
\* required had approved it, none of whose approvals is lost.  "At least
\* `required` of `signers`" is what the contract's documentation promises; a list
\* that names a signer more than once falls short of it, by no more than the
\* repetitions: one signer named twice meets a quorum of two alone.
SettledAsAgreed ==
  \A id \in PaymentIds : Payment[id].status = "Executed" =>
    \A i \in DOMAIN Payment[id].conditions :
      LET c == Payment[id].conditions[i] IN
      /\ c.type = "TimeAfter" => Payment[id].settled_at >= c.at
      /\ c.type = "TimeBefore" => Payment[id].settled_at < c.at
      /\ c.type = "MultiSigApproved" =>
           \E S \in SUBSET Signers(c) :
             /\ Cardinality(S) >= c.required - Repeats(c)
             /\ \A s \in S : <<id, s>> \in ApprovalStamp

\* A payment is a deal of EscrowLedger, and its status is the deal's outcome.
Deal(p) == [depositor |-> p.payer, recipient |-> p.recipient, amount |-> p.amount]
OutcomeOf(p) == IF p.status = "Pending" THEN "open"
                ELSE IF p.status = "Executed" THEN "paid" ELSE "refunded"
Promise == INSTANCE EscrowLedger WITH
  deals <- [id \in PaymentIds |-> Deal(Payment[id])],
  outcome <- [id \in PaymentIds |-> OutcomeOf(Payment[id])],
  account <- wallet

\* The promise of the escrow contract: the money of a payment is locked until
\* it goes to the recipient or back to the payer, once, in the full amount.
ImplementsEscrow == Promise!Spec
===============================================================================
