------------------------------- MODULE Refunds --------------------------------
(***************************************************************************)
(* The refunds contract (contracts/refunds.rs).  A refund of a transaction *)
(* is requested, approved at once or by the administrator, and paid to the *)
(* requester's balance by anyone's call within a window of time.  A call   *)
(* is atomic: a late payment panics, so its Expired mark is never kept.    *)
(* The eligibility check compares the present time with itself plus the    *)
(* window (the time of the transaction is not known), so it always passes. *)
(***************************************************************************)
EXTENDS Sequences, Sums

CONSTANTS Users, Unset,
          RefundTransactions,  \* transaction ids that are quoted
          RefundAmounts, ReasonLengths,
          RefundConfigs,       \* set_config arguments
          DefaultConfig,       \* the configuration initialize stores
          I128_MAX, MaxRefunds, MaxTime

VARIABLES Admin, Config,
          RefundRequest,       \* RefundRequest(1..NextRefundId - 1)
          ProcessedRefund,     \* the ids with a ProcessedRefund key
          Balance, timestamp
vars == <<Admin, Config, RefundRequest, ProcessedRefund, Balance, timestamp>>

Configuration == [refund_window : Nat, auto_approve : Int, admin_required : Int,
                  max_reason : Nat, enabled : BOOLEAN]
Request == [transaction : RefundTransactions, requester : Users, amount : Nat \ {0},
            status : {"Pending", "Approved", "Rejected", "Processed"},
            created_at : Nat, processed_at : Nat \cup {Unset},
            processed_by : Users \cup {Unset}]
RefundIds == DOMAIN RefundRequest

\* What the proofs assume of the constants: the arguments have their types, and nobody and no
\* configuration is the value that stands for an absent one.
RefundsAssumption ==
  /\ Unset \notin Users /\ Unset \notin Configuration
  /\ DefaultConfig \in Configuration /\ RefundConfigs \subseteq Configuration
  /\ RefundAmounts \subseteq Int
  /\ I128_MAX \in Nat

Init == /\ Admin = Unset /\ Config = Unset
        /\ RefundRequest = << >> /\ ProcessedRefund = {}
        /\ Balance = [u \in Users |-> 0]
        /\ timestamp = 0

Initialize(admin) ==
  /\ Admin = Unset
  /\ Admin' = admin /\ Config' = DefaultConfig
  /\ UNCHANGED <<RefundRequest, ProcessedRefund, Balance, timestamp>>

RequireAdmin(caller) == Admin # Unset /\ caller = Admin

SetConfig(caller, config) ==
  /\ RequireAdmin(caller)
  /\ Config' = config
  /\ UNCHANGED <<Admin, RefundRequest, ProcessedRefund, Balance, timestamp>>

HasRefundForTransaction(t) ==
  \E i \in RefundIds : /\ RefundRequest[i].transaction = t
                       /\ RefundRequest[i].status = "Processed"

\* A large refund waits for the administrator, unless the automatic threshold
\* was set above it.
FirstStatus(amount) ==
  IF amount > Config.auto_approve /\ amount > Config.admin_required
  THEN "Pending" ELSE "Approved"

RequestRefund(caller, t, amount, length) ==
  /\ Len(RefundRequest) < MaxRefunds
  /\ Config # Unset
  /\ Config.enabled
  /\ amount > 0
  /\ length <= Config.max_reason
  /\ ~HasRefundForTransaction(t)
  /\ RefundRequest' = Append(RefundRequest,
       [transaction |-> t, requester |-> caller, amount |-> amount,
        status |-> FirstStatus(amount), created_at |-> timestamp,
        processed_at |-> Unset, processed_by |-> Unset])
  /\ UNCHANGED <<Admin, Config, ProcessedRefund, Balance, timestamp>>

\* Mutant: the status is forgotten.
MarkedOnly(i, status, caller) ==
  [RefundRequest EXCEPT ![i].processed_at = timestamp, ![i].processed_by = caller]
Marked(i, status, caller) ==
  [RefundRequest EXCEPT ![i].status = status, ![i].processed_at = timestamp,
                        ![i].processed_by = caller]

ApproveRefund(caller, i) ==
  /\ RequireAdmin(caller)
  /\ RefundRequest[i].status = "Pending"
  /\ RefundRequest' = Marked(i, "Approved", caller)
  /\ UNCHANGED <<Admin, Config, ProcessedRefund, Balance, timestamp>>

RejectRefund(caller, i) ==
  /\ RequireAdmin(caller)
  /\ RefundRequest[i].status = "Pending"
  /\ RefundRequest' = Marked(i, "Rejected", caller)
  /\ UNCHANGED <<Admin, Config, ProcessedRefund, Balance, timestamp>>

Credited(u, amount) == [Balance EXCEPT ![u] = Balance[u] + amount]

ProcessRefund(caller, i) ==
  LET r == RefundRequest[i] IN
  /\ r.status = "Approved"
  /\ i \notin ProcessedRefund
  /\ timestamp <= r.created_at + Config.refund_window
  /\ Balance[r.requester] + r.amount <= I128_MAX
  /\ Balance' = Credited(r.requester, r.amount)
  /\ RefundRequest' = Marked(i, "Processed", caller)
  /\ ProcessedRefund' = ProcessedRefund \cup {i}
  /\ UNCHANGED <<Admin, Config, timestamp>>

CloseLedger == /\ timestamp < MaxTime
               /\ timestamp' = timestamp + 1
               /\ UNCHANGED <<Admin, Config, RefundRequest, ProcessedRefund, Balance>>

Next ==
  \/ \E u \in Users : Initialize(u)
  \/ \E u \in Users, c \in RefundConfigs : SetConfig(u, c)
  \/ \E u \in Users, t \in RefundTransactions, a \in RefundAmounts, n \in ReasonLengths :
       RequestRefund(u, t, a, n)
  \/ \E u \in Users, i \in RefundIds : ApproveRefund(u, i)
  \/ \E u \in Users, i \in RefundIds : RejectRefund(u, i)
  \/ \E u \in Users, i \in RefundIds : ProcessRefund(u, i)
  \/ CloseLedger

Spec == Init /\ [][Next]_vars

------------------------------------------------------------------------------
\* Every reachable state is well formed.
TypeOK ==
  /\ Admin \in Users \cup {Unset}
  /\ Config = Unset <=> Admin = Unset
  /\ Config # Unset => Config \in Configuration
  /\ RefundRequest \in Seq(Request)
  /\ ProcessedRefund = {i \in RefundIds : RefundRequest[i].status = "Processed"}
  /\ Balance \in [Users -> 0..I128_MAX]
  /\ timestamp \in Nat

\* A user has been credited exactly the refunds of the user's requests that
\* were processed, each once, whoever processed them and in whatever order.
CreditsMatch ==
  \A u \in Users :
    Balance[u] = SumTo([i \in RefundIds |->
                          IF RefundRequest[i].requester = u
                             /\ RefundRequest[i].status = "Processed"
                          THEN RefundRequest[i].amount ELSE 0], Len(RefundRequest))
===============================================================================
