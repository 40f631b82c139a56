------------------------------ MODULE Allowances ------------------------------
(***************************************************************************)
(* The allowances contract (contracts/allowances): an owner grants a       *)
(* recipient an amount once or per interval; anybody may have the due      *)
(* instalment paid out of the owner's tokens.  Amounts above a threshold   *)
(* wait for an approver.  A merge in the source interleaved the bodies of  *)
(* approve_allowance, set_spending_limit and set_expiration; each is       *)
(* modelled from its header, its doc comment and its own statements.  The  *)
(* token allowance of the contract is taken as large enough.               *)
(***************************************************************************)
EXTENDS Sequences, Integers

CONSTANTS Users, Unset,
          Grants,            \* [owner, recipient, amount, interval, start]; interval 0 is Once
          Thresholds,        \* thresholds tried by set_approval_config
          Limits, EndDates,  \* values tried by set_spending_limit and set_expiration
          Opening,           \* token balances at the start
          MaxAllowances, MaxListed, MaxTime

VARIABLES Allowance,         \* Allowance(1..AllowanceCount)
          OwnerAllowances, RecipientAllowances,
          AllowanceHistory,
          Approver, ApprovalThreshold,
          wallet,            \* token balances
          timestamp
vars == <<Allowance, OwnerAllowances, RecipientAllowances, AllowanceHistory, Approver,
          ApprovalThreshold, wallet, timestamp>>
indexes == <<OwnerAllowances, RecipientAllowances>>
approval == <<Approver, ApprovalThreshold>>

Record == [owner : Users, recipient : Users, amount : Nat \ {0}, interval : Nat,
           next_distribution : Nat, distribution_count : Nat, active : BOOLEAN,
           paused : BOOLEAN, pending_approval : BOOLEAN, spending_limit : Nat, end_date : Nat]

\* What the proofs assume of the constants: the arguments have their types, and nobody and no
\* amount is the value that stands for an absent one.
AllowancesAssumption ==
  /\ Unset \notin Users /\ Unset \notin Int
  /\ Grants \subseteq [owner : Users, recipient : Users, amount : Int, interval : Nat, start : Nat]
  /\ Thresholds \subseteq Int /\ Limits \subseteq Int /\ EndDates \subseteq Nat
  /\ Opening \in [Users -> Nat]

Init == /\ Allowance = << >> /\ AllowanceHistory = << >>
        /\ OwnerAllowances = [u \in Users |-> << >>]
        /\ RecipientAllowances = [u \in Users |-> << >>]
        /\ Approver = Unset /\ ApprovalThreshold = Unset
        /\ wallet = Opening
        /\ timestamp = 0

NeedsApproval(amount) == ApprovalThreshold # Unset /\ amount > ApprovalThreshold

CreateAllowance(g) ==
  LET i == Len(Allowance) + 1
  IN  /\ i <= MaxAllowances
      /\ g.amount > 0
      /\ Allowance' = Append(Allowance,
           [owner |-> g.owner, recipient |-> g.recipient, amount |-> g.amount,
            interval |-> g.interval, next_distribution |-> g.start,
            distribution_count |-> 0, active |-> ~NeedsApproval(g.amount), paused |-> FALSE,
            pending_approval |-> NeedsApproval(g.amount), spending_limit |-> 0, end_date |-> 0])
      /\ AllowanceHistory' = Append(AllowanceHistory, << >>)
      /\ OwnerAllowances' = [OwnerAllowances EXCEPT ![g.owner] = Append(@, i)]
      /\ RecipientAllowances' = [RecipientAllowances EXCEPT ![g.recipient] = Append(@, i)]
      /\ UNCHANGED <<approval, wallet, timestamp>>

\* The allowance after a distribution: a one-off is used up, a recurring one
\* moves to its first instant in the future.
\* Mutant: a late distribution moves one interval on only.
DistributedOnce(a) ==
  IF a.interval = 0
  THEN [a EXCEPT !.distribution_count = @ + 1, !.active = FALSE, !.next_distribution = 0]
  ELSE [a EXCEPT !.distribution_count = @ + 1, !.next_distribution = @ + a.interval]
Distributed(a) ==
  LET next == a.next_distribution + a.interval
  IN  IF a.interval = 0
      THEN [a EXCEPT !.distribution_count = @ + 1, !.active = FALSE, !.next_distribution = 0]
      ELSE [a EXCEPT !.distribution_count = @ + 1,
                     !.next_distribution =
                       IF next > timestamp THEN next
                       ELSE next + ((timestamp - next) \div a.interval + 1) * a.interval]

Distribute(i) ==
  LET a == Allowance[i]
  IN  /\ ~a.pending_approval /\ a.active /\ ~a.paused
      /\ a.end_date # 0 => timestamp < a.end_date
      /\ timestamp >= a.next_distribution
      /\ a.spending_limit > 0 => a.amount * (a.distribution_count + 1) <= a.spending_limit
      /\ wallet[a.owner] >= a.amount
      /\ wallet' = IF a.owner = a.recipient THEN wallet
                   ELSE [wallet EXCEPT ![a.owner] = @ - a.amount, ![a.recipient] = @ + a.amount]
      /\ AllowanceHistory' = [AllowanceHistory EXCEPT ![i] =
           Append(@, [amount |-> a.amount, timestamp |-> timestamp, recipient |-> a.recipient])]
      /\ Allowance' = [Allowance EXCEPT ![i] = Distributed(a)]
      /\ UNCHANGED <<indexes, approval, timestamp>>

\* The owner's changes of an active allowance.
Change(i, a) == /\ Allowance[i].active
                /\ Allowance' = [Allowance EXCEPT ![i] = a]
                /\ UNCHANGED <<AllowanceHistory, approval, wallet, timestamp>>

PauseAllowance(i) == /\ ~Allowance[i].paused
                     /\ Change(i, [Allowance[i] EXCEPT !.paused = TRUE])
                     /\ UNCHANGED indexes
ResumeAllowance(i) == /\ Allowance[i].paused
                      /\ Change(i, [Allowance[i] EXCEPT !.paused = FALSE])
                      /\ UNCHANGED indexes
CancelAllowance(i) == /\ Change(i, [Allowance[i] EXCEPT !.active = FALSE])
                      /\ UNCHANGED indexes
SetSpendingLimit(i, limit) == /\ limit >= 0
                              /\ Change(i, [Allowance[i] EXCEPT !.spending_limit = limit])
                              /\ UNCHANGED indexes
SetExpiration(i, end) == /\ end # 0 => end > timestamp
                         /\ Change(i, [Allowance[i] EXCEPT !.end_date = end])
                         /\ UNCHANGED indexes

\* The old recipient's list keeps the allowance.
UpdateBeneficiary(i, u) ==
  /\ Len(RecipientAllowances[u]) < MaxListed
  /\ Change(i, [Allowance[i] EXCEPT !.recipient = u])
  /\ RecipientAllowances' = [RecipientAllowances EXCEPT ![u] = Append(@, i)]
  /\ UNCHANGED OwnerAllowances

\* The ids of a list but one, in their order.
Without(list, i) ==
  LET kept[k \in 0..Len(list)] ==
        IF k = 0 THEN << >>
        ELSE IF list[k] = i THEN kept[k - 1] ELSE Append(kept[k - 1], list[k])
  IN  kept[Len(list)]
Reowned(i, u) ==
  LET left == [OwnerAllowances EXCEPT ![Allowance[i].owner] = Without(@, i)]
  IN  [left EXCEPT ![u] = Append(@, i)]
TransferOwnership(i, u) ==
  /\ Change(i, [Allowance[i] EXCEPT !.owner = u])
  /\ OwnerAllowances' = Reowned(i, u)
  /\ UNCHANGED RecipientAllowances

\* The present approver hands over, the first one appoints itself.
SetApprovalConfig(caller, approver, threshold) ==
  /\ threshold > 0
  /\ caller = IF Approver = Unset THEN approver ELSE Approver
  /\ Approver' = approver /\ ApprovalThreshold' = threshold
  /\ UNCHANGED <<Allowance, indexes, AllowanceHistory, wallet, timestamp>>

ApproveAllowance(i, caller) ==
  /\ Approver # Unset /\ caller = Approver
  /\ Allowance[i].pending_approval
  /\ Allowance' = [Allowance EXCEPT ![i].pending_approval = FALSE, ![i].active = TRUE]
  /\ UNCHANGED <<indexes, AllowanceHistory, approval, wallet, timestamp>>

CloseLedger == /\ timestamp < MaxTime /\ timestamp' = timestamp + 1
               /\ UNCHANGED <<Allowance, indexes, AllowanceHistory, approval, wallet>>

Next ==
  \/ \E g \in Grants : CreateAllowance(g)
  \/ \E i \in DOMAIN Allowance :
       \/ Distribute(i) \/ PauseAllowance(i) \/ ResumeAllowance(i) \/ CancelAllowance(i)
       \/ \E limit \in Limits : SetSpendingLimit(i, limit)
       \/ \E end \in EndDates : SetExpiration(i, end)
       \/ \E u \in Users : UpdateBeneficiary(i, u) \/ TransferOwnership(i, u)
                           \/ ApproveAllowance(i, u)
  \/ \E u, v \in Users, t \in Thresholds : SetApprovalConfig(u, v, t)
  \/ CloseLedger

Spec == Init /\ [][Next]_vars

------------------------------------------------------------------------------
Listed(list) == {list[k] : k \in DOMAIN list}

\* Every reachable state is well formed: one that waits for approval is not
\* active, and only a threshold makes one wait.
TypeOK ==
  /\ Allowance \in Seq(Record) /\ DOMAIN AllowanceHistory = DOMAIN Allowance
  /\ \A i \in DOMAIN Allowance :
       Allowance[i].pending_approval => ~Allowance[i].active /\ Approver # Unset
  /\ wallet \in [Users -> Nat] /\ timestamp \in Nat

\* An owner's list holds each of its allowances once and no other, through any
\* transfers; a recipient's holds all that pay it now or ever have.
ListsAgree ==
  \A u \in Users :
    /\ Listed(OwnerAllowances[u]) = {i \in DOMAIN Allowance : Allowance[i].owner = u}
    /\ \A j, k \in DOMAIN OwnerAllowances[u] :
         OwnerAllowances[u][j] = OwnerAllowances[u][k] => j = k
    /\ \A i \in DOMAIN Allowance :
         \/ Allowance[i].recipient = u
         \/ \E k \in DOMAIN AllowanceHistory[i] : AllowanceHistory[i][k].recipient = u
         => i \in Listed(RecipientAllowances[u])

\* The instants of a recurring allowance divide time; a payment settles one.
SlotOf(a, t) == (t - a.next_distribution) \div a.interval

\* However late or often distribute is called and whoever the allowance is
\* turned over to, no instant is paid twice, a one-off is paid once, and the
\* count that the spending limit is measured by is the number of payments.
PaidOncePerSlot ==
  \A i \in DOMAIN Allowance :
    LET a == Allowance[i]
        paid == AllowanceHistory[i]
    IN  /\ Len(paid) = a.distribution_count
        /\ IF a.interval = 0 THEN Len(paid) <= 1
           ELSE \A j, k \in DOMAIN paid :
                  j < k => SlotOf(a, paid[j].timestamp) < SlotOf(a, paid[k].timestamp)
==============================================================================
