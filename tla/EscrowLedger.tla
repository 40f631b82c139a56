----------------------------- MODULE EscrowLedger -----------------------------
(***************************************************************************)
(* What the escrow contract promises its users, with no admin, no batches, *)
(* no statistics and no clock: a deal is opened by moving the depositor's  *)
(* tokens to the contract, and every open deal is closed at most once,     *)
(* either by paying its recipient or by refunding its depositor, with      *)
(* exactly the amount that was locked.  Escrow.tla is shown to implement   *)
(* this specification when no request vector repeats an escrow id.         *)
(***************************************************************************)
EXTENDS Sums, FiniteSets

CONSTANTS Users,       \* addresses that can sign
          Contract,    \* the address of the escrow contract itself
          Opening      \* the token balance of every account at the start

Accounts == Users \cup {Contract}

VARIABLES deals,       \* the terms of every deal ever opened, by deal number
          outcome,     \* "open", "paid" or "refunded", by deal number
          account      \* token balances
vars == <<deals, outcome, account>>

DealIds == DOMAIN deals
OpenDeals == {d \in DealIds : outcome[d] = "open"}
Amounts == [d \in DealIds |-> deals[d].amount]

Init == /\ deals = << >>
        /\ outcome = << >>
        /\ account = Opening

Append1(f, n, x) == [i \in 1..n |-> IF i = n THEN x ELSE f[i]]

Open(depositor, recipient, amount) ==
  LET d == Cardinality(DealIds) + 1 IN
  /\ amount > 0
  /\ account[depositor] >= amount
  /\ deals' = Append1(deals, d, [depositor |-> depositor,
                                 recipient |-> recipient, amount |-> amount])
  /\ outcome' = Append1(outcome, d, "open")
  /\ account' = [account EXCEPT ![depositor] = @ - amount, ![Contract] = @ + amount]

\* Close the deals of S.  The contract parts with the amounts of S, and every
\* account receives the amounts of the deals of S whose payee it is.
Close(S, result, payee) ==
  LET Received(u) == SumTo(Masked(Amounts, {d \in S : payee[d] = u}), Cardinality(DealIds))
      Paid == SumTo(Masked(Amounts, S), Cardinality(DealIds))
  IN  /\ outcome' = [d \in DealIds |-> IF d \in S THEN result ELSE outcome[d]]
      /\ account' = [u \in Accounts |->
                       account[u] + Received(u) - (IF u = Contract THEN Paid ELSE 0)]
      /\ UNCHANGED deals

Pay(S) == Close(S, "paid", [d \in DealIds |-> deals[d].recipient])
Refund(S) == Close(S, "refunded", [d \in DealIds |-> deals[d].depositor])

Next == \/ \E u \in Users, v \in Accounts : \E a \in 1..account[u] : Open(u, v, a)
        \/ \E S \in SUBSET OpenDeals : Pay(S) \/ Refund(S)

Spec == Init /\ [][Next]_vars
===============================================================================
