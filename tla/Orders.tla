-------------------------------- MODULE Orders --------------------------------
(***************************************************************************)
(* What the transactions contract promises about payments, with no         *)
(* approvals, no clock and no roles: an order is placed with a payer, a    *)
(* payee and an amount, and is closed at most once, by moving exactly that *)
(* amount or by being dropped.  Only payments below a ceiling are moved    *)
(* without an order.  Apart from that, a balance is only set by a grant.   *)
(***************************************************************************)
EXTENDS Integers

CONSTANTS Users, Amounts,
          Names,        \* what orders are known by
          Limit         \* the largest balance an account can hold

VARIABLES order,        \* name -> [from, to, amount], for the orders placed
          outcome,      \* name -> "open", "moved" or "dropped"
          account,      \* user -> balance
          ceiling       \* payments below it need no order
vars == <<order, outcome, account, ceiling>>

Placed == DOMAIN order
Order == [from : Users, to : Users, amount : Amounts]

Init == /\ order = [n \in {} |-> "none"] /\ outcome = [n \in {} |-> "none"]
        /\ account = [u \in Users |-> 0] /\ ceiling = Limit

Moves(o) == /\ o.from # o.to
            /\ account[o.from] >= o.amount
            /\ account[o.to] + o.amount <= Limit
            /\ account' = [account EXCEPT ![o.from] = @ - o.amount, ![o.to] = @ + o.amount]

PayAtOnce(o) == o.amount < ceiling /\ Moves(o) /\ UNCHANGED <<order, outcome, ceiling>>

Place(n, o) ==
  /\ n \notin Placed
  /\ order' = [m \in Placed \cup {n} |-> IF m = n THEN o ELSE order[m]]
  /\ outcome' = [m \in Placed \cup {n} |-> IF m = n THEN "open" ELSE outcome[m]]
  /\ UNCHANGED <<account, ceiling>>

Move(n) == /\ outcome[n] = "open"
           /\ Moves(order[n])
           /\ outcome' = [outcome EXCEPT ![n] = "moved"]
           /\ UNCHANGED <<order, ceiling>>

Drop(n) == /\ outcome[n] = "open"
           /\ outcome' = [outcome EXCEPT ![n] = "dropped"]
           /\ UNCHANGED <<order, account, ceiling>>

Grant(u, amount) == /\ account' = [account EXCEPT ![u] = amount]
                    /\ UNCHANGED <<order, outcome, ceiling>>

SetCeiling(amount) == ceiling' = amount /\ UNCHANGED <<order, outcome, account>>

Next == \/ \E o \in Order : PayAtOnce(o) \/ \E n \in Names : Place(n, o)
        \/ \E n \in Placed : Move(n) \/ Drop(n)
        \/ \E u \in Users : \E a \in 0..Limit : Grant(u, a)
        \/ \E a \in 0..Limit : SetCeiling(a)

Spec == Init /\ [][Next]_vars
===============================================================================
