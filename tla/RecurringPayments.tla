-------------------------- MODULE RecurringPayments ---------------------------
(***************************************************************************)
(* The recurring payment contract (contracts/recurring-payment): payments  *)
(* that fall due at start, start + interval, ... and are executed or       *)
(* missed when the sender runs them, and income streams that announce      *)
(* their payouts and move no tokens.  A late run skips the instants that   *)
(* have passed.  One token is modelled.                                    *)
(***************************************************************************)
EXTENDS Sequences, Integers

CONSTANTS Users,
          PaymentOffers,    \* [sender, recipient, amount, interval, start] of create_payment
          StreamOffers,     \* [recipient, amount, interval] of create_income_stream
          Opening,          \* token balances at the start
          MaxEach, MaxTime

VARIABLES Payment,          \* Payment(1..PaymentCount)
          IncomeStream,     \* IncomeStream(1..IncomeStreamCount)
          UserIncomeStreams,
          wallet,           \* token balances
          timestamp
vars == <<Payment, IncomeStream, UserIncomeStreams, wallet, timestamp>>

PaymentRecord == [sender : Users, recipient : Users, amount : Nat \ {0},
                  interval : Nat \ {0}, next_execution : Nat,
                  active : BOOLEAN, paused : BOOLEAN,
                  execution_count : Nat, missed_count : Nat, last_missed_at : Nat]
StreamRecord == [recipient : Users, amount : Nat \ {0}, interval : Nat \ {0},
                 next_payout : Nat, active : BOOLEAN]

\* What the proofs assume of the constants: the arguments have their types.
RecurringAssumption ==
  /\ PaymentOffers \subseteq [sender : Users, recipient : Users, amount : Int,
                              interval : Nat, start : Nat]
  /\ StreamOffers \subseteq [recipient : Users, amount : Int, interval : Nat]
  /\ Opening \in [Users -> Nat]

Init == /\ Payment = << >>
        /\ IncomeStream = << >> /\ UserIncomeStreams = [u \in Users |-> << >>]
        /\ wallet = Opening
        /\ timestamp = 0

CreatePayment(o) ==
  /\ Len(Payment) < MaxEach
  /\ o.amount > 0 /\ o.interval > 0
  /\ Payment' = Append(Payment,
       [sender |-> o.sender, recipient |-> o.recipient, amount |-> o.amount,
        interval |-> o.interval, next_execution |-> o.start, active |-> TRUE,
        paused |-> FALSE, execution_count |-> 0, missed_count |-> 0, last_missed_at |-> 0])
  /\ UNCHANGED <<IncomeStream, UserIncomeStreams, wallet, timestamp>>

\* One interval on and, if that has passed already, on to the first instant of
\* the schedule that has not.
\* Mutant: only the instants that have passed are skipped.
AdvancedShort(next, interval) ==
  LET n == next + interval
  IN  IF n <= timestamp THEN n + ((timestamp - n) \div interval) * interval ELSE n
Advanced(next, interval) ==
  LET n == next + interval
  IN  IF n <= timestamp THEN n + ((timestamp - n) \div interval + 1) * interval ELSE n

Due(p) == p.active /\ ~p.paused /\ timestamp >= p.next_execution

\* The sender cannot pay: the instant is missed, and the miss is counted.
MissPayment(i) ==
  LET p == Payment[i] IN
  /\ Due(p)
  /\ wallet[p.sender] < p.amount
  /\ Payment' = [Payment EXCEPT ![i] =
       [p EXCEPT !.missed_count = @ + 1, !.last_missed_at = timestamp,
                 !.next_execution = Advanced(@, p.interval)]]
  /\ UNCHANGED <<IncomeStream, UserIncomeStreams, wallet, timestamp>>

ExecutePayment(i) ==
  LET p == Payment[i] IN
  /\ Due(p)
  /\ wallet[p.sender] >= p.amount
  /\ wallet' = IF p.sender = p.recipient THEN wallet
               ELSE [wallet EXCEPT ![p.sender] = @ - p.amount, ![p.recipient] = @ + p.amount]
  /\ Payment' = [Payment EXCEPT ![i] =
       [p EXCEPT !.missed_count = 0, !.last_missed_at = 0, !.execution_count = @ + 1,
                 !.next_execution = Advanced(@, p.interval)]]
  /\ UNCHANGED <<IncomeStream, UserIncomeStreams, timestamp>>

CancelPayment(i) ==
  /\ Payment[i].active
  /\ Payment' = [Payment EXCEPT ![i].active = FALSE]
  /\ UNCHANGED <<IncomeStream, UserIncomeStreams, wallet, timestamp>>

PausePayment(i) ==
  /\ Payment[i].active /\ ~Payment[i].paused
  /\ Payment' = [Payment EXCEPT ![i].paused = TRUE]
  /\ UNCHANGED <<IncomeStream, UserIncomeStreams, wallet, timestamp>>

ResumePayment(i) ==
  /\ Payment[i].active /\ Payment[i].paused
  /\ Payment' = [Payment EXCEPT ![i].paused = FALSE]
  /\ UNCHANGED <<IncomeStream, UserIncomeStreams, wallet, timestamp>>

------------------------------------------------------------------------------

CreateIncomeStream(o) ==
  /\ Len(IncomeStream) < MaxEach
  /\ o.amount > 0 /\ o.interval > 0
  /\ IncomeStream' = Append(IncomeStream,
       [recipient |-> o.recipient, amount |-> o.amount, interval |-> o.interval,
        active |-> TRUE, next_payout |-> timestamp + o.interval])
  /\ UserIncomeStreams' = [UserIncomeStreams EXCEPT ![o.recipient] =
                             Append(@, Len(IncomeStream) + 1)]
  /\ UNCHANGED <<Payment, wallet, timestamp>>

\* The cycles the payout announced by this run is for.
CyclesDue(s) == 1 + (timestamp - s.next_payout) \div s.interval

ProcessIncome(i) ==
  LET s == IncomeStream[i]
      n == s.next_payout + CyclesDue(s) * s.interval
  IN  /\ s.active
      /\ timestamp >= s.next_payout
      /\ IncomeStream' = [IncomeStream EXCEPT ![i].next_payout =
                            IF n <= timestamp THEN timestamp + s.interval ELSE n]
      /\ UNCHANGED <<Payment, UserIncomeStreams, wallet, timestamp>>

CancelIncomeStream(i) ==
  /\ IncomeStream[i].active
  /\ IncomeStream' = [IncomeStream EXCEPT ![i].active = FALSE]
  /\ UNCHANGED <<Payment, UserIncomeStreams, wallet, timestamp>>

CloseLedger == /\ timestamp < MaxTime
               /\ timestamp' = timestamp + 1
               /\ UNCHANGED <<Payment, IncomeStream, UserIncomeStreams, wallet>>

Next ==
  \/ \E o \in PaymentOffers : CreatePayment(o)
  \/ \E i \in DOMAIN Payment : MissPayment(i) \/ ExecutePayment(i)
  \/ \E i \in DOMAIN Payment : CancelPayment(i) \/ PausePayment(i) \/ ResumePayment(i)
  \/ \E o \in StreamOffers : CreateIncomeStream(o)
  \/ \E i \in DOMAIN IncomeStream : ProcessIncome(i) \/ CancelIncomeStream(i)
  \/ CloseLedger

Spec == Init /\ [][Next]_vars

------------------------------------------------------------------------------
\* Every reachable state is well formed: the list of a user's streams is in
\* step with the streams.
TypeOK ==
  /\ Payment \in Seq(PaymentRecord) /\ IncomeStream \in Seq(StreamRecord)
  /\ UserIncomeStreams \in [Users -> Seq(Nat)]
  /\ \A u \in Users :
       LET ids == UserIncomeStreams[u]
       IN  /\ {ids[k] : k \in DOMAIN ids} = {i \in DOMAIN IncomeStream : IncomeStream[i].recipient = u}
           /\ \A j, k \in DOMAIN ids : j < k => ids[j] < ids[k]
  /\ wallet \in [Users -> Nat]
  /\ timestamp \in Nat

\* from is due, and to is the first instant of from's schedule in the future.
NextInstant(from, to, interval) ==
  /\ from <= timestamp
  /\ timestamp < to /\ to <= timestamp + interval
  /\ (to - from) % interval = 0

\* A payment stays as it is, or is run for the instant that was due, executed or
\* missed, and waits for its next one.
RunsOnce(p, q) ==
  \/ /\ q.next_execution = p.next_execution
     /\ q.execution_count = p.execution_count /\ q.missed_count = p.missed_count
  \/ /\ NextInstant(p.next_execution, q.next_execution, p.interval)
     /\ \/ q.execution_count = p.execution_count + 1 /\ q.missed_count = 0
        \/ q.execution_count = p.execution_count /\ q.missed_count = p.missed_count + 1

\* The amount of p, and nothing else, moves from its sender to its recipient.
Pays(p) ==
  \A u \in Users : wallet'[u] = wallet[u] + (IF u = p.recipient THEN p.amount ELSE 0)
                                          - (IF u = p.sender THEN p.amount ELSE 0)

\* However late a payment or a stream is run and however often it was paused
\* or missed, it stays on the instants it was created with, and each instant is
\* used up by one run, which pays once and is counted or is counted as missed:
\* no run pays, or counts, without moving the schedule to the first instant in
\* the future, and no money moves without such a run.
OneRunPerInstant ==
  [][/\ \A i \in DOMAIN Payment :
          /\ RunsOnce(Payment[i], Payment'[i])
          /\ Payment'[i].execution_count # Payment[i].execution_count => Pays(Payment[i])
     /\ wallet' # wallet =>
          \E i \in DOMAIN Payment :
            Payment'[i].execution_count # Payment[i].execution_count
     /\ \A i \in DOMAIN IncomeStream :
          IncomeStream'[i].next_payout # IncomeStream[i].next_payout =>
            NextInstant(IncomeStream[i].next_payout, IncomeStream'[i].next_payout,
                        IncomeStream[i].interval)]_vars
===============================================================================
