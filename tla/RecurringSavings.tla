--------------------------- MODULE RecurringSavings ---------------------------
(***************************************************************************)
(* Automatic contributions to savings (contracts/recurring_savings.rs): a  *)
(* schedule moves an amount from its owner to a goal's account at every    *)
(* interval, when somebody runs it.  A late run does not skip what it      *)
(* missed: it can be repeated until the schedule has caught up.  One token *)
(* is modelled.                                                            *)
(***************************************************************************)
EXTENDS Sequences, Sums

CONSTANTS Users, Unset,
          ScheduleOffers,   \* [owner, goal, amount, interval, max] of create_schedule
          MIN_INTERVAL_SECS,
          Opening,          \* token balances at the start
          Limits,           \* the allowances an owner gives the contract
          MaxEach, MaxTime

VARIABLES Admin,
          Schedule,         \* Schedule(0..NextScheduleId - 1), numbered from 1 here
          wallet, allowance, \* the token: balances, and what the contract may draw
          timestamp
vars == <<Admin, Schedule, wallet, allowance, timestamp>>

Ids == DOMAIN Schedule
RecurringSchedule == [owner : Users, goal : Users, amount : Nat \ {0}, interval : Nat \ {0},
                      next_execution_at : Nat, executions_completed : Nat,
                      max : Nat,   \* 0 means no limit
                      status : {"Active", "Cancelled", "Exhausted"}, created_at : Nat]

\* What the proofs assume of the constants: the arguments have their types, and an interval
\* that is accepted is not empty.
SavingsAssumption ==
  /\ ScheduleOffers \subseteq [owner : Users, goal : Users, amount : Int, interval : Nat,
                               max : Nat]
  /\ MIN_INTERVAL_SECS \in Nat \ {0}
  /\ Opening \in [Users -> Nat] /\ Limits \subseteq Nat

Init == /\ Admin = Unset /\ Schedule = << >>
        /\ wallet = Opening /\ allowance = [u \in Users |-> 0]
        /\ timestamp = 0

Initialize(admin) == /\ Admin = Unset
                     /\ Admin' = admin
                     /\ UNCHANGED <<Schedule, wallet, allowance, timestamp>>

\* The first contribution is due one interval from now.
CreateSchedule(o) ==
  /\ Len(Schedule) < MaxEach
  /\ Admin # Unset
  /\ o.amount > 0 /\ o.interval >= MIN_INTERVAL_SECS
  /\ o.goal # o.owner
  /\ Schedule' = Append(Schedule,
       [owner |-> o.owner, goal |-> o.goal, amount |-> o.amount, interval |-> o.interval,
        next_execution_at |-> timestamp + o.interval, executions_completed |-> 0,
        max |-> o.max, status |-> "Active", created_at |-> timestamp])
  /\ UNCHANGED <<Admin, wallet, allowance, timestamp>>

IsExhausted(s, completed) == s.max > 0 /\ completed >= s.max
NextExecution(s) == s.next_execution_at + s.interval

CanPay(s) == wallet[s.owner] >= s.amount /\ allowance[s.owner] >= s.amount

\* Mutant: not in the instant itself.
DueAfter(s) == timestamp > s.next_execution_at
Due(s) == timestamp >= s.next_execution_at

ExecuteContribution(i) ==
  LET s == Schedule[i]
      completed == s.executions_completed + 1
  IN  /\ s.status = "Active"
      /\ Due(s)
      /\ CanPay(s)
      /\ Schedule' = [Schedule EXCEPT ![i] =
           [s EXCEPT !.executions_completed = completed,
                     !.next_execution_at = NextExecution(s),
                     !.status = IF IsExhausted(s, completed) THEN "Exhausted" ELSE @]]
      /\ wallet' = [wallet EXCEPT ![s.owner] = @ - s.amount, ![s.goal] = @ + s.amount]
      /\ allowance' = [allowance EXCEPT ![s.owner] = @ - s.amount]
      /\ UNCHANGED <<Admin, timestamp>>

CancelSchedule(caller, i) ==
  /\ caller = Schedule[i].owner
  /\ Schedule[i].status = "Active"
  /\ Schedule' = [Schedule EXCEPT ![i].status = "Cancelled"]
  /\ UNCHANGED <<Admin, wallet, allowance, timestamp>>

\* The token, outside the contract: an owner lets the contract draw an amount.
SetAllowance(u, amount) ==
  /\ allowance' = [allowance EXCEPT ![u] = amount]
  /\ UNCHANGED <<Admin, Schedule, wallet, timestamp>>

CloseLedger == /\ timestamp < MaxTime
               /\ timestamp' = timestamp + 1
               /\ UNCHANGED <<Admin, Schedule, wallet, allowance>>

Next ==
  \/ \E u \in Users : Initialize(u)
  \/ \E o \in ScheduleOffers : CreateSchedule(o)
  \/ \E i \in Ids : ExecuteContribution(i)
  \/ \E u \in Users, i \in Ids : CancelSchedule(u, i)
  \/ \E u \in Users, n \in Limits : SetAllowance(u, n)
  \/ CloseLedger

\* "anyone (or an automation bot) calls this when a schedule is due"
\* (recurring_savings.rs:12): what stays due is run.
Automation == \A i \in 1..MaxEach : WF_vars(i \in Ids /\ ExecuteContribution(i))

Spec == Init /\ [][Next]_vars /\ Automation

------------------------------------------------------------------------------
\* Every reachable state is well formed.
TypeOK ==
  /\ Admin \in Users \cup {Unset}
  /\ Schedule \in Seq(RecurringSchedule)
  /\ \A i \in Ids : Schedule[i].owner # Schedule[i].goal
  /\ wallet \in [Users -> Nat] /\ allowance \in [Users -> Nat]
  /\ timestamp \in Nat

Contributed(u) == SumTo([i \in Ids |-> IF Schedule[i].owner = u
                           THEN Schedule[i].amount * Schedule[i].executions_completed ELSE 0],
                        Len(Schedule))
Received(u) == SumTo([i \in Ids |-> IF Schedule[i].goal = u
                        THEN Schedule[i].amount * Schedule[i].executions_completed ELSE 0],
                     Len(Schedule))

\* Nothing is contributed ahead of time or beyond the maximum however late and
\* in whatever order the schedules are run: each is exactly on the cadence it
\* was created with, is exhausted when and only when its maximum is reached,
\* and what has left an owner is what the counts say.
OnCadence ==
  /\ \A i \in Ids :
       LET s == Schedule[i] IN
       /\ s.next_execution_at = s.created_at + (s.executions_completed + 1) * s.interval
       /\ s.created_at + s.executions_completed * s.interval <= timestamp
       /\ s.status = "Exhausted" <=> (s.max > 0 /\ s.executions_completed = s.max)
       /\ s.max > 0 => s.executions_completed <= s.max
  /\ \A u \in Users : wallet[u] = Opening[u] + Received(u) - Contributed(u)

\* Once ledgers stop closing, a schedule that has fallen behind catches up one
\* run at a time, unless its owner cancels it or cannot pay.
Behind(i) == i \in Ids /\ Schedule[i].status = "Active"
             /\ Schedule[i].next_execution_at <= timestamp
CatchesUp ==
  \A i \in 1..MaxEach : []<>(~Behind(i) \/ ~CanPay(Schedule[i]))
===============================================================================
