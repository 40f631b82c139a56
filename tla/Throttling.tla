------------------------------ MODULE Throttling ------------------------------
(***************************************************************************)
(* The throttle (contracts/throttling.rs): a wallet that asks for more     *)
(* transactions in a window than allowed is blocked for a time.  The block *)
(* is recorded twice, in the wallet's own state and in the contract's list *)
(* of throttled wallets, and is lifted lazily, by the next request after   *)
(* its end, or by the administrator.                                       *)
(***************************************************************************)
EXTENDS Sequences, SequencesExt, Integers

CONSTANTS Users, Unset,
          ThrottleConfigs,     \* [max, window, block, cleanup, enabled, exempt]
          MaxChecks, MaxTime

VARIABLES Admin, ThrottleConfig,
          WalletThrottleState, \* wallet -> record, or Unset
          ThrottledWallets,
          Stats,               \* the global statistics
          timestamp
vars == <<Admin, ThrottleConfig, WalletThrottleState, ThrottledWallets, Stats, timestamp>>

ConfigRecord == [max : Nat, window : Nat, block : Nat, cleanup : Nat, enabled : BOOLEAN,
                 exempt : SUBSET Users]
WalletRecord == [count : Nat, window_start : Nat, last : Nat, is_throttled : BOOLEAN,
                 throttle_start : Nat, violations : Nat, total : Nat]
StatsRecord == [checked : Nat, violations : Nat, throttled : Nat, last_cleanup : Nat,
                rate : Nat]

\* What the proofs assume of the constants.
ThrottlingAssumption ==
  /\ Unset \notin Users /\ Unset \notin ConfigRecord
  /\ Unset \notin WalletRecord /\ Unset \notin StatsRecord
  /\ ThrottleConfigs \subseteq ConfigRecord

Init == /\ Admin = Unset /\ ThrottleConfig = Unset
        /\ WalletThrottleState = [u \in Users |-> Unset]
        /\ ThrottledWallets = << >> /\ Stats = Unset
        /\ timestamp = 0

ValidConfig(c) == c.max # 0 /\ c.window # 0 /\ c.block # 0 /\ c.cleanup # 0

Initialize(admin, config) ==
  /\ Admin = Unset
  /\ ValidConfig(config)
  /\ Admin' = admin /\ ThrottleConfig' = config
  /\ ThrottledWallets' = << >>
  /\ Stats' = [checked |-> 0, violations |-> 0, throttled |-> 0,
               last_cleanup |-> timestamp, rate |-> 0]
  /\ UNCHANGED <<WalletThrottleState, timestamp>>

RequireAdmin(caller) == Admin # Unset /\ caller = Admin

Fresh == [count |-> 0, window_start |-> timestamp, last |-> 0, is_throttled |-> FALSE,
          throttle_start |-> 0, violations |-> 0, total |-> 0]
StateOf(u) == IF WalletThrottleState[u] = Unset THEN Fresh ELSE WalletThrottleState[u]

Added(u) == IF Contains(ThrottledWallets, u) THEN ThrottledWallets
            ELSE Append(ThrottledWallets, u)
Removed(u) == FoldLeft(LAMBDA list, v : IF v = u THEN list ELSE Append(list, v), << >>,
                       ThrottledWallets)

\* maybe_cleanup_old_data: all that a cleanup does is note its time.
CleanedUp(stats) ==
  IF timestamp >= stats.last_cleanup + ThrottleConfig.cleanup
  THEN [stats EXCEPT !.last_cleanup = timestamp] ELSE stats

Counted(stats, violation, list) ==
  LET checked == stats.checked + 1
      violations == stats.violations + (IF violation THEN 1 ELSE 0)
  IN  [stats EXCEPT !.checked = checked, !.violations = violations,
                    !.throttled = Len(list), !.rate = (violations * 10000) \div checked]

Checked(u) == ThrottleConfig # Unset /\ ThrottleConfig.enabled /\ u \notin ThrottleConfig.exempt

\* Mutant: a block lasts as long as a window.
BlockedForWindow(s) == s.is_throttled /\ timestamp < s.throttle_start + ThrottleConfig.window
Blocked(s) == s.is_throttled /\ timestamp < s.throttle_start + ThrottleConfig.block

\* The wallet's state once a block that is over is lifted and a window that is
\* over is replaced.
Current(s) ==
  LET lifted == IF s.is_throttled
                THEN [s EXCEPT !.is_throttled = FALSE, !.count = 0,
                               !.window_start = timestamp, !.violations = 0]
                ELSE s
  IN  IF timestamp >= lifted.window_start + ThrottleConfig.window
      THEN [lifted EXCEPT !.count = 0, !.window_start = timestamp] ELSE lifted

\* A request of a blocked wallet: only the cleanup can change anything.
RefuseBlocked(u) ==
  /\ Checked(u)
  /\ Blocked(StateOf(u))
  /\ Stats' = CleanedUp(Stats)
  /\ UNCHANGED <<Admin, ThrottleConfig, WalletThrottleState, ThrottledWallets, timestamp>>

\* A request too many: it is refused and starts a block.
Throttle(u) ==
  LET s == Current(StateOf(u)) IN
  /\ Checked(u)
  /\ ~Blocked(StateOf(u))
  /\ s.count >= ThrottleConfig.max
  /\ Stats.checked < MaxChecks
  /\ WalletThrottleState' = [WalletThrottleState EXCEPT ![u] =
       [s EXCEPT !.is_throttled = TRUE, !.throttle_start = timestamp, !.violations = @ + 1]]
  /\ ThrottledWallets' = Added(u)
  /\ Stats' = Counted(CleanedUp(Stats), TRUE, ThrottledWallets')
  /\ UNCHANGED <<Admin, ThrottleConfig, timestamp>>

Allow(u) ==
  LET s == Current(StateOf(u)) IN
  /\ Checked(u)
  /\ ~Blocked(StateOf(u))
  /\ s.count < ThrottleConfig.max
  /\ Stats.checked < MaxChecks
  /\ WalletThrottleState' = [WalletThrottleState EXCEPT ![u] =
       [s EXCEPT !.count = @ + 1, !.last = timestamp, !.total = @ + 1]]
  /\ ThrottledWallets' = IF StateOf(u).is_throttled THEN Removed(u) ELSE ThrottledWallets
  /\ Stats' = Counted(CleanedUp(Stats), FALSE, ThrottledWallets')
  /\ UNCHANGED <<Admin, ThrottleConfig, timestamp>>

UpdateThrottleConfig(caller, config) ==
  /\ RequireAdmin(caller)
  /\ ValidConfig(config)
  /\ ThrottleConfig' = config
  /\ UNCHANGED <<Admin, WalletThrottleState, ThrottledWallets, Stats, timestamp>>

AddExemptAddress(caller, u) ==
  /\ RequireAdmin(caller)
  /\ ThrottleConfig' = [ThrottleConfig EXCEPT !.exempt = @ \cup {u}]
  /\ UNCHANGED <<Admin, WalletThrottleState, ThrottledWallets, Stats, timestamp>>

RemoveExemptAddress(caller, u) ==
  /\ RequireAdmin(caller)
  /\ ThrottleConfig' = [ThrottleConfig EXCEPT !.exempt = @ \ {u}]
  /\ UNCHANGED <<Admin, WalletThrottleState, ThrottledWallets, Stats, timestamp>>

ForceCleanup(caller) ==
  /\ RequireAdmin(caller)
  /\ Stats' = [Stats EXCEPT !.last_cleanup = timestamp]
  /\ UNCHANGED <<Admin, ThrottleConfig, WalletThrottleState, ThrottledWallets, timestamp>>

ResetWalletThrottleState(caller, u) ==
  /\ RequireAdmin(caller)
  /\ WalletThrottleState' = [WalletThrottleState EXCEPT ![u] = Fresh]
  /\ ThrottledWallets' = Removed(u)
  /\ UNCHANGED <<Admin, ThrottleConfig, Stats, timestamp>>

CloseLedger ==
  /\ timestamp < MaxTime
  /\ timestamp' = timestamp + 1
  /\ UNCHANGED <<Admin, ThrottleConfig, WalletThrottleState, ThrottledWallets, Stats>>

Next ==
  \/ \E u \in Users, c \in ThrottleConfigs : Initialize(u, c) \/ UpdateThrottleConfig(u, c)
  \/ \E u \in Users : RefuseBlocked(u) \/ Throttle(u) \/ Allow(u)
  \/ \E c, u \in Users : AddExemptAddress(c, u) \/ RemoveExemptAddress(c, u)
  \/ \E u \in Users : ForceCleanup(u)
  \/ \E c, u \in Users : ResetWalletThrottleState(c, u)
  \/ CloseLedger

Spec == Init /\ [][Next]_vars

------------------------------------------------------------------------------
\* Every reachable state is well formed.
TypeOK ==
  /\ Admin \in Users \cup {Unset}
  /\ ThrottleConfig = Unset <=> Admin = Unset
  /\ ThrottleConfig # Unset => ThrottleConfig \in ConfigRecord /\ ValidConfig(ThrottleConfig)
  /\ \A u \in Users : WalletThrottleState[u] # Unset => WalletThrottleState[u] \in WalletRecord
  /\ ThrottledWallets \in Seq(Users)
  /\ Stats # Unset => Stats \in StatsRecord
  /\ timestamp \in Nat

\* The two records of a block agree: the list names each wallet whose state is
\* throttled, once, and no other, however blocks, resets, exemptions and new
\* configurations interleave.
ListMatches ==
  /\ \A u \in Users : Contains(ThrottledWallets, u) <=> StateOf(u).is_throttled
  /\ \A i, j \in DOMAIN ThrottledWallets :
       ThrottledWallets[i] = ThrottledWallets[j] => i = j

\* A wallet that is blocked gets nothing through before the end of its block,
\* unless the administrator resets it, exempts it or changes the settings; and
\* in a window no wallet gets more through than some setting allowed.
NothingThroughABlock ==
  [][\A u \in Users :
       StateOf(u)'.total > StateOf(u).total =>
         /\ StateOf(u)'.total = StateOf(u).total + 1
         /\ StateOf(u).is_throttled =>
              timestamp >= StateOf(u).throttle_start + ThrottleConfig.block
         /\ StateOf(u)'.count <= ThrottleConfig.max
         /\ ~StateOf(u)'.is_throttled]_vars
===============================================================================
