# A TLA+ verification of the StellarSpend contracts

StellarSpend is a collection of Soroban (Stellar) smart contracts in Rust: escrows, savings
goals, shared budgets, payments that need approvals or wait for a date, fees, allowances, on-chain
governance, and many smaller ones. This directory holds TLA+ models of these contracts, the TLC
configurations that check them on small instances, and TLAPS proofs of theorems that hold for all
instances.

How to run it, from this directory:

    tlc -workers 2 -config Escrow.cfg MCEscrow      # any run of the table below
    tlapm TransactionsProofs.tla                    # any module of the proof section

## The execution model

Every entry point of a contract is one call of one transaction, and the ledger executes calls one
after the other. So each entry point is one action, atomic as a whole:

* the guard of the action is the conjunction of everything that must *not* panic, in whatever
  order the code tests it. A panic undoes every write of the call, so a call that panics is no
  step. This matters where code writes first and panics later: the last approval of a payment that
  cannot be paid (`transactions.rs:163`) is not recorded at all, the `is_active = false` that
  `contribute_to_goal` writes for an expired goal (`savings-goals/src/lib.rs:558`) is undone by the
  panic that follows it, and so is the Expired mark of a late refund.
* `caller.require_auth()` is modelled by the caller being a member of `Users`: anybody may call,
  in their own name only. The contract's own address is an account but never a caller.
* concurrency is the interleaving of calls of different users, administrators included, with each
  other and with the passing of time. *Inside* a call, a batch reads all its records in a first
  pass and writes in a second, or reads a balance once and counts it down; that is modelled as the
  snapshot it is.
* time (`env.ledger().timestamp()`, `sequence()`) advances by an action of its own (`CloseLedger`,
  `Tick`), the only action that no user calls. It is marked external in the map, as is the token
  contract, which the models represent by a function from accounts to balances.
* where a batch calls `try_transfer`, a refused transfer fails alone; where it calls `transfer`, it
  ends the whole call.

**Fairness.** Almost nothing is bound to happen: every step is a call some user chooses to make or
not to make. The one exception is stated in the source: a due savings schedule is run by "anyone
(or an automation bot)" (`recurring_savings.rs:12`). `RecurringSavings!Automation` is weak fairness
of `ExecuteContribution(i)` for each schedule `i`: while a schedule stays due and payable, somebody
runs it. Under it `CatchesUp` holds: once time stops (the model's clock is bounded), a schedule that is
Active and behind does not stay so unless its owner cannot pay. Elsewhere progress is said as possibility: `AlwaysReleasable` states that the
call that would release an escrow is enabled, and `AlwaysApprovable` that enough accounts are left
to approve a waiting upgrade. For the same reason every configuration has `CHECK_DEADLOCK FALSE`:
at the bounds of a model (all ids used, clock at its maximum, everything settled) no call succeeds
any more, and a contract that nobody can usefully call is a legal state.

## Inventory

| Component | Source (`src/contracts/`) | State | What makes it correct | Module |
|---|---|---|---|---|
| escrow | `escrow/src` | one record per escrow, index per depositor, totals of batches; tokens held | every open escrow can be paid, once | `Escrow` |
| savings goals | `savings-goals/src` | goals, names, contributions and tokens used, milestones, certificates, prerequisites | five stored facts about one balance agree; a retried contribution counts once | `SavingsGoals` |
| shared budgets | `shared-budgets/src` | budgets, member keys, contributions, archive, retention; tokens held | budgets are backed; the archive stays what was archived | `SharedBudgets` |
| governance | `governance.rs` | proposals, votes, configuration | every value in force has a mandate | `Governance` |
| transactions | `transactions.rs`, `multisig.rs`, `timelock.rs` | pending payments and approvals, scheduled payments, balances, block lists | large amounts need consent | `Transactions` |
| conditional payments | `conditional_payment.rs` | payments, approvals, tokens held | paid or refunded once, under its conditions | `ConditionalPayments` |
| refunds | `refunds.rs` | requests, decisions, balances | credited once per transaction, after approval | `Refunds` |
| recurring payments, savings | `recurring-payment`, `recurring_savings.rs` | schedules and the instant each is due | one run per instant; a late one catches up | `RecurringPayments`, `RecurringSavings` |
| savings withdrawals | `multisig_savings_withdrawal.rs`, `multisig_savings_integration.rs` | requests, approvals, counts | executed with a quorum | `SavingsWithdrawals` |
| allowances | `allowances/src` | grants and two lists of them | one instalment per interval; lists agree | `Allowances` |
| fee | `fee/src` | pending fees per cycle, totals, settings and lock; tokens held | every cycle stays payable; a lock holds | `FeeEscrow` |
| spending limits, throttling | `spending-limits/src`, `throttling.rs` | spending per window; blocks and their list | windows nest; nothing passes a block | `SpendingLimits`, `Throttling` |
| token | `token.rs` | balances, allowances, supply, caps | supply follows balances | `Token` |
| stellarspend-fee, fees.rs | `stellarspend-fee`, `fees.rs`, `treasury` | the same fees in several books | the books agree | `StellarFee`, `Fees` |
| budget | `budget/src` | budgets, limits, suspension, deletion, beneficiaries | distribution creates nothing | `Budget` |
| wallets, delegation | `wallet.rs`, `wallet_linking.rs`, `wallet-profile`, `delegation.rs` | links in both directions, challenges, delegated limits | directions agree; a delegate stays within the limit | `Wallets` |
| categories, overdraft, rate limit | `spending-categories`, `overdraft.rs`, `rate_limit.rs` | categories and their names, category budgets, counts per window | names agree; counts within limits | `SpendingRecords` |
| status, preferences | `account_status.rs`, `preference.rs` | freezes, muted events | a freeze stands until lifted or expired | `AccountStatus` |
| registers | `transactions/src`, `users`, `audit`, `history.rs`, `archive.rs`, `snapshots.rs`, `contracts/transactional` | records and their indexes, archived copies, one snapshot per period | indexes agree with records; logs and archives stand | `Registers` |
| batches | `batch-transfer`, `batch-transfer-pausable`, `batch-rewards`, `batch-token-mint`, `batch-conversion`, `batch-wallet-creation`, `batch.rs`, `budget-allocation`, `multi-currency-wallet`, `cross-contract` | counters, totals, balances, wallets, allocations | counters and totals agree with what a partly failing batch did | `Batches` |
| analytics | `transaction-analytics` | metrics, statuses, refunds, bundles, months, fee configurations | totals agree; a refund is counted once | `Analytics` |
| upgrade | `contract-upgrade` | code, version, signers, a pending upgrade | code changes only by an approved upgrade | `Upgrade` |
| roles, pause | `access-control`, `pausable` | roles and their count | the administrator keeps the role | `AccountStatus` |
| merchants, rewards | `merchant-tagging`, `rewards/src`, `rewards.rs` | merchants, tags, points twice | points agree; a milestone pays once | `Loyalty` |
| monitors | `category-analytics`, `compliance.rs`, `fraud.rs` | monthly totals, flags, daily totals | months add up; flags agree | `Loyalty` |

**How components interact.** The crates do not call one another: each contract has its own storage.
What connects them is the token contract (contracts that hold tokens move them under one address
per contract) and direct calls between files of one contract: `transactions.rs` calls `multisig.rs`
and `timelock.rs` over one table of balances, which `Transactions` composes in one module because
every one of the three paths of a payment touches the balances; `fees.rs` credits the treasury,
composed in `Fees`; `multisig_savings_integration.rs` exposes the functions of
`multisig_savings_withdrawal.rs`; and the two crates of `contract-upgrade` follow one another over
the same storage, so that `Upgrade` has the code that runs as a variable.

**What is hard here.** There is no shared-memory concurrency and nothing is retried by the contract
itself. The hard part is protocols of many calls, by several actors:

* pooled funds: one token balance backs all escrows (budgets, payments, billing cycles), so a
  booking mistake shows only when somebody else can no longer be paid;
* batches that skip invalid requests and act on a snapshot, so that statuses, totals and payments
  can part ways;
* one fact stored in several places (a count and a set of keys; a balance, two flags, a milestone
  set, a closing time and a certificate; a record, its index and its archived copy);
* roles, quorums and settings that change between the first and the last step of an operation;
* retries by clients (idempotency tokens, duplicate votes and approvals), late runs of schedules;
* deadlines, windows, retention periods and expiry;
* casts and rounding.

The entries of `hazards` in `PROJECT.json` place these in the code, with the properties that
cover each.

## The modules

Names are the source's names. Storage keys become variables: a key with an argument becomes a
function whose domain is the set of keys stored, or, for keys that only exist or do not
(`UserVote`, `Approval`, `BudgetMember`, `BlacklistedDestination`), the set of them. Fields that are
stored and never read again are left out.

**`Sums`, `SumTheorems`.** Totals `f[1] + ... + f[n]` as a recursive function, and the lemmas about
them (splitting, changing one entry, monotonicity). `SumTheorems` first shows that induction over
the naturals is available for a *set* of numbers (`NatSetInduction`), so that the proofs do not
need the library's induction theorems, which take an operator, and from it induction over the
subsets of a finite set (`SubsetInduction`). On these rest the lemmas about the folds of the
community modules with `+`: what they compute (`TotalOfSubsets`, `TotalTake`, `TotalInAnyOrder`),
how it changes with one value, a scale or a bound, sums sorted by key (`TotalByKey`,
`TotalAddedByKey`), over a part (`TotalSplit`, `TotalOfPart`) and of a number that is handed out
(`TotalHandedOut`); folds of sequences from the left (`LeftFoldSteps`); and the arithmetic of
rounding down (`NestedDivision`, `DivMonotone`, `SharesOfAll`).

**`EscrowLedger`** (abstract), **`Escrow`, `ConditionalPayments`.** `EscrowLedger` has deals, each
opened by locking tokens and closed at most once by paying or refunding the whole amount; it knows
no admin, no clock, no conditions, no batches. In `Escrow`, `DataKey::Escrow(id)` is `escrow[id]`,
the token contract is `wallet`, and the six entry points are the six actions. A batch is validated
in one pass and paid in a second, from the records read in the first (`PayBatch`, `Settled`,
`Counted`). `ConditionalPayments` implements the same ledger: there anyone executes a payment while
its conditions hold, and a condition that reads a balance changes with every other payment.

**`SavingsGoals`.** One action per entry point. `check_and_emit_milestones`, which the code calls at
the end of every operation that raises a balance, is `CheckMilestones`, applied inside those
actions: it marks milestones, closes a filled goal and issues its certificate. The balance is an
integer that may become negative, and the percentage is reduced modulo `U32` as the cast does
(`Percent`). A creation batch accepts a request relative to the goals accepted before it in the
same batch (`Accepted`).

**`SharedBudgets`.** One action per entry point. Budgets hold tokens of different kinds in the
contract's account. `Threshold` computes a percentage as the code does, in floating point with
truncation: `F64Below` lists the pairs for which the f64 product is just below the whole number.
The sweep (`Swept`) walks ids upwards and stops at its limit.

**`Mandates`** (abstract) and **`Governance`.** `Mandates` has motions, supporters, and a
configuration that only changes by enacting a motion with a quorum. In `Governance` the approvals
of a proposal are a counter, votes are separate keys, and there is a deadline. There is no check
of the proposer or the executor: anybody may do both.

**`Orders`** (abstract) and **`Transactions`.** `Orders` has placed orders, each moved or dropped at
most once, and lets only payments below a ceiling move without an order. In `Transactions`, one
`submit_transaction` is two actions, `SubmitLowValue` and `SubmitHighValue`, after the comparison
that separates them. `CanTransfer` and `Transferred` are `execute_transfer`: both balances are read
before either is written. An approval that completes a payment moves the money in the same step.

**`Refunds`, `RecurringPayments`, `RecurringSavings`, `SavingsWithdrawals`, `Allowances`,
`FeeEscrow`** are the other contracts that pay on a condition, on a schedule or on approval; `MCPayments`
instantiates them, with constants of its own, and gives those their values at its end. A recurring payment that is run late skips the instants it missed
(`Advanced`), a savings schedule does not: it is due again at once, until it has caught up. In
`allowances/src/lib.rs` a merge interleaved the bodies of `approve_allowance`, `set_spending_limit`
and `set_expiration`, so that the file does not compile; each is modelled from its header, its doc
comment and its own statements. `FeeEscrow` keeps what was collected per billing cycle
(`PendingFees`) and in three running totals, and moves tokens on collection and release.

**`SpendingLimits`, `Throttling`, `Token`, `StellarFee`, `Fees`, `Budget`, `Wallets`,
`SpendingRecords`** keep limits, fees, allocations and permissions; `MCControls` instantiates them, with constants of its own, and gives those their values
at its end. Windows of time are numbered as the code numbers them,
which differs at time 0. Fee rounding is the code's: every division truncates by itself. From
`budget/src/lib.rs` a merge removed the head of `spend_from_category`, which alone freezes a budget,
and the body of the transfer of ownership, where `claim_ownership` always panics: what cannot
happen is not an action. `Wallets` and `SpendingRecords` consist of small contracts
that share no variable: verified links, plain links, profiles and delegation; categories, overdraft
and rate limit.

**`AccountStatus`, `Registers`, `Batches`, `Analytics`, `Upgrade`, `Loyalty`** keep records about
users; `MCAccounts` instantiates them. Most have several small contracts with a group of actions each, which share no variable: `AccountStatus` has
the roles of `access-control` as well, and `Loyalty` the monitors. `Registers`
numbers a history entry by the ledger it was stored in, as `history.rs` does; what
is archived comes from the caller of `archive.rs`, not from the stored transactions. `Loyalty` counts
the time of the monitors in days, since months of 30 days leave five days a year in none of the twelve.

**Histories.** A few variables record what happened and are read by no guard: `SelfMoved` (`Token`: what
holders gained or lost by paying themselves), `prover` (`Wallets`: who signed the last verification of a
wallet), `granted` (`Wallets`: what a delegate was let use since the last revocation, and the highest
limit since), `admitted`, `admittedBefore` and `configured` (`SpendingRecords`: the calls admitted so far,
their number as each second began, and when the rate limit was last configured). With them the
properties speak of what was done in several calls, where the records of the code keep only the latest.

**Groups.** The modules `MCPayments`, `MCControls` and `MCAccounts` hold many contracts that are
deployed separately and share no storage. A variable `focus` is chosen at the start and never
changes; a behaviour takes steps of the contract it names only. So each contract is explored
completely, and the product of unrelated contracts is not. An invariant of a
contract is evaluated in the behaviours that exercise it; in the others its variables stay as they began. This loses no behaviour of any single
contract, and since no property relates two of them, no violation either. Within one contract
nothing is split, with three exceptions, where groups of actions write disjoint variables or where
one run of everything would be too large: the four slices of `Budget` (each has the allocations and
one of limits and rules, suspension, deletion, inheritance), the two of `FeeEscrow` (money, and
settings) and the four of `Analytics`.

## The runs

| Run | Property | What it says |
|---|---|---|
| `escrow` | `Solvent` | the contract holds at least its Active escrows |
| | `BooksAgree` | totals of reversals are exact, of releases never too high; a depositor's index is exactly their escrows, in order |
| | `AlwaysReleasable` | admin and depositor can release every Active escrow at any time |
| | `SettlementIsFinal` | no escrow is dropped, altered or settled again |
| | `ImplementsLedger` | every step is a step of `EscrowLedger` |
| `savings` | `ProgressAgrees` | stored flags, milestones and certificates agree with the balance after any sequence of calls |
| | `TokensSpendOnce` | an idempotency token is applied once, a reversed one included |
| | `RegisterAgrees` | index, names and counters under part-failing batches; alerts only when due |
| | `PrereqsAcyclic` | no cycle of prerequisites, however lists are replaced |
| | `ContributionsBackBalances` | contributions and reversals move what they record, nothing creates money, closed goals do not change |
| `shared` | `MoneyBacked` | budgets are backed per token, archived ones included; contribution records add up |
| | `RegisterAgrees` | a budget is live or archived; the listed members are those who may spend |
| | `FrozenWhenInactive`, `ArchiveRespectsRetention` | the life of a budget from deactivation to archive |
| `governance` | `ApprovalsAreVotes`, `ConfigHasMandate`, `DecisionsAreFinal`, `ImplementsMandates` | counters are votes, values in force have a mandate, decisions are final |
| `transactions` | `CountsAgree`, `TimelockHonoured`, `HighValueNeedsConsent`, `ImplementsOrders` | approvals are counted once, scheduled payments decided once and in time, high-value money moves only with a quorum or through the timelock |
| `payments` | `MoneyAccounted` | what refunds credited is what was approved; an executed conditional payment left in its time and with the approvals of as many different signers as its list leaves it to ask for; schedules stay on their cadence; allowance lists agree and no slot is paid twice; pending fees are backed, none lies in a later cycle, none was charged above its amount or the floor |
| | `ImplementsEscrow` | conditional payments implement `EscrowLedger` |
| | `NothingTwice` | each instant of a recurring payment is used up by one run, which pays once or is counted as missed, and no money moves without such a run; no withdrawal without a quorum of different approvers; a locked fee contract keeps its settings |
| | `CatchesUp` | a savings schedule that is behind catches up (liveness) |
| `controls` | `RecordsAgree` | an hour lies within its day and its month; throttled wallets are listed; the books of `stellarspend-fee` agree; a fee with fallback leaves a net amount; a wallet's two statuses agree and links agree in both directions; the names, numbers and owners of categories agree |
| | `BlocksHold` | nothing is let through while a wallet is blocked |
| | `StepsKeepBooks` | supply follows balances in every call, payments to oneself accounted for exactly; what `fees.rs` holds follows what users were charged, deposited and refunded, and only a distribution loses anything; the distribution of an inactive budget creates nothing |
| | `PermissionsHold` | no verification signed for one owner serves the next; all uses of a delegation together stay within the highest limit granted since it was last revoked; the count of a rate limit's window holds no call from outside it, and unless the limit was reconfigured within the window it holds all of them, no more than the limit |
| `accounts` | `RecordsAgree` | every second copy of a fact agrees with the first, contract by contract (the conjuncts are named in `MCAccounts`) |
| | `StatusHolds` | a freeze stands, muted events stay muted, logs, refunds and histories stand, code changes only by an approved upgrade, retired merchants stay retired, alerts fall once a day |

Each run has one type invariant besides (`TypeOK` or `TypesOK`). Every property has a mutant,
a plausible bug in one mapped definition, that makes TLC report the property as violated; the
mutants stand in the modules next to the definition they replace, marked "Mutant".

Four runs expect a violation; each is a disagreement between the code and a sentence of its own
comments or tests:

* `escrow_repeats` - a batch that names the same escrow twice pays it twice, from the funds of other
  escrows (`escrow/src/lib.rs:229`), though an Active escrow is "Funds locked".
* `savings_certificate` - deposit, withdraw, reverse the deposit: the balance is negative, the next
  milestone check casts the negative percentage to `u32`, and an empty goal is closed and certified
  (`savings-goals/src/lib.rs:886`).
* `shared_early_budget` - `create_budget` works before `initialize`, which then resets the counter, so
  the next budget overwrites the first (`shared-budgets/src/lib.rs:69`).
* `transactions_self` - paying oneself at once adds the amount to the balance
  (`transactions.rs:316`), where a test expects it to be conserved.

### Bounds, and why they are enough

| Run | Bounds | Why |
|---|---|---|
| `escrow` | 3 users + the contract as a payee, 3 escrows, 1 batch call of at most 2 requests, 1 ledger close | overpaying one escrow at the expense of another needs two Active escrows and one settled one; all interleavings of one batch with single releases are covered, and the terms include an arbiter, a future deadline, an amount of zero and a vector that is too long |
| `savings` | 1 saver with 2 goals, 2 contributions, tokens new, repeated and empty; 2 savers for creation; 3 goals for prerequisites | merging needs two goals, a reversal racing a withdrawal needs one contribution and its history a second, the shortest cycle that a check of direct edges misses has three goals |
| `shared` | 1 or 2 users, 1 or 2 tokens, 2 budgets, 2 contributions, 1 unit of time, every sweep limit up to the number of budgets | cross-payment needs two budgets, in one token (the instance `money`) or of two (`tokens`); a key that outlives its member needs a second user (`membership`); a sweep that stops at its limit needs two due budgets |
| `governance` | 3 users, 2 proposals, thresholds 0 and 2, 2 units of time | a double vote must be able to replace a second user; two proposals may be about the same key |
| `transactions` | 2 users, 2 payments from one to the other, 2 pending and 1 scheduled, 1 unit of time, a balance limit of 4 | the second signer may be replaced between the approvals; both waiting payments and the scheduled one compete for a balance that covers one or two of them; the payee fills up |
| `payments` | 2 users, 2 refund requests for one transaction, 2 conditional payments, 2 withdrawals, 2 savings schedules, 1 recurring payment and 1 stream, 1 allowance, 3 billing cycles | a retried approval after the approvers were replaced, a run that is two instants late, a condition that another payment makes false, a release of a cycle that a rollover emptied |
| `controls` | 1 or 2 users, an hour, a day and a month of 1, 2 and 4 units of time, fees at which minimum, maximum and rounding bite, 2 or 3 beneficiaries | a spending at the last second of one window and the first of the next; a share that loses a unit; an owner who is a beneficiary; a wallet linked to one user and claimed by another; a third category whose name is reserved; a negative amount spent; windows of length 2, 3, 4 and 0, which share starts; a multiplier of 0 |
| `accounts` | 2 or 3 users, 2 or 3 records of each kind, batches of up to 3 requests with a valid, an invalid and a repeated one | an index that goes wrong at the second deletion, a batch whose later request sees the effect of an earlier one |

`Max*` constants bound counters in guards, and nothing else depends on them. `U32` is 2^16 in the
savings runs instead of 2^32 because TLC has 32-bit integers: what matters is that a
negative percentage wraps to a number above 100. `I128_MAX` is a small number so that overflow
checks are reached. `EarlyCalls = FALSE` in the passing run of `SharedBudgets`
assumes that the deployer initializes the contract before anybody creates a budget, which is what
`shared_early_budget` drops. The passing escrow run assumes `RepeatFree` request vectors
(`escrow_repeats` drops it). In `transactions` no payment is to its own payer
(`transactions_self` drops that). Symmetry is used for users, keys and values in `governance` and for
idempotency tokens in `savings`, where only safety is checked. Liveness is checked in `payments` without symmetry and without a state
constraint.

## The proofs

TLAPS proves the following for every value of the constants that satisfies the named assumptions of
the module (types of the inputs, the contract's address is no user, ...).

* `EscrowProofs!TypeCorrect`: `Spec => []TypeOK`, repeated request vectors included. The inductive
  invariant `TypeInv` is the type invariant together with facts about the domain of the records.
  That balances stay natural numbers is the difficult part: the guard of a batch
  demands that its payments succeed one after another (`CoveredInTurn`, `PayBatchWallet`).
* `EscrowProofs!Solvency`: if no request vector repeats an id, `Spec => []Solvent`. The argument
  is `SettleSolvent`: a step that closes a set S of Active escrows lowers the sum over Active ones
  by the sum over S (`MaskedSplit`), and `RepeatFreeTotal` shows that a walk over a vector without
  repeats pays exactly that sum.
* `EscrowProofs!Finality`: `Spec => SettlementIsFinal`, one step per action.
* `EscrowProofs!Refinement`: if no request vector repeats an id, `Spec => ImplementsLedger`. A batch
  is one `Pay` or `Refund` of the set of escrows it settles: `BatchPays` applies `RepeatFreeTotal` once
  for every account, to the escrows that account is the payee of, and for the contract, which may be
  a payee itself, splits what it owes from what it keeps.
* `EscrowProofs!BooksHold`: if no request vector repeats an id, `Spec => []BooksAgree`. Together with
  `TypeInv` it is inductive. `BatchCountsOnce` counts the successes of a vector by the bijection between
  its valid positions and the escrows they name, and adds up their worth by `RepeatFreeTotal`;
  `WorthJoin` joins them to the escrows that have the status already; `ListAppend` keeps the index of a
  depositor increasing because the new number is above all others. With repeats the totals are wrong
  as well as the payments.
* `SharedBudgetsProofs`: `TypeCorrect`, `RegisterHolds` (`[]RegisterAgrees`), `MoneyIsBacked`
  (`[]MoneyBacked`), `InactiveIsFrozen` (`FrozenWhenInactive`) and `RetentionIsRespected`
  (`ArchiveRespectsRetention`), each under `~EarlyCalls`: no budget before the contract is initialized.
  `shared_early_budget` shows that the code does not enforce it and what happens otherwise. The
  inductive invariant is `Shape`: `TypeOK`, `LiveOrArchived`, and in `Stored` what they leave open, of
  which two parts carry the argument: before there is an administrator the counters that `initialize`
  resets are 0, and a budget that does not exist yet has no history and no members (otherwise a new
  budget would inherit those of its number). Each entry point has a lemma that says what it does to
  the records (`ContributeEffect`, `SpendEffect`, ..., joined in `Steps`), proved once and used by all
  five theorems. The solvency part is the sum over budgets of one token, `HeldPoint` (one budget
  changes by the amount that is transferred) and `HeldKept` (a sweep moves records from the live ones to
  the archive and changes no sum).
* `SavingsGoalsProofs!TypeCorrect` rests on `Shape` in the same way; `Steps` and `GoalSteps` say what any
  call can do to the state and to one goal. On them rest
  `TokensAreSpentOnce` (`[]TokensSpendOnce`; the invariant is `TokensCounted`: as many tokens as
  records), `BalancesAreBacked` (`ContributionsBackBalances`, where `NetAppended` and `NetReversed` relate
  the balance to the sum of the records) and `FlagsAreExact` (two of the three parts of `ProgressAgrees`,
  without any hypothesis).
* `SavingsGoalsProofs!ProgressHolds`: `Spec /\ []PercentagesFit => []ProgressAgrees`. The hypothesis
  bounds every percentage by 2^32. It is needed because the code casts the percentage to `u32`: with the
  amounts the contract allows (targets from 10^7, balances up to 10^18 and more after a merge) a
  percentage can outgrow 32 bits, and then the milestones are compared with what is left of it.
  In the `savings` run it holds in every state. `ProgressAgrees` is not inductive: the proof adds
  `OverfullIsAnnounced`, that a goal with a negative contribution on record (what a contribution above
  the target becomes) has announced all its milestones, since reversing such a record *raises* the
  balance in a call that checks no milestones.
* `SavingsGoalsProofs!PrereqsStayAcyclic`: `Spec => []PrereqsAcyclic`. `SearchCompletes` shows that
  `has_dependency_path`, a walk that visits every goal once, has followed every path when it ends
  (`ReachableCloses`: what it found is closed under prerequisites); so a new set of prerequisites that
  passes it closes no cycle. The added invariant `OnlyGoalsWait` says that a number without a goal waits
  for nothing, so that a new goal starts at the end of every chain.
* `SavingsGoalsProofs!IndexStaysComplete` (`[]IndexIsComplete`) and `AlertsStayDue` (`[]AlertsWereDue`)
  are the two halves of what the `savings` run checks as `RegisterAgrees`, on the instance in which goals
  are created. `EnlistedFacts` shows by induction over the requests of a batch that the list of a user
  gets their new goals and only those, in order, and `OwnersStay` that no call moves a goal to another
  user or changes its deadline. `Alerted` adds to `AlertsWereDue` that a number without a goal has had no
  alert, so that a new goal starts with none.
* `GovernanceProofs!TypeCorrect`, `VotesCounted` (`[]ApprovalsAreVotes`), `Finality`
  (`DecisionsAreFinal`), `MandateHeld` (`[]ConfigHasMandate`). `ConfigHasMandate` is not inductive:
  the counter that `execute_proposal` tests says nothing about voters unless it is known to be
  their number, so the invariant is `TypeOK /\ ApprovalsAreVotes /\ ConfigHasMandate`.
  `StepOnProposal` states once what any step can do to one existing proposal (nothing, one more
  vote in time, or its execution in time), and finality and mandates follow from it.
* `GovernanceProofs!Refinement`: `Spec => ImplementsMandates`. Each action maps to the action of
  `Mandates` of the same meaning, and `update_admin` and the clock to stuttering.
* `TransactionsProofs!TypeCorrect`, `ApprovalsCounted` (`[]CountsAgree`), `TimelockStands`
  (`[]TimelockHonoured`) and `LargeAmountsNeedConsent` (`HighValueNeedsConsent`), payments to oneself
  included. The type invariant needs `Configured`: `initialize` resets the numbering of payments,
  and that loses none because no payment can wait before there are signers, and no signers before
  there is an administrator. `LargeAmountsNeedConsent` rests on `OnlyPartiesMove` (in a step that
  moves a payment, whoever loses is its payer and whoever gains its payee) and on
  `ApprovalsCounted`: the code compares a counter with the threshold, the property speaks of
  different people.
* `TransactionsProofs!PaymentsAreOrders`: if no payment is to its own payer, `Spec =>
  ImplementsOrders`. The invariant it needs, `NobodyWaitsForOneself`, carries that assumption from
  the arguments to the records that wait; the mapping sends submissions and schedules to `Place`, the
  last approval and an execution to `Move`, a cancellation to `Drop`, and everything about signers,
  block lists and time to stuttering.
* `PaymentsProofs`, the contracts of `MCPayments`. For the group: `PaymentsTypeCorrect`
  (`Spec => []TypesOK`), `MoneyIsAccounted` (`Spec => []MoneyAccounted`), `PaymentsKeepThePromise`
  (`Spec => ImplementsEscrow`) and `NothingHappensTwice` (`Spec => NothingTwice`). Each contract has an
  inductive invariant of its own and a theorem about its own specification; `StepOfOne` joins them: a
  step of the group is a step of one contract, leaves the others and lets at most one second pass
  (`TimePasses`), and each of the invariants survives a second that passes elsewhere. What the
  invariants add to the properties:
  * refunds (`CreditsAlwaysMatch`): nothing; `MarkedRequest` and `NewRequestCredits` say what a decision and
    a new request do to the sum of what a user was credited;
  * conditional payments (`PaidAsAgreed`, `PaymentsImplementEscrow`): nothing. That a quorum of a list
    that may repeat a signer means as many different ones, less the repetitions, is `SubsetOfSize`; in the
    mapping to `EscrowLedger` a creation is `Open`, an execution `Pay`, a cancellation `Refund`, everything else a stutter;
  * savings withdrawals (`QuorumsAreKept`): `Numbered`, that the numbers in use are 1..n although
    `initialize_withdrawal_config` can be repeated and restarts the numbering below n, and
    `CountsApprovers`, that the count is right under every number, in use or not;
  * recurring payments (`OncePerInstant`): their types. `FirstInFuture` is the arithmetic: the quotient of
    the delay by the interval, plus one, gives the first instant in the future, for every interval;
    `StreamsListed` keeps the list of a recipient's streams complete and in order;
  * recurring savings (`SchedulesStayOnCadence`): `Cadence` relates the count of runs, the next instant and
    the status of one schedule, and the tokens follow the counts as a sum over schedules (`MovedBy`);
  * allowances (`AllowancesAreInOrder`): `Ledgered`, the books of one allowance. That its slots are paid at
    most once is not inductive: it needs that all payments lie before the next instant, that the
    instants move by whole intervals (`InstalmentLedgered`), and that a one-off that still waits has paid
    nothing. `WithoutOne` says what the rebuilt list of an old owner contains, by induction along the list;
    `ApprovalThreshold # Unset => Approver # Unset` is why an allowance never waits for nobody;
  * fees (`FeesAlwaysBacked`, `LockedSettingsStand`): the pending fees of all cycles add up to what was
    collected and not released, and the contract's tokens cover it, by the sums of `SumTheorems`.
* `ControlsProofs`, the contracts of `MCControls`: `ControlsTypeCorrect` (`Spec => []TypesOK`),
  `RecordsAgreeAlways` (`Spec => []RecordsAgree`), `BlocksHoldAlways` (`Spec => BlocksHold`),
  `StepsKeepBooksAlways` (`Spec => StepsKeepBooks`) and `PermissionsHoldAlways`
  (`Spec => []PermissionsHold`): all five properties of the run `controls`. Again each contract has
  its invariant and a lemma per group of its actions (`ThrottlingStep`, `TokenStep`, `LimitsStep`,
  `StellarFeeStep`, `FeesStep`, `BudgetStep`, `WalletsStep`, `SpendingRecordsStep`), joined by
  `RecordsStep` and `AllStep`: a step of the group is one of one contract and leaves the others. What
  carries the arguments:
  * throttling: before there is an administrator there are no statistics and no blocks, which
    `initialize_throttle_contract` relies on when it empties the list; the list repeats nobody, and
    `RemovalNames`, by induction along a list, says that a removal takes out its member and no other;
  * spending limits: `SpendCounted`. A timestamp lies in one hour, that hour in one day and that day in
    one month because division rounds down twice as it does once (`NestedDivision`): so a spending
    raises one summand of one sum at each level, and none elsewhere;
  * token: the balances are a sum over users, and a transfer, possibly to oneself, is two changes of
    single values (`HeldAfterMove`). Before there is an administrator nobody holds anything, so the initial
    mint and the supply begin together. What a payment to oneself adds or loses is exactly what `SelfMoved` notes;
  * `stellarspend-fee`: each book is raised by what a batch charges under its key, and `TotalAddedByKey` says
    that the sum of the books is raised by all of it. `FallbackHolds` is the arithmetic of rates,
    multipliers and bounds; monotone in the priority because stored multipliers ascend;
  * `fees.rs`: `RoundedType` and `TreasuryPart` bound what a rounding mode and the treasury's portion can make of a
    fee. A distribution hands out shares of 10000 parts in all, each rounded down, so it loses less
    than one unit for each recipient (`SharesOfAll`). The total may become negative
    after a distribution, so it is an integer in the invariant. A
    deposit into escrow raises one user's escrow and no other (`OneDeposit`), and a step that raises none
    deposits nothing (`NothingDeposited`);
  * budgets: the percentages of a list of beneficiaries add up to 100, and a list may name somebody twice or
    the owner. The shares of a number are then no more than the number (`SharesFit`). For an asset the
    owner's amount is read again after every credit, so if the owner is a beneficiary the number that is shared
    grows on the way: `HeldSharesFit` shows by induction along the list that what the others get stays
    within what the owner had all the same, since the owner's own records are removed at the end;
  * wallets: `VerifiedInv` is the type of the links with `StatusAgrees`; a challenge
    belongs to a ledger no later than the current one, and whoever signed the last verification of a
    wallet is its owner as long as it stays linked, because an unlinking takes the status with it. For a
    delegation the history and the record agree: the amount used is the amount spent, and the highest
    limit no lower than the one in force. Plain links are kept twice: `ListsMatch`, that a
    user's list names the wallets linked to the user, each once, is inductive, an unlinking by
    `RemovalNames` again;
  * categories: `IndexMatches` and `OwnedMatches` are the two halves of `NamesAgree`. They need that the
    numbers in use are 1..n and that the numbering restarts only before there is a category, and a rename
    that the index has one entry for each category: two categories with one key would be one;
  * overdraft: a list of budgets may repeat a name, and the entry that counts is the last (`LastEntry`);
  * rate limit: a window begins no later than it is seen (`WindowType`), whatever length an administrator
    sets, so a count belongs to a window of the past or the present. `WindowsHoldTheirCalls` is about the
    current window and is not inductive, since a window of another length becomes the current one with the next
    configuration: `RateInv` says of the count of *every* second, past or present, that it is at most the calls
    admitted since then (`CountsWithin`), and of the present window that it counts all of them unless the
    configuration changed in it (`CountsAll`).
* `GovernanceProofs!UpgradesStaySafe` and `OnlyApprovedUpgrades`, about `Upgrade` (the module has the proofs of
  the two contracts in which accounts decide together): a pending upgrade has different approvers and a
  version ahead of the current one, enough accounts remain to approve it, and code is replaced only
  with a threshold of approvers after the timelock. The invariant needs `VersionOfCode`: the migration
  writes version 2 whatever the version was, which never overtakes an upgrade that waits because new
  code runs at version 2 or above already.

The modules of a group are instantiated, so their assumptions are definitions. `MCPayments` assumes
all of its own in `PaymentsAssumption` and `MCControls` in `ControlsAssumption`, which TLC evaluates
like the `ASSUME`s of the others: types of the inputs, `Unset` is none of the values stored, a day is
whole hours and a month whole days, and default multipliers ascend as the code's do;
`UpgradeAssumption` is a hypothesis of its theorems, and the type invariant of the `accounts` run
evaluates it.

Only model-checked, and why:

* `AlwaysReleasable` speaks of ENABLED and `CatchesUp` is liveness: both are out of the prover's reach.
* The properties of the run `accounts` (`TypesOK`, `RecordsAgree`, `StatusHolds`), except for
  the part about `Upgrade` above: those contracts have no proofs yet, and several of them are
  built on folds with operators that are not sums, of which `SumTheorems` has no lemmas.
* `TypesOK` and `RegisterAgrees` of the run `savings` are about three instances of `SavingsGoals` with fixed
  constants; what they say of one of them is proved for all constants (`TypeCorrect`,
  `IndexStaysComplete`, `AlertsStayDue`).
* What a recursive definition computes on data of any size has no general induction theorem here. Where the
  proofs need one, it is proved for a set of numbers or subsets; other folds stay with TLC.

## What the models leave out

* Values no property depends on: `created_at`, event topics and payloads, the per-request result
  vectors of batches, memos, descriptions, goal priority, and the `payload` and `asset` of a payment
  (stored and never read).
* Storage life times (TTL extension) and network fees; persistent entries are taken to stay.
* Tokens sent to a contract's address by a plain token transfer: the solvency properties say "at
  least", so such donations only help.
* `i128` and `u64` limits where the amounts of the model cannot reach them (saturating totals in
  savings goals and the escrow's statistics).

Behaviours the models *do* have, which a reader of the code may not expect, and for which there is no
run:

* escrow: `release_escrow` does not count in `TotalEscrowsReleased`, only the batch does; the
  rules in `validation.rs:78` for reversals by a depositor or an arbiter are never reached by them,
  because `batch_reverse_escrows` requires the admin first (`lib.rs:182`).
* savings goals: a rename checks no name and does not touch the name index; an expired goal can
  still be merged into, because its mark is undone; `withdraw_from_goal` takes a closed goal below
  its target without re-opening it, and what is left cannot be withdrawn; a contribution to a goal
  above its target is capped at a negative amount.
* shared budgets: a spending rule for the zero address is stored and binds nobody; 58 percent of 50
  is 28.
* transactions: the block list is read when a payment is submitted and not when it is executed; the
  timelock never compares the amount with the high-value threshold; a payment can wait for ever
  when the signers change so that all of them have approved it already.
* `fees.rs`: refunds come out of the total to distribute, and a distribution sets that total back
  to 0, so a later refund makes the total negative. `stellarspend-fee/fee.rs:198`: a user's total
  leaves out the fees of single payments in an asset.
* savings withdrawals: approvals stored before `initialize` was repeated count for the request that
  gets the same number again, because the numbering starts again and the approvals stay.
* rate limit: windows of different lengths that begin at the same second share one count, after anybody
  (`set_config` asks for no administrator) changes the length; a window that begins elsewhere does not know
  the calls counted in an earlier one, so that in the window of a change more calls than the limit can pass.
* conditional payments: `approve` and the quorum count positions of the signer list. "At least `required`
  of the listed `signers`" (`conditional_payment.rs:16`, `:101`) holds for a list without repetitions; a
  list that names one signer twice lets that signer alone meet a quorum of two. `SettledAsAgreed` states how
  far the count falls short: by no more than the repetitions.
* multi-currency wallet: `validate_and_compute_balance` reads an `i128` under the key where
  `batch_update_balances` stores a `CurrencyBalance` (`multi-currency-wallet/src/validation.rs:93`,
  `lib.rs:166`). The first update of a user's currency finds nothing and works, on a balance of 0; a second
  one, a `set` included, traps and undoes its whole batch. The tests that add to and subtract from a stored
  balance (`src/test.rs:157`, `:191`, `:225`) expect otherwise. `UpdatesCounted` says what follows: a balance is
  written once and never again.
* `token.rs`: a transfer reads both balances before it writes either and writes the receiver's last, so who
  pays themselves gains the amount, or loses all of it when it was all they had. The supply does not know.
* `fees.rs:214` accepts multipliers of 0: such a priority pays no fee but the minimum.
* overdraft: `set_user_budget` checks the limits and not what was spent (`overdraft.rs:163`), so a budget can
  start with a negative amount spent and allow more than its limit.
* `wallet.rs`: a challenge outlives an unlinking. After the wallet is linked again,
  the challenge can still be completed until it expires; a verification signed by an owner does not outlive the
  link.
* spending limits: the escalation thresholds can be configured and read, and `enforce_spending_limit`
  never consults them, though its comment says that large spends require approval
  (`spending-limits/src/lib.rs:348`).
* archive: a record of time 0 counts as old while the threshold reaches back before time 0, and the
  same record can be archived twice under two numbers.
* cross-contract calls: the total in the result of a batch counts the calls that a stop left
  unattempted, the statistics only those made.
* category analytics: the last five days of a year are recorded under month 0, though the comment says
  "Ensure month is 1-12" (`category-analytics/src/lib.rs:268`), and the yearly trend leaves them out.
  `MonthsAddUp` counts that month, to show that nothing is lost besides.
* `batch-rewards`: negative amounts lower the sum the payer's balance is compared with, so a batch
  may be admitted and fail in part.

## Not modelled

`PROJECT.json` lists each component that is not modelled with its reason. They are of four kinds:

* code that cannot run as it stands: `priority.rs` (its search for starved entries leaves the queues
  as they are, so the next dequeue would panic on the entry that is gone; it does not compile as
  written), `contracts/recurring` (no crate compiles it), `streak_reward.rs` (no caller);
* the parts of `budget` and `allowances` that their merges destroyed;
* tables that one call writes and one call reads (`spending-rules`, `wallet-status`, memos, metadata,
  notifications, the earlier savings contracts), where there is no protocol to check;
* shared types, events, estimates, benchmarks, circuits, scripts and tests.
