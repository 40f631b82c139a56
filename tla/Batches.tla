------------------------------- MODULE Batches -------------------------------
(***************************************************************************)
(* The contracts that work through a list of requests in one call, some of *)
(* which may fail alone while the others go through: token transfers and   *)
(* burns (contracts/batch-transfer), transfers that can be paused          *)
(* (batch-transfer-pausable), rewards (batch-rewards), mints               *)
(* (batch-token-mint), conversions (batch-conversion), wallets             *)
(* (batch-wallet-creation), budgets (batch.rs), budget allocations         *)
(* (budget-allocation), balances in several currencies                     *)
(* (multi-currency-wallet) and calls of other contracts (cross-contract),  *)
(* each with its own admin and its own books.                              *)
(***************************************************************************)
EXTENDS Integers, FiniteSets, SequencesExt

CONSTANTS Users, Unset,
          Batches,            \* lists of [user, amount]
          Allocated,          \* the same for batch_allocate_budget, which accepts any number
          Conversions,        \* lists of [user, amount, out, same]: same when the assets agree
          OwnerLists,         \* lists of new wallets' owners
          Recoveries,         \* lists of [from, to]
          RewardBatches,      \* lists of [user, amount]
          IdempotencyTokens,  \* one for every reward batch its sender means once
          Allocations,        \* [user, total, parts], the parts a list of [name, amount]
          Spellings, Upper(_),   \* how a currency may be written; its upper-case form
          Requests,           \* lists of [user, currency, amount, operation]
          MIN_BALANCE, MAX_BALANCE,
          Callees,            \* other contracts
          CallBatches,        \* lists of [contract, named, proceed]: named unless the function's
                              \* name is empty, proceed if the batch continues when it fails
          MAX_BATCH_SIZE, MIN_MINT_AMOUNT, MAX_MINT_AMOUNT,
          InitialBalance, MaxBatches, MaxSnapshots, MaxTime

VARIABLES batchAdmin, counters, Balance, UsedTokens, IsPaused, Wallet, BatchBudget,
          AllocatedBudget, BudgetCategories, BudgetSnapshot, SnapshotTimestamps, batchTime,
          currencyAdmin, LastBalanceBatch, CurrencyBalance, TotalBalancesUpdated,
          TotalBatchesProcessed, callAdmin, CallWhitelist, CallStats

moneyVars == <<Balance, UsedTokens, IsPaused>>
allocationVars == <<AllocatedBudget, BudgetCategories, BudgetSnapshot, SnapshotTimestamps,
                    batchTime>>
currencyVars == <<currencyAdmin, LastBalanceBatch, CurrencyBalance, TotalBalancesUpdated,
                  TotalBatchesProcessed>>
batchVars == <<batchAdmin, counters, moneyVars, Wallet, BatchBudget, allocationVars>>
callVars == <<callAdmin, CallWhitelist, CallStats>>
vars == <<batchVars, currencyVars, callVars>>

BatchContracts == {"transfer", "rewards", "pausable", "mint", "conversion", "wallets", "budgets",
                   "allocation"}
Nothing == [k \in {} |-> Unset]

Init ==
  /\ batchAdmin = [c \in BatchContracts |-> Unset]
  /\ counters = [c \in BatchContracts |-> [batches |-> 0, processed |-> 0, volume |-> 0]]
  /\ Balance = InitialBalance /\ UsedTokens = {} /\ IsPaused = FALSE
  /\ Wallet = Nothing /\ BatchBudget = Nothing
  /\ AllocatedBudget = Nothing /\ BudgetCategories = Nothing
  /\ BudgetSnapshot = Nothing /\ SnapshotTimestamps = << >> /\ batchTime = 0
  /\ currencyAdmin = Unset /\ LastBalanceBatch = 0 /\ CurrencyBalance = Nothing
  /\ TotalBalancesUpdated = 0 /\ TotalBatchesProcessed = 0
  /\ callAdmin = Unset /\ CallWhitelist = {}
  /\ CallStats = [total |-> 0, successful |-> 0, failed |-> 0]

Initialize(c, admin) ==
  /\ batchAdmin[c] = Unset /\ batchAdmin' = [batchAdmin EXCEPT ![c] = admin]
  /\ UNCHANGED <<counters, moneyVars, Wallet, BatchBudget, allocationVars>>

SetAdmin(c, caller, new) ==
  /\ batchAdmin[c] = caller /\ batchAdmin' = [batchAdmin EXCEPT ![c] = new]
  /\ UNCHANGED <<counters, moneyVars, Wallet, BatchBudget, allocationVars>>

\* One more batch of contract c; the requests it counts and their volume.
Counted(c, n, volume) ==
  /\ counters[c].batches < MaxBatches
  /\ counters' = [counters EXCEPT ![c] = [batches |-> @.batches + 1, processed |-> @.processed + n,
                                          volume |-> @.volume + volume]]
Admitted(b) == Len(b) \in 1..MAX_BATCH_SIZE
Amount(b, Good(_)) == FoldLeft(LAMBDA s, r : IF Good(r) THEN s + r.amount ELSE s, 0, b)
Number(b, Good(_)) == Len(SelectSeq(b, Good))

------------------------------------------------------------------------------
(* Tokens                                                                  *)

UniqueRecipients(b) == \A j, k \in DOMAIN b : b[j].user = b[k].user => j = k
Moved(balance, from, to, n) ==
  LET paid == [balance EXCEPT ![from] = @ - n] IN [paid EXCEPT ![to] = @ + n]

\* The payer's balance is read before the first transfer; a transfer the token
\* refuses ends the whole call.
Transferred(payer, b) ==
  FoldLeft(LAMBDA s, r :
             IF r.amount <= 0 \/ s.available < r.amount THEN s
             ELSE IF s.balance[payer] < r.amount THEN [s EXCEPT !.trapped = TRUE]
             ELSE [s EXCEPT !.balance = Moved(@, payer, r.user, r.amount),
                            !.available = @ - r.amount, !.volume = @ + r.amount],
           [balance |-> Balance, available |-> Balance[payer], volume |-> 0, trapped |-> FALSE], b)

BatchTransfer(caller, b) ==
  LET result == Transferred(caller, b) IN
  /\ batchAdmin["transfer"] = caller /\ Admitted(b) /\ UniqueRecipients(b)
  /\ ~result.trapped
  /\ Balance' = result.balance
  /\ Counted("transfer", Len(b), result.volume)
  /\ UNCHANGED <<batchAdmin, UsedTokens, IsPaused, Wallet, BatchBudget, allocationVars>>

\* Each owner's balance is read when its request is reached; no counter moves.
BatchBurn(caller, b) ==
  /\ batchAdmin["transfer"] = caller /\ Admitted(b)
  /\ Balance' = FoldLeft(LAMBDA s, r : IF r.amount > 0 /\ s[r.user] >= r.amount
                                       THEN [s EXCEPT ![r.user] = @ - r.amount] ELSE s,
                         Balance, b)
  /\ UNCHANGED <<batchAdmin, counters, UsedTokens, IsPaused, Wallet, BatchBudget, allocationVars>>

\* A transfer the token refuses fails alone here.
Rewarded(payer, b) ==
  FoldLeft(LAMBDA s, r :
             IF r.amount > 0 /\ s.balance[payer] >= r.amount
             THEN [balance |-> Moved(s.balance, payer, r.user, r.amount),
                   volume |-> s.volume + r.amount] ELSE s,
           [balance |-> Balance, volume |-> 0], b)

\* Negative amounts lower what the payer must have.  The token is used up
\* whatever part of the batch went through.
DistributeRewards(caller, token, b) ==
  /\ batchAdmin["rewards"] = caller /\ token \notin UsedTokens /\ Admitted(b)
  /\ Balance[caller] >= Amount(b, LAMBDA r : TRUE)
  /\ Balance' = Rewarded(caller, b).balance /\ UsedTokens' = UsedTokens \cup {token}
  /\ Counted("rewards", Len(b), Rewarded(caller, b).volume)
  /\ UNCHANGED <<batchAdmin, IsPaused, Wallet, BatchBudget, allocationVars>>

\* Anyone's batch; a negative amount counts as a transfer, and no token moves.
PausableTransfer(b) ==
  /\ ~IsPaused /\ Admitted(b)
  /\ Counted("pausable", Number(b, LAMBDA r : r.amount # 0), 0)
  /\ UNCHANGED <<batchAdmin, moneyVars, Wallet, BatchBudget, allocationVars>>

SetPaused(caller, paused) ==
  /\ batchAdmin["pausable"] = caller /\ IsPaused' = paused
  /\ UNCHANGED <<batchAdmin, counters, Balance, UsedTokens, Wallet, BatchBudget, allocationVars>>

\* Only the contract's own books: the token is never asked to mint.
BatchMintTokens(caller, b) ==
  /\ batchAdmin["mint"] = caller /\ Admitted(b)
  /\ Counted("mint", 0, Amount(b, LAMBDA r : r.amount \in MIN_MINT_AMOUNT..MAX_MINT_AMOUNT))
  /\ UNCHANGED <<batchAdmin, moneyVars, Wallet, BatchBudget, allocationVars>>

\* What the user holds is compared with each conversion and none of it is taken.
ExecuteConversion(r) == r.amount <= Balance[r.user]
ValidConversion(r) == r.amount > 0 /\ r.out > 0 /\ ~r.same
BatchConvertCurrency(b) ==
  /\ Admitted(b)
  /\ Counted("conversion", Len(b), Amount(b, LAMBDA r : ValidConversion(r) /\ ExecuteConversion(r)))
  /\ UNCHANGED <<batchAdmin, moneyVars, Wallet, BatchBudget, allocationVars>>

Paying ==
  \/ \E u \in Users : Initialize("transfer", u)
  \/ \E u, v \in Users : SetAdmin("transfer", u, v)
  \/ \E u \in Users, b \in Batches : BatchTransfer(u, b) \/ BatchBurn(u, b)
  \/ \E b \in Conversions : BatchConvertCurrency(b)
Rewarding ==
  \/ \E u \in Users : Initialize("rewards", u)
  \/ \E u, v \in Users : SetAdmin("rewards", u, v)
  \/ \E u \in Users, t \in IdempotencyTokens, b \in RewardBatches : DistributeRewards(u, t, b)
Pausing ==
  \/ \E c \in {"pausable", "mint"}, u \in Users : Initialize(c, u)
  \/ \E c \in {"pausable", "mint"}, u, v \in Users : SetAdmin(c, u, v)
  \/ \E u \in Users, p \in BOOLEAN : SetPaused(u, p)
  \/ \E b \in Batches : PausableTransfer(b)
  \/ \E u \in Users, b \in Batches : BatchMintTokens(u, b)

------------------------------------------------------------------------------
(* Wallets                                                                 *)

\* The next number is counted up within the batch and from the total between batches.
BatchCreateWallets(caller, owners) ==
  LET created == FoldLeft(LAMBDA s, u : IF u \in DOMAIN s THEN s
                            ELSE s @@ (u :> [id |-> counters["wallets"].processed + 1 +
                                                   Cardinality(DOMAIN s \ DOMAIN Wallet),
                                             owner |-> u]),
                          Wallet, owners) IN
  /\ batchAdmin["wallets"] = caller /\ Admitted(owners)
  /\ IsInjective(owners)
  /\ Wallet' = created
  /\ Counted("wallets", Cardinality(DOMAIN created \ DOMAIN Wallet), 0)
  /\ UNCHANGED <<batchAdmin, moneyVars, BatchBudget, allocationVars>>

Rehomed(wallets, r) ==
  (r.to :> [wallets[r.from] EXCEPT !.owner = r.to]) @@
  Restrict(wallets, DOMAIN wallets \ {r.from})

BatchRecoverWallets(caller, b) ==
  /\ batchAdmin["wallets"] = caller /\ Admitted(b)
  /\ Wallet' = FoldLeft(LAMBDA s, r : IF r.from \in DOMAIN s /\ r.to \notin DOMAIN s
                                      THEN Rehomed(s, r) ELSE s,
                        Wallet, b)
  /\ Counted("wallets", 0, 0)
  /\ UNCHANGED <<batchAdmin, moneyVars, BatchBudget, allocationVars>>

CreatingWallets ==
  \/ \E u \in Users : Initialize("wallets", u)
  \/ \E u, v \in Users : SetAdmin("wallets", u, v)
  \/ \E u \in Users, b \in OwnerLists : BatchCreateWallets(u, b)
  \/ \E u \in Users, b \in Recoveries : BatchRecoverWallets(u, b)

------------------------------------------------------------------------------
(* Budgets                                                                 *)

AmountOf(budgets, u) == IF u \in DOMAIN budgets THEN budgets[u] ELSE 0

\* A user's second request in a batch fails, even after a first one that failed.
FirstForUser(b, k) == \A j \in 1..(k - 1) : b[j].user # b[k].user
BatchUpdateBudgets(caller, b) ==
  LET good == {k \in DOMAIN b : FirstForUser(b, k) /\ b[k].amount > 0}
      updated == [u \in {b[k].user : k \in good} |->
                    b[CHOOSE k \in good : b[k].user = u].amount]
      change == FoldLeft(LAMBDA s, k : IF k \notin good THEN s
                           ELSE s - AmountOf(BatchBudget, b[k].user) + b[k].amount,
                         0, [k \in DOMAIN b |-> k]) IN
  /\ batchAdmin["budgets"] = caller /\ Admitted(b)
  /\ BatchBudget' = updated @@ BatchBudget
  /\ Counted("budgets", Len(b), change)
  /\ UNCHANGED <<batchAdmin, moneyVars, Wallet, allocationVars>>

\* The categories of an earlier allocation stay as they were.
BatchAllocateBudget(caller, b) ==
  /\ batchAdmin["allocation"] = caller
  /\ AllocatedBudget' = FoldLeft(LAMBDA s, r : IF r.amount < 0 THEN s
                                   ELSE (r.user :> [amount |-> r.amount, last_updated |-> batchTime])
                                        @@ s,
                                 AllocatedBudget, b)
  /\ UNCHANGED <<batchAdmin, counters, moneyVars, Wallet, BatchBudget, BudgetCategories,
                 BudgetSnapshot, SnapshotTimestamps, batchTime>>

\* Of two parts with one name, the later amount counts.
AllocateBudgetByCategory(caller, a) ==
  LET later == [name \in {a.parts[k].name : k \in DOMAIN a.parts} |->
                  a.parts[CHOOSE k \in DOMAIN a.parts :
                            /\ a.parts[k].name = name
                            /\ \A j \in DOMAIN a.parts : a.parts[j].name = name => j <= k].amount] IN
  /\ batchAdmin["allocation"] = caller
  /\ \A k \in DOMAIN a.parts : a.parts[k].amount >= 0
  /\ a.total = Amount(a.parts, LAMBDA p : TRUE)
  /\ BudgetCategories' = (a.user :> [parts |-> later, total |-> a.total]) @@ BudgetCategories
  /\ AllocatedBudget' = (a.user :> [amount |-> a.total, last_updated |-> batchTime])
                        @@ AllocatedBudget
  /\ UNCHANGED <<batchAdmin, counters, moneyVars, Wallet, BatchBudget, BudgetSnapshot,
                 SnapshotTimestamps, batchTime>>

\* The summary goes by the categories where there are any.
AllocationSummary(u) ==
  IF u \in DOMAIN BudgetCategories
  THEN LET c == BudgetCategories[u]
           remaining == FoldFunction(LAMBDA n, s : n + s, 0, c.parts) IN
       [remaining |-> remaining, total |-> c.total,
        usage |-> IF c.total = 0 THEN 0 ELSE ((c.total - remaining) * 100) \div c.total]
  ELSE [remaining |-> AllocatedBudget[u].amount, total |-> AllocatedBudget[u].amount, usage |-> 0]

\* Anyone's; a second one in the same ledger replaces the first but lists the time again.
CreateBudgetSnapshot(u) ==
  /\ Len(SnapshotTimestamps) < MaxSnapshots
  /\ u \in DOMAIN AllocatedBudget
  /\ BudgetSnapshot' = (<<batchTime, u>> :> AllocatedBudget[u]) @@ BudgetSnapshot
  /\ SnapshotTimestamps' = Append(SnapshotTimestamps, batchTime)
  /\ UNCHANGED <<batchAdmin, counters, moneyVars, Wallet, BatchBudget, AllocatedBudget,
                 BudgetCategories, batchTime>>
AllBudgetSnapshots(u) ==
  SelectSeq(SnapshotTimestamps, LAMBDA t : <<t, u>> \in DOMAIN BudgetSnapshot)

\* Anyone may, and without a month having passed.
ResetMonthlyBudget(u) ==
  /\ u \in DOMAIN AllocatedBudget
  /\ AllocatedBudget' = [AllocatedBudget EXCEPT ![u].last_updated = batchTime]
  /\ UNCHANGED <<batchAdmin, counters, moneyVars, Wallet, BatchBudget, BudgetCategories,
                 BudgetSnapshot, SnapshotTimestamps, batchTime>>

Tick ==
  /\ batchTime < MaxTime /\ batchTime' = batchTime + 1
  /\ UNCHANGED <<batchAdmin, counters, moneyVars, Wallet, BatchBudget, AllocatedBudget,
                 BudgetCategories, BudgetSnapshot, SnapshotTimestamps>>

Budgeting ==
  \/ \E u \in Users : Initialize("budgets", u)
  \/ \E u \in Users, b \in Batches : BatchUpdateBudgets(u, b)
Allocating ==
  \/ \E u \in Users : Initialize("allocation", u)
  \/ \E u \in Users, b \in Allocated : BatchAllocateBudget(u, b)
  \/ \E u \in Users, a \in Allocations : AllocateBudgetByCategory(u, a)
  \/ \E u \in Users : CreateBudgetSnapshot(u) \/ ResetMonthlyBudget(u)
  \/ Tick

------------------------------------------------------------------------------
(* Balances in several currencies: each request stands alone, but a         *)
(* balance can be written only once.                                       *)

\* Not signed.
InitializeWallet(admin) ==
  /\ currencyAdmin = Unset /\ currencyAdmin' = admin
  /\ UNCHANGED <<LastBalanceBatch, CurrencyBalance, TotalBalancesUpdated, TotalBatchesProcessed>>

RequireCurrencyAdmin(caller) == currencyAdmin # Unset /\ caller = currencyAdmin

SetCurrencyAdmin(caller, new) ==
  /\ RequireCurrencyAdmin(caller) /\ currencyAdmin' = new
  /\ UNCHANGED <<LastBalanceBatch, CurrencyBalance, TotalBalancesUpdated, TotalBatchesProcessed>>

NormalizeAssetSymbol(spelling) == Upper(spelling)

IsValidAmount(n) == n \in MIN_BALANCE .. MAX_BALANCE
ValidateBalanceRequest(r) == IsValidAmount(r.amount) /\ r.operation \in {"set", "add", "subtract"}

ComputeNewBalance(current, r) ==
  CASE r.operation = "set"      -> r.amount
    [] r.operation = "add"      -> current + r.amount
    [] r.operation = "subtract" -> current - r.amount

\* Mutant: only the upper bound is checked.
ValidBalanceBelow(n) == n <= MAX_BALANCE
ValidBalance(n) == n \in 0 .. MAX_BALANCE

\* The current balance is read as a number and stored as a struct: the read finds
\* nothing, which is 0, or it traps, whatever the operation.
ReadTraps(balances, k) == k \in DOMAIN balances

\* Balances and the number of updates after one request; one that is well formed
\* for a balance stored before, by this batch or an earlier one, traps.
Applied(s, r) ==
  LET k == <<r.user, NormalizeAssetSymbol(r.currency)>>
      new == ComputeNewBalance(0, r)
  IN  IF ~ValidateBalanceRequest(r) THEN s
      ELSE IF ReadTraps(s.balance, k) THEN [s EXCEPT !.trapped = TRUE]
      ELSE IF ValidBalance(new) THEN [s EXCEPT !.balance = (k :> new) @@ @, !.updated = @ + 1]
      ELSE s

BatchUpdateBalances(caller, requests) ==
  LET result == FoldLeft(Applied, [balance |-> CurrencyBalance, updated |-> 0,
                                   trapped |-> FALSE], requests)
  IN  /\ RequireCurrencyAdmin(caller) /\ Len(requests) \in 1 .. MAX_BATCH_SIZE
      /\ LastBalanceBatch < MaxBatches
      /\ ~result.trapped
      /\ CurrencyBalance' = result.balance
      /\ LastBalanceBatch' = LastBalanceBatch + 1
      /\ TotalBalancesUpdated' = TotalBalancesUpdated + result.updated
      /\ TotalBatchesProcessed' = TotalBatchesProcessed + 1
      /\ UNCHANGED currencyAdmin

Updating ==
  \E u \in Users : \/ InitializeWallet(u)
                   \/ \E v \in Users : SetCurrencyAdmin(u, v)
                   \/ \E requests \in Requests : BatchUpdateBalances(u, requests)

------------------------------------------------------------------------------
(* Calls of other contracts.  Whether a call succeeds is up to the contract  *)
(* called, which cannot call back: the host refuses re-entrance.             *)

InitializeCalls(admin) ==
  /\ callAdmin = Unset /\ callAdmin' = admin
  /\ UNCHANGED <<CallWhitelist, CallStats>>

RequireCallAdmin(caller) == callAdmin # Unset /\ caller = callAdmin

SetCallAdmin(caller, new) ==
  /\ RequireCallAdmin(caller) /\ callAdmin' = new
  /\ UNCHANGED <<CallWhitelist, CallStats>>

WhitelistContract(caller, c) ==
  /\ RequireCallAdmin(caller) /\ CallWhitelist' = CallWhitelist \cup {c}
  /\ UNCHANGED <<callAdmin, CallStats>>
RemoveFromCallWhitelist(caller, c) ==
  /\ RequireCallAdmin(caller) /\ CallWhitelist' = CallWhitelist \ {c}
  /\ UNCHANGED <<callAdmin, CallStats>>

ValidCall(call, listed) == call.named /\ (listed => call.contract \in CallWhitelist)

CallsMade(successful, failed) ==
  /\ CallStats.total < MaxBatches
  /\ CallStats' = [total |-> CallStats.total + successful + failed,
                   successful |-> CallStats.successful + successful,
                   failed |-> CallStats.failed + failed]
  /\ UNCHANGED <<callAdmin, CallWhitelist>>

ExecuteCall(caller, call, listed, success) ==
  /\ RequireCallAdmin(caller) /\ ValidCall(call, listed)
  /\ IF success THEN CallsMade(1, 0) ELSE CallsMade(0, 1)

\* The calls are made in turn until one fails that the batch may not pass.
AfterCalls(calls, success) ==
  FoldLeft(LAMBDA s, k : IF s.stopped THEN s
                         ELSE IF success[k] THEN [s EXCEPT !.successful = @ + 1]
                         ELSE [s EXCEPT !.failed = @ + 1, !.stopped = ~calls[k].proceed],
           [successful |-> 0, failed |-> 0, stopped |-> FALSE], [k \in DOMAIN calls |-> k])

ExecuteBatch(caller, calls, listed, success) ==
  /\ RequireCallAdmin(caller) /\ Admitted(calls)
  /\ \A k \in DOMAIN calls : ValidCall(calls[k], listed)
  /\ LET s == AfterCalls(calls, success) IN CallsMade(s.successful, s.failed)

Calling ==
  \E u \in Users :
    \/ InitializeCalls(u)
    \/ \E v \in Users : SetCallAdmin(u, v)
    \/ \E c \in Callees : WhitelistContract(u, c) \/ RemoveFromCallWhitelist(u, c)
    \/ \E calls \in CallBatches, listed \in BOOLEAN :
         \/ \E k \in DOMAIN calls, ok \in BOOLEAN : ExecuteCall(u, calls[k], listed, ok)
         \/ \E success \in [DOMAIN calls -> BOOLEAN] : ExecuteBatch(u, calls, listed, success)

Next ==
  \/ /\ Paying \/ Rewarding \/ Pausing \/ CreatingWallets \/ Budgeting \/ Allocating
     /\ UNCHANGED <<currencyVars, callVars>>
  \/ Updating /\ UNCHANGED <<batchVars, callVars>>
  \/ Calling /\ UNCHANGED <<batchVars, currencyVars>>
Spec == Init /\ [][Next]_vars

------------------------------------------------------------------------------
\* Counters, balances and records have their types.
TypeOK ==
  /\ batchAdmin \in [BatchContracts -> Users \cup {Unset}]
  /\ counters \in [BatchContracts -> [batches : Nat, processed : Nat, volume : Nat]]
  /\ Balance \in [Users -> Nat] /\ IsPaused \in BOOLEAN
  /\ UsedTokens \subseteq IdempotencyTokens
  /\ DOMAIN BudgetCategories \subseteq DOMAIN AllocatedBudget
  /\ DOMAIN BatchBudget \cup DOMAIN AllocatedBudget \subseteq Users
  /\ currencyAdmin \in Users \cup {Unset} /\ LastBalanceBatch \in 0..MaxBatches
  /\ DOMAIN CurrencyBalance \subseteq Users \X Spellings
  /\ TotalBalancesUpdated \in Nat /\ TotalBatchesProcessed \in Nat
  /\ callAdmin \in Users \cup {Unset} /\ CallWhitelist \subseteq Callees
  /\ CallStats \in [total : Nat, successful : Nat, failed : Nat]

\* Whatever the admin's own share in a batch, it never runs into a transfer the
\* token refuses: what cannot be paid fails alone and the others go through.
BatchesGoThrough ==
  \A u \in Users, b \in Batches : UniqueRecipients(b) => ~Transferred(u, b).trapped

\* A retried token pays nothing more: there is a token for every batch counted.
\* And a batch without negative amounts pays all that it says, though one payment
\* after the other lowers the balance it was compared with.
RewardsInFull ==
  /\ counters["rewards"].batches = Cardinality(UsedTokens)
  /\ \A u \in Users, b \in RewardBatches :
       /\ \A k \in DOMAIN b : b[k].amount >= 0
       /\ Balance[u] >= Amount(b, LAMBDA r : TRUE)
       => Rewarded(u, b).volume = Amount(b, LAMBDA r : TRUE)

\* Every wallet is kept under its owner, and the numbers given out are 1 to
\* the number of wallets ever created, each held once, wherever recoveries took them.
WalletsNumbered ==
  /\ \A u \in DOMAIN Wallet : Wallet[u].owner = u
  /\ {Wallet[u].id : u \in DOMAIN Wallet} = 1..counters["wallets"].processed
  /\ Cardinality(DOMAIN Wallet) = counters["wallets"].processed

\* The running total of batch.rs, kept by differences, is the sum of the budgets.
AllocatedAddsUp ==
  counters["budgets"].volume = FoldFunction(LAMBDA n, s : n + s, 0, BatchBudget)

\* What a user's categories have left never exceeds what the categories were
\* given, so the share used is a percentage; every snapshot can be found by its time.
AllocationsAgree ==
  /\ \A u \in DOMAIN AllocatedBudget :
       LET s == AllocationSummary(u) IN s.remaining \in 0..s.total /\ s.usage \in 0..100
  /\ \A u \in DOMAIN AllocatedBudget : ToSet(AllBudgetSnapshots(u)) =
       {t \in 0..batchTime : <<t, u>> \in DOMAIN BudgetSnapshot}

\* Whatever a batch asks for, a balance never leaves 0 .. MAX_BALANCE, and a
\* currency has one balance per user however it is written.
BalancesSound ==
  \A k \in DOMAIN CurrencyBalance : /\ CurrencyBalance[k] \in 0 .. MAX_BALANCE
                                    /\ Upper(k[2]) = k[2]

\* The counters agree with the balances, whichever requests failed alone and
\* whichever batches a trap undid: a balance is updated once and counted once,
\* and the batches that went through are numbered without a gap.
UpdatesCounted == /\ TotalBalancesUpdated = Cardinality(DOMAIN CurrencyBalance)
                  /\ LastBalanceBatch = TotalBatchesProcessed

\* A call made is counted once, as a success or as a failure, alone or in a
\* batch; and whatever fails, a batch makes exactly the calls up to the first
\* failure it may not pass, that one included.
CallsCounted ==
  /\ CallStats.total = CallStats.successful + CallStats.failed
  /\ \A calls \in CallBatches : \A success \in [DOMAIN calls -> BOOLEAN] :
       LET final == {k \in DOMAIN calls : ~success[k] /\ ~calls[k].proceed}
           made == {k \in DOMAIN calls : \A j \in final : k <= j}
           s == AfterCalls(calls, success)
       IN  /\ s.successful = Cardinality({k \in made : success[k]})
           /\ s.failed = Cardinality({k \in made : ~success[k]})
==============================================================================
