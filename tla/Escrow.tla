-------------------------------- MODULE Escrow --------------------------------
(***************************************************************************)
(* The standalone escrow contract (contracts/escrow/src).  A call is one   *)
(* atomic transaction: a panic anywhere (a failed check, a token transfer  *)
(* the balance cannot cover) undoes the whole call, so an action's guard   *)
(* is the conjunction of everything that must not panic.  The two batch    *)
(* entry points first validate every request against the stored records    *)
(* and then pay from those snapshots, so a request that repeats an id is   *)
(* judged by the state BEFORE the batch.                                   *)
(***************************************************************************)
EXTENDS Sums, Sequences, FiniteSets

CONSTANTS Users,            \* addresses that can authorize a call
          Contract,         \* env.current_contract_address()
          NoAddress,        \* an Option<Address> that is None, an unset key
          Terms,            \* the create_escrow arguments callers use
          Batches,          \* the request vectors callers send
          MAX_BATCH_SIZE,
          Opening,          \* token balances before the first call
          MaxEscrows,       \* bound: escrows ever created
          MaxBatchCalls,    \* bound: batch calls of each kind
          MaxLedger         \* bound: ledger sequence number

Accounts == Users \cup {Contract}
EscrowStatus == {"Active", "Released", "Reversed"}

\* The contract cannot authorize create_escrow for itself, but nothing stops
\* a depositor from naming the contract as the recipient.
TermsRecord == [depositor : Users, recipient : Accounts,
                arbiter : Users \cup {NoAddress}, amount : Int, deadline : Nat]

ASSUME AddressAssumption == /\ Contract \notin Users
                            /\ NoAddress \notin Accounts
ASSUME InputAssumption == /\ Terms \subseteq TermsRecord
                          /\ \A b \in Batches : b \in Seq(Nat)
                          /\ Opening \in [Accounts -> Nat]
ASSUME BoundAssumption == /\ MAX_BATCH_SIZE \in Nat
                          /\ MaxEscrows \in Nat
                          /\ MaxBatchCalls \in Nat
                          /\ MaxLedger \in Nat

VARIABLES admin,            \* DataKey::Admin
          escrow,           \* DataKey::Escrow(id), terms and status
          EscrowCounter,    \* DataKey::EscrowCounter
          UserEscrows,      \* DataKey::UserEscrows(depositor)
          reversals,        \* DataKey::Total{ReversalBatches,EscrowsReversed,AmountReversed}
          releases,         \* DataKey::Total{ReleaseBatches,EscrowsReleased,AmountReleased}
          wallet,           \* the token contract's balances
          sequence          \* env.ledger().sequence()
vars == <<admin, escrow, EscrowCounter, UserEscrows, reversals, releases, wallet,
          sequence>>

EscrowRecord == [depositor : Users, recipient : Accounts,
                 arbiter : Users \cup {NoAddress}, amount : Nat \ {0},
                 deadline : Nat, status : EscrowStatus]

Statistics == [batches : Nat, escrows : Nat, amount : Nat]
ZeroStatistics == [batches |-> 0, escrows |-> 0, amount |-> 0]

Init == /\ admin = NoAddress
        /\ escrow = << >>
        /\ EscrowCounter = 0
        /\ UserEscrows = [u \in Users |-> << >>]
        /\ reversals = ZeroStatistics
        /\ releases = ZeroStatistics
        /\ wallet = Opening
        /\ sequence = 0

Ids == DOMAIN escrow
ActiveIds == {e \in Ids : escrow[e].status = "Active"}
AmountOf == [e \in Ids |-> escrow[e].amount]

\* A token transfer; moving tokens from an account to itself changes nothing.
Transfer(balances, from, to, amount) ==
  [u \in Accounts |-> balances[u] + (IF u = to THEN amount ELSE 0)
                                  - (IF u = from THEN amount ELSE 0)]

------------------------------------------------------------------------------
\* The checks a batch makes of one request.

IsParty(caller, e) == caller \in {escrow[e].depositor, escrow[e].arbiter}

\* Mutant: the Released arm of the status match is missing.
ValidReversalOfReleased(caller, e) ==
  /\ e \in Ids
  /\ escrow[e].status # "Reversed"
  /\ caller = admin

\* The caller of a reversal batch is the admin (require_admin), which leaves
\* the depositor's deadline rule below without effect.
ValidReversal(caller, e) ==
  /\ e \in Ids
  /\ escrow[e].status = "Active"
  /\ caller = admin \/ IsParty(caller, e)
  /\ \/ caller \in {admin, escrow[e].arbiter}
     \/ sequence >= escrow[e].deadline

\* Mutant: the status of the escrow is not looked at.
ValidReleaseAnyStatus(caller, e) ==
  e \in Ids /\ (caller = admin \/ IsParty(caller, e))

ValidRelease(caller, e) ==
  /\ e \in Ids
  /\ escrow[e].status = "Active"
  /\ caller = admin \/ IsParty(caller, e)

------------------------------------------------------------------------------
\* The entry points.

Initialize(newAdmin) ==
  /\ admin = NoAddress
  /\ admin' = newAdmin
  /\ EscrowCounter' = 0
  /\ reversals' = ZeroStatistics
  /\ releases' = ZeroStatistics
  /\ UNCHANGED <<escrow, UserEscrows, wallet, sequence>>

\* The new record, under the next number; only an initialized contract has a
\* token to transfer.
StoreEscrow(t, id) ==
  /\ admin # NoAddress
  /\ EscrowCounter' = id
  /\ escrow' = [e \in Ids \cup {id} |->
                  IF e = id
                  THEN [depositor |-> t.depositor, recipient |-> t.recipient,
                        arbiter |-> t.arbiter, amount |-> t.amount,
                        deadline |-> t.deadline, status |-> "Active"]
                  ELSE escrow[e]]
  /\ UNCHANGED <<admin, reversals, releases, sequence>>

\* Mutants: an amount of 0 is accepted; the deposit is forgotten.
CreateEscrowOfNothing(t) ==
  /\ wallet[t.depositor] >= t.amount
  /\ wallet' = Transfer(wallet, t.depositor, Contract, t.amount)
  /\ StoreEscrow(t, EscrowCounter + 1)
  /\ UserEscrows' = [UserEscrows EXCEPT ![t.depositor] = Append(@, EscrowCounter + 1)]
CreateEscrowUnfunded(t) ==
  /\ t.amount > 0
  /\ StoreEscrow(t, EscrowCounter + 1)
  /\ UserEscrows' = [UserEscrows EXCEPT ![t.depositor] = Append(@, EscrowCounter + 1)]
  /\ UNCHANGED wallet

CreateEscrow(t) ==
  LET escrow_id == EscrowCounter + 1 IN
  /\ t.amount > 0
  /\ wallet[t.depositor] >= t.amount
  /\ wallet' = Transfer(wallet, t.depositor, Contract, t.amount)
  /\ StoreEscrow(t, escrow_id)
  /\ UserEscrows' = [UserEscrows EXCEPT ![t.depositor] = Append(@, escrow_id)]

ReleaseEscrow(caller, e) ==
  /\ admin # NoAddress
  /\ e \in Ids
  /\ caller = admin \/ IsParty(caller, e)
  /\ escrow[e].status = "Active"
  /\ wallet[Contract] >= escrow[e].amount
  /\ wallet' = Transfer(wallet, Contract, escrow[e].recipient, escrow[e].amount)
  /\ escrow' = [escrow EXCEPT ![e].status = "Released"]
  /\ UNCHANGED <<admin, EscrowCounter, UserEscrows, reversals, releases, sequence>>

\* What the second pass of a batch does with the requests the first pass found
\* valid: payments leave the contract in request order and each must be covered.
BatchSize(b) == Len(b) \in 1..MAX_BATCH_SIZE
Due(b, valid) == [i \in 1..Len(b) |-> IF b[i] \in valid THEN escrow[b[i]].amount ELSE 0]
DueTo(b, valid, payee, u) ==
  [i \in 1..Len(b) |->
     IF b[i] \in valid /\ payee[b[i]] = u THEN escrow[b[i]].amount ELSE 0]
DueOut(b, valid, payee) ==
  [i \in 1..Len(b) |->
     IF b[i] \in valid /\ payee[b[i]] # Contract THEN escrow[b[i]].amount ELSE 0]

PayBatch(b, valid, payee) ==
  /\ \A i \in 1..Len(b) : b[i] \in valid =>
       wallet[Contract] - SumTo(DueOut(b, valid, payee), i - 1) >= escrow[b[i]].amount
  /\ wallet' = [u \in Accounts |->
                  IF u = Contract
                  THEN wallet[u] - SumTo(DueOut(b, valid, payee), Len(b))
                  ELSE wallet[u] + SumTo(DueTo(b, valid, payee, u), Len(b))]

\* Mutant: the new status is never stored.
SettledUnsaved(b, valid, status) == escrow

Settled(b, valid, status) ==
  [e \in Ids |-> IF e \in valid /\ \E i \in 1..Len(b) : b[i] = e
                 THEN [escrow[e] EXCEPT !.status = status] ELSE escrow[e]]

\* Mutant: failed requests are counted as well.
SuccessesAll(b, valid) == Len(b)
Successes(b, valid) == Cardinality({i \in 1..Len(b) : b[i] \in valid})

Counted(total, b, valid) ==
  [batches |-> total.batches + 1,
   escrows |-> total.escrows + Successes(b, valid),
   amount  |-> total.amount + SumTo(Due(b, valid), Len(b))]

BatchReverseEscrows(caller, b) ==
  LET valid == {e \in Ids : ValidReversal(caller, e)} IN
  /\ admin # NoAddress
  /\ caller = admin
  /\ BatchSize(b)
  /\ reversals.batches < MaxBatchCalls
  /\ PayBatch(b, valid, [e \in Ids |-> escrow[e].depositor])
  /\ escrow' = Settled(b, valid, "Reversed")
  /\ reversals' = Counted(reversals, b, valid)
  /\ UNCHANGED <<admin, EscrowCounter, UserEscrows, releases, sequence>>

BatchReleaseEscrows(caller, b) ==
  LET valid == {e \in Ids : ValidRelease(caller, e)} IN
  /\ admin # NoAddress
  /\ BatchSize(b)
  /\ releases.batches < MaxBatchCalls
  /\ PayBatch(b, valid, [e \in Ids |-> escrow[e].recipient])
  /\ escrow' = Settled(b, valid, "Released")
  /\ releases' = Counted(releases, b, valid)
  /\ UNCHANGED <<admin, EscrowCounter, UserEscrows, reversals, sequence>>

SetAdmin(current_admin, new_admin) ==
  /\ admin # NoAddress
  /\ current_admin = admin
  /\ admin' = new_admin
  /\ UNCHANGED <<escrow, EscrowCounter, UserEscrows, reversals, releases, wallet, sequence>>

CloseLedger ==
  /\ sequence < MaxLedger
  /\ sequence' = sequence + 1
  /\ UNCHANGED <<admin, escrow, EscrowCounter, UserEscrows, reversals, releases, wallet>>

Next ==
  \/ \E a \in Users : Initialize(a)
  \/ EscrowCounter < MaxEscrows /\ \E t \in Terms : CreateEscrow(t)
  \/ \E c \in Users, e \in Ids : ReleaseEscrow(c, e)
  \/ \E c \in Users, b \in Batches : BatchReverseEscrows(c, b)
  \/ \E c \in Users, b \in Batches : BatchReleaseEscrows(c, b)
  \/ \E c, a \in Users : SetAdmin(c, a)
  \/ CloseLedger

Spec == Init /\ [][Next]_vars

------------------------------------------------------------------------------
\* Every reachable state is well formed: the records are numbered 1, 2, ...,
\* EscrowCounter and every record keeps a positive amount.
TypeOK ==
  /\ admin \in Users \cup {NoAddress}
  /\ EscrowCounter \in Nat
  /\ escrow \in [1..EscrowCounter -> EscrowRecord]
  /\ UserEscrows \in [Users -> Seq(Nat)]
  /\ reversals \in Statistics
  /\ releases \in Statistics
  /\ wallet \in [Accounts -> Nat]
  /\ sequence \in Nat

\* A request vector that asks for no escrow twice.
RepeatFree(b) == \A i, j \in 1..Len(b) : b[i] = b[j] => i = j

\* The contract holds at least the tokens of all its Active escrows
\* (EscrowStatus::Active is "Funds locked"): however releases, reversals and
\* partly failing batches interleave, no escrow is paid from another's funds.
Solvent == wallet[Contract] >= SumTo(Masked(AmountOf, ActiveIds), EscrowCounter)

\* No call ever drops an escrow, changes its terms, or takes it out of
\* Released or Reversed: a batch that was validated before another settlement
\* of the same escrow must not overwrite it.
KeepsSettlements ==
  \A e \in Ids : /\ e \in Ids'
                 /\ [escrow'[e] EXCEPT !.status = escrow[e].status] = escrow[e]
                 /\ escrow[e].status # "Active" => escrow'[e].status = escrow[e].status
SettlementIsFinal == [][KeepsSettlements]_vars

\* The reversal totals are exactly the reversed escrows and their amounts, and
\* the release totals never exceed the released ones (release_escrow leaves
\* them alone), although failed requests are counted in the same loop.
StatisticsAgree ==
  LET With(st) == {e \in Ids : escrow[e].status = st}
      Worth(st) == SumTo(Masked(AmountOf, With(st)), EscrowCounter)
  IN  /\ reversals.escrows = Cardinality(With("Reversed"))
      /\ reversals.amount = Worth("Reversed")
      /\ releases.escrows <= Cardinality(With("Released"))
      /\ releases.amount <= Worth("Released")

\* get_user_escrows lists a depositor's escrows, each once, in creation order.
IndexIsComplete ==
  \A u \in Users :
    /\ {UserEscrows[u][i] : i \in DOMAIN UserEscrows[u]} = {e \in Ids : escrow[e].depositor = u}
    /\ \A i, j \in DOMAIN UserEscrows[u] : i < j => UserEscrows[u][i] < UserEscrows[u][j]

\* Totals, statuses and indexes are five copies of one history; a batch that
\* part-fails keeps them all in step.
BooksAgree == StatisticsAgree /\ IndexIsComplete

\* Funds are never stuck: at any time the admin, and the depositor alone, can
\* still release every Active escrow; in particular the contract can pay it.
AlwaysReleasable ==
  \A e \in ActiveIds : /\ ENABLED ReleaseEscrow(admin, e)
                       /\ ENABLED ReleaseEscrow(escrow[e].depositor, e)

\* Escrow implements EscrowLedger: a deal is the terms of an escrow, and the
\* status of the escrow is its outcome.
DealOf(e) == [depositor |-> escrow[e].depositor, recipient |-> escrow[e].recipient,
              amount |-> escrow[e].amount]
OutcomeOf(e) == IF escrow[e].status = "Active" THEN "open"
                ELSE IF escrow[e].status = "Released" THEN "paid" ELSE "refunded"
Promise == INSTANCE EscrowLedger WITH
  deals <- [e \in Ids |-> DealOf(e)], outcome <- [e \in Ids |-> OutcomeOf(e)],
  account <- wallet

\* Calls settle every deal at most once, with its amount, in favour of its payee.
ImplementsLedger == Promise!Spec
===============================================================================
