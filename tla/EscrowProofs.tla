----------------------------- MODULE EscrowProofs -----------------------------
(***************************************************************************)
(* Proofs about Escrow.tla for every set of users, terms, request vectors  *)
(* and bounds: type correctness, the finality of settlements and, when no  *)
(* request vector repeats an escrow id, solvency, the implementation of    *)
(* EscrowLedger and the agreement of totals, statuses and indexes.         *)
(***************************************************************************)
EXTENDS Escrow, SumTheorems, FiniteSetTheorems

\* TypeOK is not inductive: initialize resets EscrowCounter, which is harmless
\* only because no escrow can exist before it.
TypeInv == TypeOK /\ (admin = NoAddress => EscrowCounter = 0)

------------------------------------------------------------------------------
\* Facts about request vectors.

\* due lists, by position, what the vector b of length k makes of the amounts
\* of the n records: the amount of a valid request, and 0 for any other; settled
\* is the set of the valid requests of b, none of which b repeats.
DueOnce(due, k, b, valid, settled, amt, n) ==
  /\ n \in Nat /\ k \in Nat
  /\ amt \in [1..n -> Nat]
  /\ b \in [1..k -> Nat]
  /\ valid \in SUBSET (1..n)
  /\ \A i, j \in 1..k : b[i] = b[j] => i = j
  /\ due \in [1..k -> Int]
  /\ \A i \in 1..k : due[i] = IF b[i] \in valid THEN amt[b[i]] ELSE 0
  /\ settled = {e \in valid : \E i \in 1..k : b[i] = e}

\* The amounts a repeat-free vector asks for are the amounts of the set of
\* escrows it settles: the loop of the second pass pays each of them once.
LEMMA RepeatFreeTotal ==
  ASSUME NEW due, NEW k, NEW b, NEW valid, NEW settled, NEW amt, NEW n,
         DueOnce(due, k, b, valid, settled, amt, n)
  PROVE  SumTo(due, k) = SumTo(Masked(amt, settled), n)
<1>0. /\ n \in Nat /\ k \in Nat /\ amt \in [1..n -> Nat]
      /\ b \in [1..k -> Nat] /\ valid \in SUBSET (1..n)
      /\ due \in [1..k -> Int]
      /\ \A i, j \in 1..k : b[i] = b[j] => i = j
      /\ \A i \in 1..k : due[i] = IF b[i] \in valid THEN amt[b[i]] ELSE 0
  BY DEF DueOnce
<1> DEFINE T(m) == {e \in valid : \E i \in 1..m : b[i] = e}
           S == {m \in Nat : m <= k => SumTo(due, m) = SumTo(Masked(amt, T(m)), n)}
<1>1. 0 \in S
  <2>1. \A e \in 1..n : Masked(amt, T(0))[e] = 0
    BY <1>0 DEF Masked
  <2>2. SumTo(Masked(amt, T(0)), n) = 0
    BY <1>0, <2>1, SumOfZeros
  <2>3. SumTo(due, 0) = 0
    BY SumZero
  <2> QED
    BY <2>2, <2>3
<1>2. ASSUME NEW m \in Nat, m \in S PROVE m + 1 \in S
  <2>1. SUFFICES ASSUME m + 1 <= k
                 PROVE  SumTo(due, m + 1) = SumTo(Masked(amt, T(m + 1)), n)
    OBVIOUS
  <2>2. SumTo(due, m) = SumTo(Masked(amt, T(m)), n)
    BY <1>0, <1>2, <2>1
  <2>3. SumTo(due, m + 1) = SumTo(due, m) + due[m + 1]
    <3>1. \A i \in 1..(m + 1) : due[i] \in Int
      BY <1>0, <2>1
    <3> QED
      BY <3>1, SumStep
  <2>4. SumTo(due, m) \in Int
    <3>1. \A i \in 1..m : due[i] \in Int
      BY <1>0, <2>1
    <3> QED
      BY <3>1, SumType
  <2>5. m + 1 \in 1..k /\ \A i : i \in 1..(m + 1) <=> i \in 1..m \/ i = m + 1
    BY <1>0, <2>1
  <2> DEFINE j == b[m + 1]
             Tm == T(m)
             Tn == T(m + 1)
  <2>6. Tn = Tm \cup {e \in valid : e = j}
    BY <1>0, <2>5
  <2>7. j \in Nat /\ due[m + 1] = IF j \in valid THEN amt[j] ELSE 0
    BY <1>0, <2>5
  <2>8. j \notin Tm
    <3>1. ASSUME NEW i \in 1..m PROVE b[i] # b[m + 1]
      <4>1. i \in 1..k /\ i # m + 1
        BY <1>0, <2>1
      <4> QED
        BY <1>0, <2>5, <4>1
    <3> QED
      BY <3>1
  <2>9. SumTo(due, m) = SumTo(Masked(amt, Tm), n)
    BY <2>2
  <2> HIDE DEF j, Tm, Tn
  <2>10. CASE j \in valid
    <3>1. Tn = Tm \cup {j} /\ j \in (1..n) \ Tm
      BY <1>0, <2>6, <2>8, <2>10
    <3>2. n \in Nat /\ amt \in [1..n -> Int]
      BY <1>0
    <3>3. SumTo(Masked(amt, Tm \cup {j}), n) = SumTo(Masked(amt, Tm), n) + amt[j]
      BY <3>1, <3>2, MaskedJoin
    <3>4. SumTo(due, m + 1) = SumTo(Masked(amt, Tn), n)
      BY <1>0, <2>3, <2>7, <2>9, <2>10, <3>1, <3>3
    <3> QED
      BY <3>4 DEF Tn
  <2>11. CASE j \notin valid
    <3>1. Tn = Tm
      BY <2>6, <2>11
    <3>2. SumTo(due, m + 1) = SumTo(Masked(amt, Tn), n)
      BY <2>3, <2>4, <2>7, <2>9, <2>11, <3>1
    <3> QED
      BY <3>2 DEF Tn
  <2> QED
    BY <2>10, <2>11
<1> HIDE DEF S
<1>3. k \in S
  BY <1>0, <1>1, <1>2, NatSetInduction
<1>4. SumTo(due, k) = SumTo(Masked(amt, T(k)), n)
  BY <1>0, <1>3 DEF S
<1>5. settled = T(k)
  BY DEF DueOnce
<1> QED
  BY <1>4, <1>5

\* If each payment is covered when its turn comes, they are covered together.
LEMMA CoveredInTurn ==
  ASSUME NEW k \in Nat, NEW have \in Nat, NEW pay \in [1..k -> Nat],
         \A i \in 1..k : pay[i] > 0 => have - SumTo(pay, i - 1) >= pay[i]
  PROVE  have - SumTo(pay, k) \in Nat
<1> DEFINE S == {m \in Nat : m <= k => have - SumTo(pay, m) \in Nat}
<1>1. 0 \in S
  BY SumZero
<1>2. ASSUME NEW m \in Nat, m \in S PROVE m + 1 \in S
  <2>1. SUFFICES ASSUME m + 1 <= k PROVE have - SumTo(pay, m + 1) \in Nat
    OBVIOUS
  <2>2. have - SumTo(pay, m) \in Nat
    BY <1>2, <2>1
  <2>3. SumTo(pay, m + 1) = SumTo(pay, m) + pay[m + 1] /\ SumTo(pay, m) \in Int
    <3>1. \A i \in 1..(m + 1) : pay[i] \in Int
      BY <2>1
    <3> QED
      BY <3>1, SumStep, SumType
  <2>4. m + 1 \in 1..k /\ (m + 1) - 1 = m /\ pay[m + 1] \in Nat
    BY <2>1
  <2>5. CASE pay[m + 1] > 0
    <3>1. have - SumTo(pay, (m + 1) - 1) >= pay[m + 1]
      BY <2>4, <2>5
    <3> QED
      BY <2>2, <2>3, <2>4, <3>1
  <2>6. CASE ~ (pay[m + 1] > 0)
    BY <2>2, <2>3, <2>4, <2>6
  <2> QED
    BY <2>5, <2>6
<1> HIDE DEF S
<1>3. k \in S
  BY <1>1, <1>2, NatSetInduction
<1> QED
  BY <1>3 DEF S

------------------------------------------------------------------------------
\* The second pass of a batch, from any well-formed state.

\* No account is overdrawn, and the contract parts with no more than the
\* amounts of the requests that were found valid.
LEMMA PayBatchWallet ==
  ASSUME TypeOK, NEW b \in Batches, NEW valid \in SUBSET Ids,
         NEW payee \in [Ids -> Accounts], PayBatch(b, valid, payee)
  PROVE  /\ wallet' \in [Accounts -> Nat]
         /\ wallet'[Contract] >= wallet[Contract] - SumTo(Due(b, valid), Len(b))
<1> DEFINE k == Len(b)
           out == DueOut(b, valid, payee)
           due == Due(b, valid)
<1>1. k \in Nat /\ b \in [1..k -> Nat]
  BY InputAssumption
<1>2. Ids = 1..EscrowCounter /\ \A e \in valid : escrow[e].amount \in Nat
  BY DEF TypeOK, Ids, EscrowRecord
<1>3. out \in [1..k -> Nat] /\ due \in [1..k -> Nat]
  BY <1>1, <1>2 DEF Due, DueOut
<1>4. \A i \in 1..k : out[i] <= due[i]
  BY <1>1, <1>2 DEF Due, DueOut
<1>5. wallet[Contract] \in Nat /\ Contract \in Accounts
  BY DEF TypeOK, Accounts
<1>6. ASSUME NEW i \in 1..k, out[i] > 0
      PROVE  wallet[Contract] - SumTo(out, i - 1) >= out[i]
  <2>1. b[i] \in valid /\ out[i] = escrow[b[i]].amount
    BY <1>6 DEF DueOut
  <2> QED
    BY <2>1 DEF PayBatch
<1>7. wallet[Contract] - SumTo(out, k) \in Nat
  <2> HIDE DEF k, out
  <2> QED
    BY <1>1, <1>3, <1>5, <1>6, CoveredInTurn
<1>8. wallet'[Contract] = wallet[Contract] - SumTo(out, k)
  BY <1>5 DEF PayBatch
<1>9. ASSUME NEW u \in Accounts, u # Contract PROVE wallet'[u] \in Nat
  <2> DEFINE inc == DueTo(b, valid, payee, u)
  <2>1. \A i \in 1..k : inc[i] \in Nat
    BY <1>1, <1>2 DEF DueTo
  <2>2. wallet'[u] = wallet[u] + SumTo(inc, k)
    BY <1>9 DEF PayBatch
  <2>3. wallet[u] \in Nat
    BY DEF TypeOK
  <2> HIDE DEF inc, k
  <2>4. SumTo(inc, k) \in Nat
    BY <1>1, <2>1, SumNat
  <2> QED
    BY <2>2, <2>3, <2>4
<1>10. wallet' \in [Accounts -> Nat]
  <2>1. wallet' = [u \in Accounts |-> wallet'[u]]
    BY DEF PayBatch
  <2>2. \A u \in Accounts : wallet'[u] \in Nat
    BY <1>7, <1>8, <1>9
  <2> QED
    BY <2>1, <2>2
<1>11. SumTo(out, k) <= SumTo(due, k) /\ SumTo(out, k) \in Int /\ SumTo(due, k) \in Int
  <2> HIDE DEF k, out, due
  <2>1. \A i \in 1..k : out[i] \in Int /\ due[i] \in Int /\ out[i] <= due[i]
    BY <1>3, <1>4
  <2> QED
    BY <1>1, <2>1, SumMonotone, SumType
<1> HIDE DEF out, due, k
<1>12. wallet'[Contract] >= wallet[Contract] - SumTo(due, k)
  BY <1>5, <1>8, <1>11
<1> QED
  BY <1>10, <1>12 DEF due, k

\* The counters a batch adds up are natural numbers.
LEMMA BatchCounts ==
  ASSUME TypeOK, NEW b \in Batches, NEW valid \in SUBSET Ids
  PROVE  Successes(b, valid) \in Nat /\ SumTo(Due(b, valid), Len(b)) \in Nat
<1> DEFINE k == Len(b)
           due == Due(b, valid)
<1>1. k \in Nat /\ b \in [1..k -> Nat]
  BY InputAssumption
<1>2. \A i \in 1..k : due[i] \in Nat
  BY <1>1 DEF Due, TypeOK, Ids, EscrowRecord
<1>3. SumTo(due, k) \in Nat
  <2> HIDE DEF due, k
  <2> QED
    BY <1>1, <1>2, SumNat
<1>4. IsFiniteSet(1..k)
  BY <1>1, FS_Interval
<1>5. IsFiniteSet({i \in 1..k : b[i] \in valid})
  BY <1>4, FS_Subset
<1>6. Successes(b, valid) \in Nat
  BY <1>5, FS_CardinalityType DEF Successes
<1> QED
  BY <1>3, <1>6

\* Settling keeps every record and only moves statuses.
LEMMA SettledType ==
  ASSUME TypeOK, NEW b, NEW valid, NEW status \in EscrowStatus
  PROVE  Settled(b, valid, status) \in [1..EscrowCounter -> EscrowRecord]
BY DEF TypeOK, Settled, Ids, EscrowRecord

------------------------------------------------------------------------------
\* Type correctness.

LEMMA TypeInvInit == Init => TypeInv
<1> SUFFICES ASSUME Init PROVE TypeInv
  OBVIOUS
<1>1. escrow \in [1..EscrowCounter -> EscrowRecord]
  BY DEF Init
<1> QED
  BY <1>1, InputAssumption
  DEF Init, TypeInv, TypeOK, ZeroStatistics, Statistics, Accounts

LEMMA TypeInvNext == TypeInv /\ [Next]_vars => TypeInv'
<1> SUFFICES ASSUME TypeInv, [Next]_vars PROVE TypeInv'
  OBVIOUS
<1> USE DEF TypeInv, TypeOK
<1>0. Ids = 1..EscrowCounter
  BY DEF Ids
<1>1. ASSUME NEW a \in Users, Initialize(a) PROVE TypeInv'
  BY <1>1, AddressAssumption DEF Initialize, ZeroStatistics, Statistics, Accounts
<1>2. ASSUME NEW t \in Terms, CreateEscrow(t) PROVE TypeInv'
  <2>1. t \in TermsRecord
    BY InputAssumption
  <2>2. wallet' \in [Accounts -> Nat]
    BY <1>2, <2>1, AddressAssumption DEF CreateEscrow, Transfer, TermsRecord, Accounts
  <2>3. /\ EscrowCounter' = EscrowCounter + 1
        /\ admin' = admin /\ sequence' = sequence
        /\ reversals' = reversals /\ releases' = releases /\ admin # NoAddress
    BY <1>2 DEF CreateEscrow, StoreEscrow
  <2>4. escrow' \in [1..EscrowCounter' -> EscrowRecord]
    <3>1. Ids \cup {EscrowCounter + 1} = 1..(EscrowCounter + 1)
      BY <1>0
    <3>2. [depositor |-> t.depositor, recipient |-> t.recipient,
           arbiter |-> t.arbiter, amount |-> t.amount,
           deadline |-> t.deadline, status |-> "Active"] \in EscrowRecord
      BY <1>2, <2>1 DEF CreateEscrow, TermsRecord, EscrowRecord, EscrowStatus
    <3> QED
      BY <1>2, <2>3, <3>1, <3>2 DEF CreateEscrow, StoreEscrow, Ids
  <2>5. UserEscrows' \in [Users -> Seq(Nat)]
    BY <1>2, <2>1 DEF CreateEscrow, TermsRecord
  <2> QED
    BY <2>2, <2>3, <2>4, <2>5
<1>3. ASSUME NEW c \in Users, NEW e \in Ids, ReleaseEscrow(c, e) PROVE TypeInv'
  <2>1. escrow[e] \in EscrowRecord
    BY <1>0
  <2>2. wallet' \in [Accounts -> Nat]
    <3> DEFINE amount == escrow[e].amount
    <3>1. wallet' = Transfer(wallet, Contract, escrow[e].recipient, amount)
      BY <1>3 DEF ReleaseEscrow
    <3>2. amount \in Nat /\ wallet[Contract] >= amount
      BY <1>3, <2>1 DEF ReleaseEscrow, EscrowRecord
    <3> HIDE DEF amount
    <3> QED
      BY <3>1, <3>2 DEF Transfer
  <2>3. escrow' \in [1..EscrowCounter' -> EscrowRecord]
    BY <1>0, <1>3 DEF ReleaseEscrow, EscrowRecord, EscrowStatus
  <2> QED
    BY <1>3, <2>2, <2>3 DEF ReleaseEscrow
<1>4. ASSUME NEW c \in Users, NEW b \in Batches, BatchReverseEscrows(c, b) PROVE TypeInv'
  <2> DEFINE valid == {e \in Ids : ValidReversal(c, e)}
             payee == [e \in Ids |-> escrow[e].depositor]
  <2>1. /\ PayBatch(b, valid, payee)
        /\ escrow' = Settled(b, valid, "Reversed")
        /\ reversals' = Counted(reversals, b, valid)
        /\ UNCHANGED <<admin, EscrowCounter, UserEscrows, releases, sequence>>
        /\ admin # NoAddress
    BY <1>4 DEF BatchReverseEscrows
  <2>2. payee \in [Ids -> Accounts]
    BY <1>0 DEF EscrowRecord, Accounts
  <2>3. valid \in SUBSET Ids
    OBVIOUS
  <2> HIDE DEF valid, payee
  <2>4. wallet' \in [Accounts -> Nat]
    BY <2>1, <2>2, <2>3, PayBatchWallet
  <2>5. escrow' \in [1..EscrowCounter' -> EscrowRecord]
    BY <2>1, SettledType DEF EscrowStatus
  <2>6. Successes(b, valid) \in Nat /\ SumTo(Due(b, valid), Len(b)) \in Nat
    BY <2>3, BatchCounts
  <2>7. reversals' \in Statistics
    BY <2>1, <2>6 DEF Statistics, Counted
  <2> QED
    BY <2>1, <2>4, <2>5, <2>7
<1>5. ASSUME NEW c \in Users, NEW b \in Batches, BatchReleaseEscrows(c, b) PROVE TypeInv'
  <2> DEFINE valid == {e \in Ids : ValidRelease(c, e)}
             payee == [e \in Ids |-> escrow[e].recipient]
  <2>1. /\ PayBatch(b, valid, payee)
        /\ escrow' = Settled(b, valid, "Released")
        /\ releases' = Counted(releases, b, valid)
        /\ UNCHANGED <<admin, EscrowCounter, UserEscrows, reversals, sequence>>
        /\ admin # NoAddress
    BY <1>5 DEF BatchReleaseEscrows
  <2>2. payee \in [Ids -> Accounts]
    BY <1>0 DEF EscrowRecord
  <2>3. valid \in SUBSET Ids
    OBVIOUS
  <2> HIDE DEF valid, payee
  <2>4. wallet' \in [Accounts -> Nat]
    BY <2>1, <2>2, <2>3, PayBatchWallet
  <2>5. escrow' \in [1..EscrowCounter' -> EscrowRecord]
    BY <2>1, SettledType DEF EscrowStatus
  <2>6. Successes(b, valid) \in Nat /\ SumTo(Due(b, valid), Len(b)) \in Nat
    BY <2>3, BatchCounts
  <2>7. releases' \in Statistics
    BY <2>1, <2>6 DEF Statistics, Counted
  <2> QED
    BY <2>1, <2>4, <2>5, <2>7
<1>6. ASSUME NEW c \in Users, NEW a \in Users, SetAdmin(c, a) PROVE TypeInv'
  BY <1>6, AddressAssumption DEF SetAdmin, Accounts
<1>7. CASE CloseLedger
  BY <1>7 DEF CloseLedger
<1>8. CASE UNCHANGED vars
  BY <1>8 DEF vars
<1> QED
  BY <1>1, <1>2, <1>3, <1>4, <1>5, <1>6, <1>7, <1>8 DEF Next

\* In every reachable state of the contract, for all users, terms and request
\* vectors (repeated ids included), balances are never negative and records
\* are numbered 1..EscrowCounter.
THEOREM TypeCorrect == Spec => []TypeOK
<1>1. TypeInv => TypeOK
  BY DEF TypeInv
<1> QED
  BY <1>1, TypeInvInit, TypeInvNext, PTL DEF Spec

------------------------------------------------------------------------------
\* Solvency.

\* What the Active escrows hold, as a total over 1..EscrowCounter.
Locked == SumTo(Masked(AmountOf, ActiveIds), EscrowCounter)

LEMMA AmountsType ==
  ASSUME TypeOK
  PROVE  /\ EscrowCounter \in Nat
         /\ Ids = 1..EscrowCounter
         /\ AmountOf \in [1..EscrowCounter -> Nat]
         /\ AmountOf \in [1..EscrowCounter -> Int]
         /\ ActiveIds \subseteq 1..EscrowCounter
         /\ wallet[Contract] \in Nat
         /\ Locked \in Int
<1>1. /\ Ids = 1..EscrowCounter /\ EscrowCounter \in Nat
      /\ AmountOf \in [1..EscrowCounter -> Nat]
      /\ AmountOf \in [1..EscrowCounter -> Int]
  BY DEF TypeOK, Ids, AmountOf, EscrowRecord
<1>2. ActiveIds \subseteq 1..EscrowCounter
  BY <1>1 DEF ActiveIds
<1>3. wallet[Contract] \in Nat
  BY DEF TypeOK, Accounts
<1>4. \A e \in 1..EscrowCounter : Masked(AmountOf, ActiveIds)[e] \in Int
  BY <1>1 DEF Masked
<1>5. Locked \in Int
  BY <1>1, <1>4, SumType DEF Locked
<1> QED
  BY <1>1, <1>2, <1>3, <1>5

\* A batch without repeats takes from the contract no more than it takes out
\* of Locked.
LEMMA SettleSolvent ==
  ASSUME TypeOK, Solvent, NEW b \in Batches, RepeatFree(b),
         NEW valid \in SUBSET ActiveIds, NEW payee \in [Ids -> Accounts],
         PayBatch(b, valid, payee), NEW status \in {"Released", "Reversed"},
         escrow' = Settled(b, valid, status), EscrowCounter' = EscrowCounter
  PROVE  Solvent'
<1> DEFINE k == Len(b)
           due == Due(b, valid)
           T == {e \in valid : \E i \in 1..k : b[i] = e}
<1>1. k \in Nat /\ b \in [1..k -> Nat]
  BY InputAssumption
<1>2. /\ due \in [1..k -> Int]
      /\ \A i \in 1..k : due[i] = IF b[i] \in valid THEN AmountOf[b[i]] ELSE 0
      /\ SumTo(due, k) \in Int
  <2>1. \A i \in 1..k : due[i] = IF b[i] \in valid THEN AmountOf[b[i]] ELSE 0
    BY AmountsType DEF Due, AmountOf
  <2>2. due \in [1..k -> Int]
    BY <1>1, <2>1, AmountsType DEF Due
  <2> HIDE DEF due, k
  <2>3. SumTo(due, k) \in Int
    BY <1>1, <2>2, SumType
  <2> QED
    BY <2>1, <2>2, <2>3
<1>3. SumTo(due, k) = SumTo(Masked(AmountOf, T), EscrowCounter)
  <2>1. \A i, j \in 1..k : b[i] = b[j] => i = j
    BY DEF RepeatFree
  <2>2. /\ valid \in SUBSET (1..EscrowCounter)
        /\ EscrowCounter \in Nat
        /\ AmountOf \in [1..EscrowCounter -> Nat]
    BY AmountsType
  <2>3. DueOnce(due, k, b, valid, T, AmountOf, EscrowCounter)
    <3> HIDE DEF due, k
    <3> QED
      BY <1>1, <1>2, <2>1, <2>2 DEF DueOnce
  <2> HIDE DEF T, due, k
  <2> QED
    BY <2>3, RepeatFreeTotal
<1>4. T \in SUBSET ActiveIds
  OBVIOUS
<1>5. ActiveIds' = ActiveIds \ T /\ AmountOf' = AmountOf
  <2>1. Ids' = Ids
    BY DEF Settled, Ids
  <2>2. \A e \in Ids : escrow'[e] = IF e \in T THEN [escrow[e] EXCEPT !.status = status]
                                              ELSE escrow[e]
    <3>1. \A e \in Ids : e \in T <=> e \in valid /\ \E i \in 1..Len(b) : b[i] = e
      OBVIOUS
    <3> HIDE DEF T
    <3> QED
      BY <3>1 DEF Settled
  <2>3. \A e \in Ids : /\ escrow'[e].amount = escrow[e].amount
                       /\ escrow'[e].status = IF e \in T THEN status ELSE escrow[e].status
    <3> HIDE DEF T
    <3>1. TAKE e \in Ids
    <3>2. escrow[e] \in EscrowRecord
      BY DEF TypeOK, Ids
    <3>3. escrow'[e] = IF e \in T THEN [escrow[e] EXCEPT !.status = status] ELSE escrow[e]
      BY <2>2
    <3> DEFINE r == escrow[e]
    <3>4. r \in EscrowRecord
      BY <3>2
    <3> HIDE DEF r
    <3>5. /\ [r EXCEPT !.status = status].amount = r.amount
          /\ [r EXCEPT !.status = status].status = status
      BY <3>4 DEF EscrowRecord
    <3> QED
      BY <3>3, <3>5 DEF r
  <2> HIDE DEF T
  <2> QED
    BY <2>1, <2>3 DEF ActiveIds, AmountOf
<1>6. wallet'[Contract] >= wallet[Contract] - SumTo(due, k)
  <2>1. valid \in SUBSET Ids
    BY AmountsType
  <2> QED
    BY <2>1, PayBatchWallet
<1> HIDE DEF T, due, k
<1>7. Locked = SumTo(Masked(AmountOf, ActiveIds \ T), EscrowCounter)
               + SumTo(Masked(AmountOf, T), EscrowCounter)
  BY <1>4, AmountsType, MaskedSplit DEF Locked
<1>8. wallet[Contract] >= Locked
  BY DEF Solvent, Locked
<1>9. SumTo(Masked(AmountOf, ActiveIds \ T), EscrowCounter) \in Int
  <2>1. \A e \in 1..EscrowCounter : Masked(AmountOf, ActiveIds \ T)[e] \in Int
    BY AmountsType DEF Masked
  <2> QED
    BY <2>1, AmountsType, SumType
<1>10. wallet'[Contract] \in Int
  <2>1. valid \in SUBSET Ids
    BY AmountsType
  <2>2. wallet' \in [Accounts -> Nat]
    BY <2>1, PayBatchWallet
  <2> QED
    BY <2>2 DEF Accounts
<1>11. wallet'[Contract] >= SumTo(Masked(AmountOf, ActiveIds \ T), EscrowCounter)
  BY <1>2, <1>3, <1>6, <1>7, <1>8, <1>9, <1>10, AmountsType
<1> QED
  BY <1>5, <1>11 DEF Solvent

LEMMA SolventNext ==
  ASSUME \A b \in Batches : RepeatFree(b), TypeInv, Solvent, [Next]_vars
  PROVE  Solvent'
<1>0. /\ TypeOK
      /\ wallet[Contract] >= Locked
  BY DEF TypeInv, Solvent, Locked
<1>1. ASSUME NEW a \in Users, Initialize(a) PROVE Solvent'
  <2>1. EscrowCounter = 0 /\ EscrowCounter' = EscrowCounter
    BY <1>1 DEF Initialize, TypeInv
  <2> QED
    BY <1>1, <2>1 DEF Initialize, Solvent, AmountOf, ActiveIds, Ids
<1>2. ASSUME NEW t \in Terms, CreateEscrow(t) PROVE Solvent'
  <2> DEFINE n == EscrowCounter
             new == Masked(AmountOf', ActiveIds')
             old == Masked(AmountOf, ActiveIds)
  <2>1. t \in TermsRecord /\ t.amount > 0
    BY <1>2, InputAssumption DEF CreateEscrow
  <2>2. wallet'[Contract] = wallet[Contract] + t.amount
    <3>1. t.depositor # Contract /\ Contract \in Accounts /\ t.amount \in Int
      BY <2>1, AddressAssumption DEF TermsRecord, Accounts
    <3>2. wallet' = Transfer(wallet, t.depositor, Contract, t.amount)
      BY <1>2 DEF CreateEscrow
    <3>3. wallet[Contract] \in Nat
      BY <1>0, AmountsType
    <3> DEFINE amount == t.amount
    <3> HIDE DEF amount
    <3>4. wallet'[Contract] = wallet[Contract] + amount
      BY <3>1, <3>2, <3>3 DEF Transfer, amount
    <3> QED
      BY <3>4 DEF amount
  <2>3. /\ EscrowCounter' = n + 1 /\ Ids' = 1..(n + 1)
        /\ \A e \in 1..n : escrow'[e] = escrow[e]
        /\ escrow'[n + 1].amount = t.amount /\ escrow'[n + 1].status = "Active"
    <3>1. Ids = 1..n /\ n \in Nat
      BY <1>0, AmountsType
    <3>2. Ids \cup {n + 1} = 1..(n + 1)
      BY <3>1
    <3>3. EscrowCounter' = n + 1
      BY <1>2 DEF CreateEscrow, StoreEscrow
    <3>4. escrow' = [e \in 1..(n + 1) |->
                  IF e = n + 1
                  THEN [depositor |-> t.depositor, recipient |-> t.recipient,
                        arbiter |-> t.arbiter, amount |-> t.amount,
                        deadline |-> t.deadline, status |-> "Active"]
                  ELSE escrow[e]]
      BY <1>2, <3>2 DEF CreateEscrow, StoreEscrow
    <3>5. \A e \in 1..n : e \in 1..(n + 1) /\ e # n + 1
      BY <3>1
    <3>6. n + 1 \in 1..(n + 1)
      BY <3>1
    <3> QED
      BY <3>3, <3>4, <3>5, <3>6 DEF Ids
  <2>4. /\ \A e \in 1..(n + 1) : new[e] \in Int
        /\ \A e \in 1..n : new[e] = old[e]
        /\ new[n + 1] = t.amount
    <3>1. n \in Nat /\ Ids = 1..n /\ t.amount \in Int
      BY <1>0, <2>1, AmountsType DEF TermsRecord
    <3>2. \A e \in 1..n : escrow[e].amount \in Int
      BY <1>0 DEF TypeOK, EscrowRecord
    <3>3. \A e \in 1..n : new[e] = old[e] /\ new[e] \in Int
      BY <2>3, <3>1, <3>2 DEF Masked, AmountOf, ActiveIds
    <3>4. n + 1 \in 1..(n + 1) /\ \A e \in 1..(n + 1) : e \in 1..n \/ e = n + 1
      BY <3>1
    <3>5. new[n + 1] = t.amount
      BY <2>3, <3>4 DEF Masked, AmountOf, ActiveIds
    <3> QED
      BY <3>1, <3>3, <3>4, <3>5
  <2>5. n \in Nat /\ Locked \in Int /\ Locked = SumTo(old, n) /\ t.amount \in Int
    BY <1>0, <2>1, AmountsType DEF Locked, TermsRecord
  <2> HIDE DEF n, new, old
  <2>6. SumTo(new, n + 1) = SumTo(new, n) + new[n + 1]
    BY <2>4, <2>5, SumStep
  <2>7. SumTo(new, n) = SumTo(old, n)
    <3>1. \A e \in 1..n : new[e] \in Int
      BY <2>4, <2>5
    <3> QED
      BY <2>4, <2>5, <3>1, SumCongruence
  <2>8. wallet'[Contract] >= SumTo(new, n + 1)
    BY <1>0, <2>2, <2>4, <2>5, <2>6, <2>7, AmountsType
  <2> QED
    BY <2>3, <2>8 DEF Solvent, n, new
<1>3. ASSUME NEW c \in Users, NEW e \in Ids, ReleaseEscrow(c, e) PROVE Solvent'
  <2>1. /\ e \in ActiveIds /\ EscrowCounter' = EscrowCounter
        /\ escrow' = [escrow EXCEPT ![e].status = "Released"]
    BY <1>3 DEF ReleaseEscrow, ActiveIds
  <2>2. ActiveIds' = ActiveIds \ {e} /\ AmountOf' = AmountOf
    BY <1>0, <2>1 DEF ActiveIds, AmountOf, Ids, TypeOK, EscrowRecord
  <2>3. Locked = SumTo(Masked(AmountOf, ActiveIds \ {e}), EscrowCounter) + AmountOf[e]
    <3>1. e \in (1..EscrowCounter) \ (ActiveIds \ {e})
      BY <1>0, <2>1, AmountsType
    <3>2. (ActiveIds \ {e}) \cup {e} = ActiveIds
      BY <2>1
    <3>3. EscrowCounter \in Nat /\ AmountOf \in [1..EscrowCounter -> Int]
      BY <1>0, AmountsType
    <3> DEFINE R == ActiveIds \ {e}
               n == EscrowCounter
               f == AmountOf
    <3>4. n \in Nat /\ f \in [1..n -> Int] /\ e \in (1..n) \ R
      BY <3>1, <3>3
    <3> HIDE DEF R, n, f
    <3>5. SumTo(Masked(f, R \cup {e}), n) = SumTo(Masked(f, R), n) + f[e]
      BY <3>4, MaskedJoin
    <3> QED
      BY <3>2, <3>5 DEF Locked, R, n, f
  <2>4. wallet'[Contract] >= wallet[Contract] - AmountOf[e] /\ wallet'[Contract] \in Int
    <3> DEFINE amount == escrow[e].amount
    <3>1. wallet' = Transfer(wallet, Contract, escrow[e].recipient, amount)
      BY <1>3 DEF ReleaseEscrow
    <3>2. amount \in Nat /\ AmountOf[e] = amount /\ Contract \in Accounts
      BY <1>0, AmountsType DEF AmountOf, Accounts
    <3> HIDE DEF amount
    <3> QED
      BY <1>0, <3>1, <3>2, AmountsType DEF Transfer
  <2>5. /\ SumTo(Masked(AmountOf, ActiveIds \ {e}), EscrowCounter) \in Int
        /\ AmountOf[e] \in Int
    <3>1. \A x \in 1..EscrowCounter : Masked(AmountOf, ActiveIds \ {e})[x] \in Int
      BY <1>0, AmountsType DEF Masked
    <3> QED
      BY <1>0, <3>1, AmountsType, SumType
  <2>6. wallet'[Contract] >= SumTo(Masked(AmountOf, ActiveIds \ {e}), EscrowCounter)
    BY <1>0, <2>3, <2>4, <2>5, AmountsType
  <2> QED
    BY <2>1, <2>2, <2>6 DEF Solvent
<1>4. ASSUME NEW c \in Users, NEW b \in Batches, BatchReverseEscrows(c, b) PROVE Solvent'
  <2> DEFINE valid == {e \in Ids : ValidReversal(c, e)}
             payee == [e \in Ids |-> escrow[e].depositor]
  <2>1. /\ PayBatch(b, valid, payee)
        /\ escrow' = Settled(b, valid, "Reversed")
        /\ EscrowCounter' = EscrowCounter
    BY <1>4 DEF BatchReverseEscrows
  <2>2. valid \in SUBSET ActiveIds /\ payee \in [Ids -> Accounts]
    BY <1>0 DEF ValidReversal, ActiveIds, TypeOK, EscrowRecord, Accounts, Ids
  <2> HIDE DEF valid, payee
  <2> QED
    BY <1>0, <2>1, <2>2, SettleSolvent
<1>5. ASSUME NEW c \in Users, NEW b \in Batches, BatchReleaseEscrows(c, b) PROVE Solvent'
  <2> DEFINE valid == {e \in Ids : ValidRelease(c, e)}
             payee == [e \in Ids |-> escrow[e].recipient]
  <2>1. /\ PayBatch(b, valid, payee)
        /\ escrow' = Settled(b, valid, "Released")
        /\ EscrowCounter' = EscrowCounter
    BY <1>5 DEF BatchReleaseEscrows
  <2>2. valid \in SUBSET ActiveIds /\ payee \in [Ids -> Accounts]
    BY <1>0 DEF ValidRelease, ActiveIds, TypeOK, EscrowRecord, Ids
  <2> HIDE DEF valid, payee
  <2> QED
    BY <1>0, <2>1, <2>2, SettleSolvent
<1>6. ASSUME NEW c \in Users, NEW a \in Users, SetAdmin(c, a) PROVE Solvent'
  BY <1>6 DEF SetAdmin, Solvent, AmountOf, ActiveIds, Ids
<1>7. CASE CloseLedger
  BY <1>7 DEF CloseLedger, Solvent, AmountOf, ActiveIds, Ids
<1>8. CASE UNCHANGED vars
  BY <1>8 DEF vars, Solvent, AmountOf, ActiveIds, Ids
<1> QED
  BY <1>1, <1>2, <1>3, <1>4, <1>5, <1>6, <1>7, <1>8 DEF Next

\* If no request vector repeats an escrow id, the contract can always pay every
\* Active escrow.  (With repeats the statement is false: EscrowRepeats.cfg.)
THEOREM Solvency ==
  ASSUME \A b \in Batches : RepeatFree(b)
  PROVE  Spec => []Solvent
<1>1. Init => Solvent
  <2> SUFFICES ASSUME Init PROVE Solvent
    OBVIOUS
  <2>1. TypeInv /\ EscrowCounter = 0
    BY TypeInvInit DEF Init
  <2>2. SumTo(Masked(AmountOf, ActiveIds), EscrowCounter) = 0
    BY <2>1, SumZero
  <2> QED
    BY <2>1, <2>2, AmountsType DEF Solvent, TypeInv
<1>2. TypeInv /\ Solvent /\ [Next]_vars => Solvent'
  BY SolventNext
<1> QED
  BY <1>1, <1>2, TypeInvInit, TypeInvNext, PTL DEF Spec

------------------------------------------------------------------------------
\* Settlements are final.

\* Rewriting the status of a record leaves its terms as they were.
LEMMA StatusUpdate ==
  ASSUME NEW r \in EscrowRecord, NEW status \in EscrowStatus
  PROVE  /\ [r EXCEPT !.status = r.status] = r
         /\ [[r EXCEPT !.status = status] EXCEPT !.status = r.status] = r
         /\ [r EXCEPT !.status = status].status = status
BY DEF EscrowRecord

\* Both batches keep settlements, repeated ids included, because the requests
\* they act on were Active before the batch.
LEMMA SettledKeeps ==
  ASSUME TypeOK, NEW b, NEW valid \in SUBSET ActiveIds,
         NEW status \in EscrowStatus, escrow' = Settled(b, valid, status)
  PROVE  KeepsSettlements
<1> SUFFICES ASSUME NEW e \in Ids
             PROVE  /\ e \in Ids'
                    /\ [escrow'[e] EXCEPT !.status = escrow[e].status] = escrow[e]
                    /\ escrow[e].status # "Active" => escrow'[e].status = escrow[e].status
  BY DEF KeepsSettlements
<1>1. escrow[e] \in EscrowRecord
  BY DEF TypeOK, Ids
<1>2. e \in Ids'
  BY DEF Settled, Ids
<1>3. CASE escrow'[e] = escrow[e]
  BY <1>1, <1>2, <1>3, StatusUpdate DEF EscrowRecord
<1>4. CASE escrow'[e] # escrow[e]
  <2>1. escrow'[e] = [escrow[e] EXCEPT !.status = status] /\ e \in valid
    BY <1>4 DEF Settled
  <2>2. escrow[e].status = "Active"
    BY <2>1 DEF ActiveIds
  <2> QED
    BY <1>1, <1>2, <2>1, <2>2, StatusUpdate
<1> QED
  BY <1>3, <1>4

LEMMA KeepsNext ==
  ASSUME TypeInv, [Next]_vars
  PROVE  KeepsSettlements
<1>0. TypeOK /\ Ids = 1..EscrowCounter /\ \A e \in Ids : escrow[e] \in EscrowRecord
  BY DEF TypeInv, TypeOK, Ids
<1>1. ASSUME escrow' = escrow PROVE KeepsSettlements
  <2>1. \A e \in Ids : [escrow[e] EXCEPT !.status = escrow[e].status] = escrow[e]
    BY <1>0, StatusUpdate DEF EscrowRecord
  <2> QED
    BY <1>1, <2>1 DEF KeepsSettlements, Ids
<1>2. ASSUME NEW t \in Terms, CreateEscrow(t) PROVE KeepsSettlements
  <2>1. \A e \in Ids : e \in Ids' /\ escrow'[e] = escrow[e]
    <3>1. \A e \in Ids : e # EscrowCounter + 1
      BY <1>0 DEF TypeOK
    <3> QED
      BY <1>2, <3>1 DEF CreateEscrow, StoreEscrow, Ids
  <2>2. \A e \in Ids : [escrow[e] EXCEPT !.status = escrow[e].status] = escrow[e]
    BY <1>0, StatusUpdate DEF EscrowRecord
  <2> QED
    BY <2>1, <2>2 DEF KeepsSettlements
<1>3. ASSUME NEW c \in Users, NEW x \in Ids, ReleaseEscrow(c, x) PROVE KeepsSettlements
  <2>1. escrow' = [escrow EXCEPT ![x].status = "Released"] /\ escrow[x].status = "Active"
    BY <1>3 DEF ReleaseEscrow
  <2> SUFFICES ASSUME NEW e \in Ids
             PROVE  /\ e \in Ids'
                    /\ [escrow'[e] EXCEPT !.status = escrow[e].status] = escrow[e]
                    /\ escrow[e].status # "Active" => escrow'[e].status = escrow[e].status
    BY DEF KeepsSettlements
  <2>2. e \in Ids'
    BY <2>1 DEF Ids
  <2>3. CASE e = x
    <3>1. escrow'[e] = [escrow[e] EXCEPT !.status = "Released"]
      BY <2>1, <2>3 DEF Ids
    <3>2. escrow[e] \in EscrowRecord /\ "Released" \in EscrowStatus /\ escrow[e].status = "Active"
      BY <1>0, <2>1, <2>3 DEF EscrowStatus
    <3>3. [[escrow[e] EXCEPT !.status = "Released"] EXCEPT !.status = escrow[e].status] = escrow[e]
      BY <3>2, StatusUpdate
    <3> QED
      BY <2>2, <3>1, <3>2, <3>3
  <2>4. CASE e # x
    <3>1. escrow'[e] = escrow[e]
      BY <2>1, <2>4 DEF Ids
    <3> QED
      BY <1>0, <2>2, <3>1, StatusUpdate DEF EscrowRecord
  <2> QED
    BY <2>3, <2>4
<1>4. ASSUME NEW c \in Users, NEW b \in Batches, BatchReverseEscrows(c, b)
      PROVE  KeepsSettlements
  <2> DEFINE valid == {e \in Ids : ValidReversal(c, e)}
  <2>1. valid \in SUBSET ActiveIds /\ escrow' = Settled(b, valid, "Reversed")
    BY <1>4 DEF BatchReverseEscrows, ValidReversal, ActiveIds
  <2> HIDE DEF valid
  <2> QED
    BY <1>0, <2>1, SettledKeeps DEF EscrowStatus
<1>5. ASSUME NEW c \in Users, NEW b \in Batches, BatchReleaseEscrows(c, b)
      PROVE  KeepsSettlements
  <2> DEFINE valid == {e \in Ids : ValidRelease(c, e)}
  <2>1. valid \in SUBSET ActiveIds /\ escrow' = Settled(b, valid, "Released")
    BY <1>5 DEF BatchReleaseEscrows, ValidRelease, ActiveIds
  <2> HIDE DEF valid
  <2> QED
    BY <1>0, <2>1, SettledKeeps DEF EscrowStatus
<1>6. ASSUME \/ \E a \in Users : Initialize(a)
             \/ \E c, a \in Users : SetAdmin(c, a)
             \/ CloseLedger
             \/ UNCHANGED vars
      PROVE  KeepsSettlements
  <2>1. escrow' = escrow
    BY <1>6 DEF Initialize, SetAdmin, CloseLedger, vars
  <2> QED
    BY <1>1, <2>1
<1> QED
  BY <1>2, <1>3, <1>4, <1>5, <1>6 DEF Next

\* For all users, terms and request vectors, no call drops an escrow, changes
\* its terms or moves it out of Released or Reversed.
THEOREM Finality == Spec => SettlementIsFinal
<1>1. TypeInv /\ [Next]_vars => [KeepsSettlements]_vars
  BY KeepsNext
<1> QED
  BY <1>1, TypeInvInit, TypeInvNext, PTL DEF Spec, SettlementIsFinal

------------------------------------------------------------------------------
\* Refinement.

LEMMA SameCardinality == \A S : Promise!Cardinality(S) = Cardinality(S)
BY DEF Promise!Cardinality, Cardinality

LEMMA SameSums == /\ \A f, n : Promise!SumTo(f, n) = SumTo(f, n)
                  /\ \A f, S : Promise!Masked(f, S) = Masked(f, S)
BY DEF Promise!SumTo, SumTo, Promise!Masked, Masked

\* The deals of EscrowLedger are the escrows.
LEMMA DealFacts ==
  ASSUME TypeOK
  PROVE  /\ Promise!DealIds = Ids /\ Cardinality(Ids) = EscrowCounter
         /\ Promise!Amounts = AmountOf
         /\ Promise!OpenDeals = ActiveIds
         /\ Promise!Accounts = Accounts
<1>1. Ids = 1..EscrowCounter /\ EscrowCounter \in Nat
  BY AmountsType
<1>2. Cardinality(Ids) = EscrowCounter
  BY <1>1, FS_Interval
<1>3. Promise!DealIds = Ids
  BY DEF Promise!DealIds
<1>4. Promise!Amounts = AmountOf
  BY <1>3 DEF Promise!Amounts, AmountOf, DealOf
<1>5. Promise!OpenDeals = ActiveIds
  BY <1>3 DEF Promise!OpenDeals, ActiveIds, OutcomeOf
<1> QED
  BY <1>2, <1>3, <1>4, <1>5 DEF Promise!Accounts, Accounts

\* What u is paid when the escrows of S are settled in favour of payee.
Share(S, payee, u) == SumTo(Masked(AmountOf, {e \in S : payee[e] = u}), EscrowCounter)
Worth(S) == SumTo(Masked(AmountOf, S), EscrowCounter)
Settling(S, payee) ==
  [u \in Accounts |-> wallet[u] + Share(S, payee, u) - (IF u = Contract THEN Worth(S) ELSE 0)]

\* A step that closes the escrows of S and pays their payees is a Close.
LEMMA CloseMaps ==
  ASSUME TypeOK, NEW S, NEW result, NEW payee,
         Ids' = Ids, \A e \in Ids : DealOf(e)' = DealOf(e),
         \A e \in Ids : OutcomeOf(e)' = IF e \in S THEN result ELSE OutcomeOf(e),
         wallet' = Settling(S, payee)
  PROVE  Promise!Close(S, result, payee)
<1>1. [e \in Ids |-> DealOf(e)]' = [e \in Ids |-> DealOf(e)]
  OBVIOUS
<1>2. [e \in Ids |-> OutcomeOf(e)]'
        = [e \in Ids |-> IF e \in S THEN result ELSE [d \in Ids |-> OutcomeOf(d)][e]]
  OBVIOUS
<1>3. \A T : Promise!SumTo(Promise!Masked(Promise!Amounts, T),
                           Promise!Cardinality(Promise!DealIds)) = Worth(T)
  BY DealFacts, SameSums, SameCardinality DEF Worth
<1>4. \A u : Share(S, payee, u) = Worth({e \in S : payee[e] = u})
  BY DEF Share, Worth
<1>5. wallet' = [u \in Promise!Accounts |->
                   wallet[u] + Promise!SumTo(Promise!Masked(Promise!Amounts,
                                                            {e \in S : payee[e] = u}),
                                             Promise!Cardinality(Promise!DealIds))
                     - (IF u = Contract
                        THEN Promise!SumTo(Promise!Masked(Promise!Amounts, S),
                                           Promise!Cardinality(Promise!DealIds))
                        ELSE 0)]
  BY <1>3, <1>4, DealFacts DEF Settling
<1> QED
  BY <1>1, <1>2, <1>5, DealFacts DEF Promise!Close

\* A batch without repeats pays every payee the amounts of the escrows it settles.
LEMMA BatchPays ==
  ASSUME TypeOK, NEW b \in Batches, RepeatFree(b), NEW valid \in SUBSET Ids,
         NEW payee \in [Ids -> Accounts], PayBatch(b, valid, payee),
         NEW T, T = {e \in valid : \E i \in 1..Len(b) : b[i] = e}
  PROVE  wallet' = Settling(T, payee)
<1> DEFINE k == Len(b)
           out == DueOut(b, valid, payee)
           kept == {e \in T : payee[e] = Contract}
<1>1. /\ k \in Nat /\ b \in [1..k -> Nat]
      /\ \A i, j \in 1..k : b[i] = b[j] => i = j
  BY InputAssumption DEF RepeatFree
<1>2. /\ EscrowCounter \in Nat /\ AmountOf \in [1..EscrowCounter -> Nat]
      /\ AmountOf \in [1..EscrowCounter -> Int] /\ Ids = 1..EscrowCounter
      /\ \A e \in Ids : AmountOf[e] = escrow[e].amount /\ AmountOf[e] \in Nat
      /\ wallet \in [Accounts -> Nat]
  BY AmountsType DEF AmountOf, TypeOK
<1>3. \A u \in Accounts : SumTo(DueTo(b, valid, payee, u), k) = Share(T, payee, u)
  <2> SUFFICES ASSUME NEW u \in Accounts
               PROVE  SumTo(DueTo(b, valid, payee, u), k) = Share(T, payee, u)
    OBVIOUS
  <2> DEFINE due == DueTo(b, valid, payee, u)
             mine == {e \in valid : payee[e] = u}
             paid == {e \in T : payee[e] = u}
  <2>1. /\ \A i \in 1..k : due[i] = IF b[i] \in mine THEN AmountOf[b[i]] ELSE 0
        /\ due \in [1..k -> Int]
    BY <1>1, <1>2 DEF DueTo
  <2>2. paid = {e \in mine : \E i \in 1..k : b[i] = e} /\ mine \in SUBSET (1..EscrowCounter)
    BY <1>2
  <2>3. DueOnce(due, k, b, mine, paid, AmountOf, EscrowCounter)
    <3> HIDE DEF due, mine, paid, k
    <3> QED
      BY <1>1, <1>2, <2>1, <2>2 DEF DueOnce
  <2>4. SumTo(due, k) = SumTo(Masked(AmountOf, paid), EscrowCounter)
    <3> HIDE DEF due, mine, paid, k
    <3> QED
      BY <2>3, RepeatFreeTotal
  <2> QED
    BY <2>4 DEF Share
<1>4. SumTo(out, k) = Worth(T \ kept)
  <2> DEFINE mine == {e \in valid : payee[e] # Contract}
             paid == T \ kept
  <2>1. /\ \A i \in 1..k : out[i] = IF b[i] \in mine THEN AmountOf[b[i]] ELSE 0
        /\ out \in [1..k -> Int]
    <3>1. \A i \in 1..k : out[i] = IF b[i] \in mine THEN AmountOf[b[i]] ELSE 0
      <4> TAKE i \in 1..k
      <4>1. out[i] = IF b[i] \in valid /\ payee[b[i]] # Contract THEN escrow[b[i]].amount ELSE 0
        BY DEF DueOut
      <4>2. b[i] \in valid => AmountOf[b[i]] = escrow[b[i]].amount
        BY <1>2
      <4> HIDE DEF out
      <4> QED
        BY <4>1, <4>2
    <3>2. \A i \in 1..k : out[i] \in Int
      <4>1. \A e \in mine : AmountOf[e] \in Int
        BY <1>2
      <4> HIDE DEF out, mine
      <4> QED
        BY <3>1, <4>1
    <3>3. out = [i \in 1..k |-> out[i]]
      BY DEF DueOut
    <3> QED
      BY <3>1, <3>2, <3>3
  <2>2. paid = {e \in mine : \E i \in 1..k : b[i] = e} /\ mine \in SUBSET (1..EscrowCounter)
    BY <1>2
  <2>3. DueOnce(out, k, b, mine, paid, AmountOf, EscrowCounter)
    <3> HIDE DEF out, mine, paid, k
    <3> QED
      BY <1>1, <1>2, <2>1, <2>2 DEF DueOnce
  <2>4. SumTo(out, k) = SumTo(Masked(AmountOf, paid), EscrowCounter)
    <3> HIDE DEF out, mine, paid, k
    <3> QED
      BY <2>3, RepeatFreeTotal
  <2> QED
    BY <2>4 DEF Worth
<1>5. Worth(T) = Worth(T \ kept) + Worth(kept)
  <2>1. kept \in SUBSET T
    OBVIOUS
  <2> HIDE DEF kept
  <2> QED
    BY <1>2, <2>1, MaskedSplit DEF Worth
<1>6. Share(T, payee, Contract) = Worth(kept)
  BY DEF Share, Worth
<1>7. \A S : Worth(S) \in Int
  <2> SUFFICES ASSUME NEW S PROVE Worth(S) \in Int
    OBVIOUS
  <2>1. \A e \in 1..EscrowCounter : Masked(AmountOf, S)[e] \in Int
    BY <1>2 DEF Masked
  <2> QED
    BY <1>2, <2>1, SumType DEF Worth
<1>8. wallet' = [u \in Accounts |-> IF u = Contract THEN wallet[u] - SumTo(out, k)
                                    ELSE wallet[u] + SumTo(DueTo(b, valid, payee, u), k)]
  BY DEF PayBatch
<1>9. \A u \in Accounts : Share(T, payee, u) \in Int
  BY <1>7 DEF Share, Worth
<1> HIDE DEF out, kept, k
<1>10. \A u \in Accounts :
        wallet'[u] = wallet[u] + Share(T, payee, u) - (IF u = Contract THEN Worth(T) ELSE 0)
  <2> SUFFICES ASSUME NEW u \in Accounts
               PROVE  wallet'[u] = wallet[u] + Share(T, payee, u)
                                     - (IF u = Contract THEN Worth(T) ELSE 0)
    OBVIOUS
  <2>1. CASE u = Contract
    <3>1. wallet'[u] = wallet[u] - Worth(T \ kept) /\ wallet[u] \in Int
      BY <1>2, <1>4, <1>8, <2>1
    <3>2. Worth(T) = Worth(T \ kept) + Share(T, payee, u)
      BY <1>5, <1>6, <2>1
    <3> QED
      BY <1>7, <1>9, <2>1, <3>1, <3>2
  <2>2. CASE u # Contract
    <3>1. wallet'[u] = wallet[u] + Share(T, payee, u) /\ wallet[u] \in Int
      BY <1>2, <1>3, <1>8, <2>2
    <3> QED
      BY <1>9, <2>2, <3>1
  <2> QED
    BY <2>1, <2>2
<1> QED
  BY <1>8, <1>10 DEF Settling

\* What settling the escrows of S makes of the deals.
LEMMA SettledDeals ==
  ASSUME TypeOK, NEW b, NEW valid \in SUBSET ActiveIds, NEW status \in {"Released", "Reversed"},
         escrow' = Settled(b, valid, status)
  PROVE  /\ Ids' = Ids /\ \A e \in Ids : DealOf(e)' = DealOf(e)
         /\ \A e \in Ids : OutcomeOf(e)' = IF e \in valid /\ \E i \in 1..Len(b) : b[i] = e
                                           THEN IF status = "Released" THEN "paid" ELSE "refunded"
                                           ELSE OutcomeOf(e)
<1>1. Ids' = Ids /\ \A e \in Ids : escrow[e] \in EscrowRecord
  BY DEF Settled, Ids, TypeOK
<1>2. \A e \in Ids : escrow'[e] = IF e \in valid /\ \E i \in 1..Len(b) : b[i] = e
                                  THEN [escrow[e] EXCEPT !.status = status] ELSE escrow[e]
  BY DEF Settled
<1>3. \A e \in Ids :
        /\ escrow'[e].depositor = escrow[e].depositor
        /\ escrow'[e].recipient = escrow[e].recipient
        /\ escrow'[e].amount = escrow[e].amount
        /\ escrow'[e].status = IF e \in valid /\ \E i \in 1..Len(b) : b[i] = e
                               THEN status ELSE escrow[e].status
  <2> TAKE e \in Ids
  <2>1. CASE e \in valid /\ \E i \in 1..Len(b) : b[i] = e
    <3>1. escrow'[e] = [escrow[e] EXCEPT !.status = status]
      BY <1>2, <2>1
    <3>2. escrow[e] \in EscrowRecord
      BY <1>1
    <3> QED
      BY <2>1, <3>1, <3>2 DEF EscrowRecord
  <2>2. CASE ~(e \in valid /\ \E i \in 1..Len(b) : b[i] = e)
    BY <1>2, <2>2
  <2> QED
    BY <2>1, <2>2
<1>4. \A e \in Ids : DealOf(e)' = DealOf(e)
  BY <1>1, <1>3 DEF DealOf
<1>5. \A e \in Ids : OutcomeOf(e)' = IF e \in valid /\ \E i \in 1..Len(b) : b[i] = e
                                     THEN IF status = "Released" THEN "paid" ELSE "refunded"
                                     ELSE OutcomeOf(e)
  <2> TAKE e \in Ids
  <2>1. CASE e \in valid /\ \E i \in 1..Len(b) : b[i] = e
    BY <1>3, <2>1 DEF OutcomeOf
  <2>2. CASE ~(e \in valid /\ \E i \in 1..Len(b) : b[i] = e)
    BY <1>2, <2>2 DEF OutcomeOf
  <2> QED
    BY <2>1, <2>2
<1> QED
  BY <1>1, <1>4, <1>5

\* The payees of EscrowLedger's Pay and Refund.
LEMMA Payees ==
  ASSUME TypeOK
  PROVE  /\ [d \in Promise!DealIds |-> [e \in Ids |-> DealOf(e)][d].recipient]
              = [e \in Ids |-> escrow[e].recipient]
         /\ [d \in Promise!DealIds |-> [e \in Ids |-> DealOf(e)][d].depositor]
              = [e \in Ids |-> escrow[e].depositor]
         /\ [e \in Ids |-> escrow[e].recipient] \in [Ids -> Accounts]
         /\ [e \in Ids |-> escrow[e].depositor] \in [Ids -> Accounts]
<1>1. Promise!DealIds = Ids
  BY DealFacts
<1>2. \A e \in Ids : escrow[e].recipient \in Accounts /\ escrow[e].depositor \in Accounts
  BY DEF TypeOK, Ids, EscrowRecord, Accounts
<1>3. \A e \in Ids : /\ [d \in Ids |-> DealOf(d)][e].recipient = escrow[e].recipient
                     /\ [d \in Ids |-> DealOf(d)][e].depositor = escrow[e].depositor
  BY DEF DealOf
<1> QED
  BY <1>1, <1>2, <1>3

\* Both batches close the deals they settle.
LEMMA BatchMaps ==
  ASSUME TypeOK, NEW b \in Batches, RepeatFree(b), NEW valid \in SUBSET ActiveIds,
         NEW payee \in [Ids -> Accounts], PayBatch(b, valid, payee),
         NEW status \in {"Released", "Reversed"}, escrow' = Settled(b, valid, status)
  PROVE  \E S \in SUBSET ActiveIds :
           Promise!Close(S, IF status = "Released" THEN "paid" ELSE "refunded", payee)
<1>1. PICK S : S = {e \in valid : \E i \in 1..Len(b) : b[i] = e}
  OBVIOUS
<1>2. S \in SUBSET ActiveIds /\ valid \in SUBSET Ids
  BY <1>1 DEF ActiveIds
<1>3. wallet' = Settling(S, payee)
  BY <1>1, <1>2, BatchPays
<1>4. PICK result : result = IF status = "Released" THEN "paid" ELSE "refunded"
  OBVIOUS
<1>5. /\ Ids' = Ids /\ \A e \in Ids : DealOf(e)' = DealOf(e)
      /\ \A e \in Ids : OutcomeOf(e)' = IF e \in S THEN result ELSE OutcomeOf(e)
  BY <1>1, <1>4, SettledDeals
<1>6. Promise!Close(S, result, payee)
  BY <1>3, <1>5, CloseMaps
<1> QED
  BY <1>2, <1>4, <1>6

\* A single release closes one deal.
LEMMA ReleaseMaps ==
  ASSUME TypeOK, NEW c \in Users, NEW x \in Ids, ReleaseEscrow(c, x)
  PROVE  \E S \in SUBSET ActiveIds :
           Promise!Close(S, "paid", [e \in Ids |-> escrow[e].recipient])
<1>1. PICK payee : payee = [e \in Ids |-> escrow[e].recipient]
  OBVIOUS
<1>2. /\ escrow' = [escrow EXCEPT ![x].status = "Released"]
      /\ wallet' = Transfer(wallet, Contract, escrow[x].recipient, escrow[x].amount)
      /\ escrow[x].status = "Active" /\ x \in ActiveIds
      /\ wallet \in [Accounts -> Nat]
  BY DEF ReleaseEscrow, ActiveIds, TypeOK
<1>3. /\ EscrowCounter \in Nat /\ AmountOf \in [1..EscrowCounter -> Int]
      /\ Ids = 1..EscrowCounter /\ AmountOf[x] = escrow[x].amount /\ AmountOf[x] \in Nat
  BY AmountsType DEF AmountOf
<1>4. Worth({}) = 0 /\ Worth({x}) = escrow[x].amount
  <2>1. \A e \in 1..EscrowCounter : Masked(AmountOf, {})[e] = 0
    BY <1>3 DEF Masked
  <2>2. Worth({}) = 0
    BY <1>3, <2>1, SumOfZeros DEF Worth
  <2> DEFINE R == {}
             n == EscrowCounter
             f == AmountOf
  <2>3. n \in Nat /\ f \in [1..n -> Int] /\ x \in (1..n) \ R /\ R \cup {x} = {x}
    BY <1>3
  <2> HIDE DEF R, n, f
  <2>4. SumTo(Masked(f, R \cup {x}), n) = SumTo(Masked(f, R), n) + f[x]
    BY <2>3, MaskedJoin
  <2> QED
    BY <1>3, <2>2, <2>3, <2>4 DEF Worth, R, n, f
<1>5. \A u : Share({x}, payee, u) = IF u = escrow[x].recipient THEN escrow[x].amount ELSE 0
  <2> TAKE u
  <2>1. {e \in {x} : payee[e] = u} = IF u = escrow[x].recipient THEN {x} ELSE {}
    BY <1>1
  <2>2. Share({x}, payee, u) = Worth({e \in {x} : payee[e] = u})
    BY DEF Share, Worth
  <2> QED
    BY <1>4, <2>1, <2>2
<1>6. wallet' = Settling({x}, payee)
  <2>1. \A u \in Accounts : wallet[u] \in Int
    BY <1>2
  <2>2. \A u \in Accounts :
          wallet[u] + (IF u = escrow[x].recipient THEN escrow[x].amount ELSE 0)
                    - (IF u = Contract THEN escrow[x].amount ELSE 0)
            = wallet[u] + Share({x}, payee, u) - (IF u = Contract THEN Worth({x}) ELSE 0)
    BY <1>4, <1>5
  <2> QED
    BY <1>2, <2>2 DEF Settling, Transfer
<1>7. /\ Ids' = Ids
      /\ \A e \in Ids : escrow'[e] = IF e = x THEN [escrow[e] EXCEPT !.status = "Released"]
                                     ELSE escrow[e]
      /\ \A e \in Ids : escrow[e] \in EscrowRecord
  BY <1>2 DEF Ids, TypeOK
<1>8. \A e \in Ids : DealOf(e)' = DealOf(e)
  <2> TAKE e \in Ids
  <2>1. /\ escrow'[e].depositor = escrow[e].depositor
        /\ escrow'[e].recipient = escrow[e].recipient /\ escrow'[e].amount = escrow[e].amount
    BY <1>7 DEF EscrowRecord
  <2> QED
    BY <2>1 DEF DealOf
<1>9. \A e \in Ids : OutcomeOf(e)' = IF e \in {x} THEN "paid" ELSE OutcomeOf(e)
  <2> TAKE e \in Ids
  <2>1. escrow'[e].status = IF e = x THEN "Released" ELSE escrow[e].status
    BY <1>7 DEF EscrowRecord
  <2> QED
    BY <2>1 DEF OutcomeOf
<1>10. Promise!Close({x}, "paid", payee)
  BY <1>6, <1>7, <1>8, <1>9, CloseMaps
<1> QED
  BY <1>1, <1>2, <1>10

\* An escrow that is created is a deal that is opened.
LEMMA CreateMaps ==
  ASSUME TypeOK, NEW t \in Terms, CreateEscrow(t)
  PROVE  \E u \in Users, v \in Accounts : \E a \in 1..wallet[u] : Promise!Open(u, v, a)
<1>1. PICK n : n = EscrowCounter + 1
  OBVIOUS
<1>2. /\ t \in TermsRecord /\ t.depositor \in Users /\ t.recipient \in Accounts
      /\ t.amount \in Int /\ t.amount > 0 /\ wallet[t.depositor] >= t.amount
      /\ wallet' = Transfer(wallet, t.depositor, Contract, t.amount)
      /\ escrow' = [e \in Ids \cup {n} |->
                      IF e = n
                      THEN [depositor |-> t.depositor, recipient |-> t.recipient,
                            arbiter |-> t.arbiter, amount |-> t.amount,
                            deadline |-> t.deadline, status |-> "Active"]
                      ELSE escrow[e]]
  BY <1>1, InputAssumption DEF CreateEscrow, StoreEscrow, TermsRecord
<1>3. /\ EscrowCounter \in Nat /\ Ids = 1..EscrowCounter /\ n \notin Ids
      /\ Ids \cup {n} = 1..n /\ wallet \in [Accounts -> Nat] /\ t.depositor # Contract
      /\ t.depositor \in Accounts
  BY <1>1, <1>2, AmountsType, AddressAssumption DEF TypeOK, Accounts
<1>4. Ids' = 1..n
  BY <1>2, <1>3 DEF Ids
<1> DEFINE deal == [depositor |-> t.depositor, recipient |-> t.recipient, amount |-> t.amount]
<1>5. /\ \A e \in 1..n : DealOf(e)' = IF e = n THEN deal ELSE DealOf(e)
      /\ \A e \in 1..n : OutcomeOf(e)' = IF e = n THEN "open" ELSE OutcomeOf(e)
  <2>1. \A e \in 1..n : e # n => escrow'[e] = escrow[e]
    BY <1>2, <1>3
  <2>2. /\ escrow'[n].depositor = t.depositor /\ escrow'[n].recipient = t.recipient
        /\ escrow'[n].amount = t.amount /\ escrow'[n].status = "Active"
    BY <1>2
  <2> QED
    BY <2>1, <2>2 DEF DealOf, OutcomeOf
<1>6. \A e \in 1..n : e # n => e \in Ids
  BY <1>3
<1> HIDE DEF deal
<1>7. [e \in Ids |-> DealOf(e)]' = Promise!Append1([e \in Ids |-> DealOf(e)], n, deal)
  BY <1>4, <1>5, <1>6 DEF Promise!Append1
<1>8. [e \in Ids |-> OutcomeOf(e)]' = Promise!Append1([e \in Ids |-> OutcomeOf(e)], n, "open")
  BY <1>4, <1>5, <1>6 DEF Promise!Append1
<1>9. wallet' = [wallet EXCEPT ![t.depositor] = @ - t.amount, ![Contract] = @ + t.amount]
  <2>1. \A u \in Accounts : wallet[u] \in Int
    BY <1>3
  <2>2. Contract \in Accounts
    BY DEF Accounts
  <2>3. \A u \in Accounts :
          wallet[u] + (IF u = Contract THEN t.amount ELSE 0)
                    - (IF u = t.depositor THEN t.amount ELSE 0)
            = IF u = Contract THEN wallet[u] + t.amount
              ELSE IF u = t.depositor THEN wallet[u] - t.amount ELSE wallet[u]
    BY <1>2, <1>3, <2>1
  <2> DEFINE moved == [wallet EXCEPT ![t.depositor] = @ - t.amount, ![Contract] = @ + t.amount]
  <2>4. /\ moved = [u \in Accounts |-> moved[u]]
        /\ \A u \in Accounts : moved[u] = IF u = Contract THEN wallet[u] + t.amount
                                         ELSE IF u = t.depositor THEN wallet[u] - t.amount
                                         ELSE wallet[u]
    BY <1>3, <2>2
  <2> HIDE DEF moved
  <2>5. wallet' = moved
    BY <1>2, <2>3, <2>4 DEF Transfer
  <2> QED
    BY <2>5 DEF moved
<1>10. n = Promise!Cardinality(Promise!DealIds) + 1
  BY <1>1, DealFacts, SameCardinality
<1>11. Promise!Open(t.depositor, t.recipient, t.amount)
  BY <1>2, <1>7, <1>8, <1>9, <1>10 DEF Promise!Open, deal
<1>12. t.amount \in 1..wallet[t.depositor]
  BY <1>2, <1>3
<1> QED
  BY <1>2, <1>11, <1>12

LEMMA RefinesNext ==
  ASSUME \A b \in Batches : RepeatFree(b), TypeInv, [Next]_vars
  PROVE  [Promise!Next]_(Promise!vars)
<1>0. TypeOK /\ Promise!OpenDeals = ActiveIds /\ Promise!Accounts = Accounts
  BY DealFacts DEF TypeInv
<1>1. ASSUME NEW t \in Terms, CreateEscrow(t) PROVE Promise!Next
  BY <1>0, <1>1, CreateMaps DEF Promise!Next
<1>2. ASSUME NEW S \in SUBSET ActiveIds,
             \/ Promise!Close(S, "paid", [e \in Ids |-> escrow[e].recipient])
             \/ Promise!Close(S, "refunded", [e \in Ids |-> escrow[e].depositor])
      PROVE  Promise!Next
  <2>1. Promise!Pay(S) \/ Promise!Refund(S)
    BY <1>0, <1>2, Payees DEF Promise!Pay, Promise!Refund
  <2> QED
    BY <1>0, <2>1 DEF Promise!Next
<1>3. ASSUME NEW c \in Users, NEW e \in Ids, ReleaseEscrow(c, e) PROVE Promise!Next
  BY <1>0, <1>2, <1>3, ReleaseMaps
<1>4. ASSUME NEW c \in Users, NEW b \in Batches, BatchReverseEscrows(c, b) PROVE Promise!Next
  <2>1. PICK valid : valid = {e \in Ids : ValidReversal(c, e)}
    OBVIOUS
  <2>2. PICK payee : payee = [e \in Ids |-> escrow[e].depositor]
    OBVIOUS
  <2>3. PayBatch(b, valid, payee) /\ escrow' = Settled(b, valid, "Reversed")
    BY <1>4, <2>1, <2>2 DEF BatchReverseEscrows
  <2>4. valid \in SUBSET ActiveIds /\ payee \in [Ids -> Accounts]
    BY <1>0, <2>1, <2>2, Payees DEF ValidReversal, ActiveIds
  <2>5. \E S \in SUBSET ActiveIds : Promise!Close(S, "refunded", payee)
    BY <1>0, <2>3, <2>4, BatchMaps
  <2> QED
    BY <1>2, <2>2, <2>5
<1>5. ASSUME NEW c \in Users, NEW b \in Batches, BatchReleaseEscrows(c, b) PROVE Promise!Next
  <2>1. PICK valid : valid = {e \in Ids : ValidRelease(c, e)}
    OBVIOUS
  <2>2. PICK payee : payee = [e \in Ids |-> escrow[e].recipient]
    OBVIOUS
  <2>3. PayBatch(b, valid, payee) /\ escrow' = Settled(b, valid, "Released")
    BY <1>5, <2>1, <2>2 DEF BatchReleaseEscrows
  <2>4. valid \in SUBSET ActiveIds /\ payee \in [Ids -> Accounts]
    BY <1>0, <2>1, <2>2, Payees DEF ValidRelease, ActiveIds
  <2>5. \E S \in SUBSET ActiveIds : Promise!Close(S, "paid", payee)
    BY <1>0, <2>3, <2>4, BatchMaps
  <2> QED
    BY <1>2, <2>2, <2>5
<1>6. ASSUME \/ \E a \in Users : Initialize(a)
             \/ \E c, a \in Users : SetAdmin(c, a)
             \/ CloseLedger \/ UNCHANGED vars
      PROVE  UNCHANGED Promise!vars
  <2>1. UNCHANGED <<escrow, wallet>>
    BY <1>6 DEF Initialize, SetAdmin, CloseLedger, vars
  <2>2. Ids' = Ids /\ \A e : DealOf(e)' = DealOf(e) /\ OutcomeOf(e)' = OutcomeOf(e)
    BY <2>1 DEF Ids, DealOf, OutcomeOf
  <2> QED
    BY <2>1, <2>2 DEF Promise!vars
<1> QED
  BY <1>1, <1>3, <1>4, <1>5, <1>6 DEF Next

\* If no request vector repeats an escrow id, the contract implements EscrowLedger:
\* every deal is closed at most once, with its amount, in favour of its payee, and
\* nobody else's balance changes.  (With repeats it does not: EscrowRepeats.cfg.)
THEOREM Refinement ==
  ASSUME \A b \in Batches : RepeatFree(b)
  PROVE  Spec => ImplementsLedger
<1>1. Init => Promise!Init
  <2> SUFFICES ASSUME Init PROVE Promise!Init
    OBVIOUS
  <2>1. Ids = {}
    BY DEF Init, Ids
  <2>2. [e \in Ids |-> DealOf(e)] = << >> /\ [e \in Ids |-> OutcomeOf(e)] = << >>
    BY <2>1
  <2> QED
    BY <2>2 DEF Init, Promise!Init
<1>2. TypeInv /\ [Next]_vars => [Promise!Next]_(Promise!vars)
  BY RefinesNext
<1> QED
  BY <1>1, <1>2, TypeInvInit, TypeInvNext, PTL DEF Spec, ImplementsLedger, Promise!Spec

------------------------------------------------------------------------------
\* The books: totals, statuses and indexes.

InStatus(st) == {e \in Ids : escrow[e].status = st}

\* The escrows of a status are finitely many and their worth is a natural number.
LEMMA StatusFacts ==
  ASSUME TypeOK, NEW S \in SUBSET Ids
  PROVE  /\ S \in SUBSET (1..EscrowCounter)
         /\ IsFiniteSet(S) /\ Cardinality(S) \in Nat
         /\ Worth(S) \in Nat
<1>1. EscrowCounter \in Nat /\ Ids = 1..EscrowCounter /\ AmountOf \in [1..EscrowCounter -> Nat]
  BY AmountsType
<1>2. IsFiniteSet(1..EscrowCounter)
  BY <1>1, FS_Interval
<1>3. IsFiniteSet(S)
  BY <1>1, <1>2, FS_Subset
<1>4. Cardinality(S) \in Nat
  BY <1>3, FS_CardinalityType
<1>5. \A e \in 1..EscrowCounter : Masked(AmountOf, S)[e] \in Nat
  BY <1>1 DEF Masked
<1>6. Worth(S) \in Nat
  BY <1>1, <1>5, SumNat DEF Worth
<1> QED
  BY <1>1, <1>3, <1>4, <1>6

\* Two disjoint sets of escrows are counted, and are worth, what they are apart.
LEMMA WorthJoin ==
  ASSUME TypeOK, NEW S \in SUBSET Ids, NEW T \in SUBSET Ids, S \cap T = {}
  PROVE  /\ Cardinality(S \cup T) = Cardinality(S) + Cardinality(T)
         /\ Worth(S \cup T) = Worth(S) + Worth(T)
<1>1. /\ IsFiniteSet(S) /\ Cardinality(S) \in Nat
      /\ IsFiniteSet(T) /\ Cardinality(T) \in Nat
  BY StatusFacts
<1>2. Cardinality(S \cup T) = Cardinality(S) + Cardinality(T) - Cardinality(S \cap T)
  BY <1>1, FS_Union
<1>3. Cardinality(S \cap T) = 0
  BY FS_EmptySet
<1>4. Cardinality(S \cup T) = Cardinality(S) + Cardinality(T)
  BY <1>1, <1>2, <1>3
<1>5. (S \cup T) \ T = S /\ T \in SUBSET (S \cup T)
  OBVIOUS
<1>6. EscrowCounter \in Nat /\ AmountOf \in [1..EscrowCounter -> Int]
  BY AmountsType
<1> DEFINE U == S \cup T
<1>7. T \in SUBSET U /\ U \ T = S
  BY <1>5
<1> HIDE DEF U
<1>8. SumTo(Masked(AmountOf, U), EscrowCounter)
        = SumTo(Masked(AmountOf, U \ T), EscrowCounter)
          + SumTo(Masked(AmountOf, T), EscrowCounter)
  BY <1>6, <1>7, MaskedSplit
<1>9. Worth(U) = Worth(S) + Worth(T)
  BY <1>7, <1>8 DEF Worth
<1> QED
  BY <1>4, <1>9 DEF U

\* A vector without repeats counts each escrow it settles once, and adds up
\* what they are worth.
LEMMA BatchCountsOnce ==
  ASSUME TypeOK, NEW b \in Batches, RepeatFree(b), NEW valid \in SUBSET Ids,
         NEW T, T = {e \in valid : \E i \in 1..Len(b) : b[i] = e}
  PROVE  /\ Successes(b, valid) = Cardinality(T)
         /\ SumTo(Due(b, valid), Len(b)) = Worth(T)
<1>0. PICK k : k = Len(b)
  OBVIOUS
<1>1. k \in Nat /\ b \in [1..k -> Nat]
  BY <1>0, InputAssumption
<1>2. PICK due : due = Due(b, valid)
  OBVIOUS
<1>3. due \in [1..k -> Int] /\ \A i \in 1..k : due[i] = IF b[i] \in valid THEN AmountOf[b[i]] ELSE 0
  <2>1. \A i \in 1..k : due[i] = IF b[i] \in valid THEN AmountOf[b[i]] ELSE 0
    BY <1>0, <1>2, AmountsType DEF Due, AmountOf
  <2>2. due \in [1..k -> Int]
    BY <1>0, <1>1, <1>2, <2>1, AmountsType DEF Due
  <2> QED
    BY <2>1, <2>2
<1>4. \A i, j \in 1..k : b[i] = b[j] => i = j
  BY <1>0 DEF RepeatFree
<1>5. DueOnce(due, k, b, valid, T, AmountOf, EscrowCounter)
  <2>1. /\ valid \in SUBSET (1..EscrowCounter) /\ EscrowCounter \in Nat
        /\ AmountOf \in [1..EscrowCounter -> Nat]
    BY AmountsType
  <2> QED
    BY <1>0, <1>1, <1>3, <1>4, <2>1 DEF DueOnce
<1>6. SumTo(due, k) = Worth(T)
  BY <1>5, RepeatFreeTotal DEF Worth
<1> DEFINE I == {i \in 1..k : b[i] \in valid}
           f == [i \in I |-> b[i]]
<1>7. f \in [I -> T]
  BY <1>0, <1>1
<1>8. \A i, j \in I : f[i] = f[j] => i = j
  BY <1>4
<1>9. \A e \in T : \E i \in I : f[i] = e
  BY <1>0
<1>10. f \in Bijection(I, T)
  <2> HIDE DEF f, I
  <2> QED
    BY <1>7, <1>8, <1>9 DEF Bijection, Injection, Surjection, IsInjective
<1>11. IsFiniteSet(I)
  BY <1>1, FS_Interval, FS_Subset
<1>12. Cardinality(I) = Cardinality(T)
  <2> HIDE DEF f, I
  <2>1. ExistsBijection(I, T)
    BY <1>10 DEF ExistsBijection
  <2> QED
    BY <1>11, <2>1, FS_Bijection
<1>13. Successes(b, valid) = Cardinality(I)
  BY <1>0 DEF Successes
<1> QED
  BY <1>0, <1>2, <1>6, <1>12, <1>13

\* What a batch without repeats does to the escrows of each status, and to what
\* they are worth.
LEMMA SettledBooks ==
  ASSUME TypeOK, NEW b \in Batches, RepeatFree(b), NEW valid \in SUBSET ActiveIds,
         NEW status \in {"Released", "Reversed"},
         escrow' = Settled(b, valid, status), EscrowCounter' = EscrowCounter
  PROVE  /\ Cardinality(InStatus(status))' = Cardinality(InStatus(status)) + Successes(b, valid)
         /\ Worth(InStatus(status))' = Worth(InStatus(status)) + SumTo(Due(b, valid), Len(b))
         /\ \A other \in {"Released", "Reversed"} \ {status} :
              /\ InStatus(other)' = InStatus(other)
              /\ Worth(InStatus(other))' = Worth(InStatus(other))
         /\ Ids' = Ids /\ \A e \in Ids : escrow'[e].depositor = escrow[e].depositor
<1>1. PICK T : T = {e \in valid : \E i \in 1..Len(b) : b[i] = e}
  OBVIOUS
<1>2. T \in SUBSET Ids /\ valid \in SUBSET Ids /\ \A e \in T : escrow[e].status = "Active"
  BY <1>1 DEF ActiveIds
<1>3. Ids' = Ids
  BY DEF Settled, Ids
<1>4. \A e \in Ids : escrow'[e] = IF e \in T THEN [escrow[e] EXCEPT !.status = status]
                                  ELSE escrow[e]
  BY <1>1 DEF Settled
<1>5. \A e \in Ids : /\ escrow'[e].amount = escrow[e].amount
                     /\ escrow'[e].depositor = escrow[e].depositor
                     /\ escrow'[e].status = IF e \in T THEN status ELSE escrow[e].status
  <2>1. TAKE e \in Ids
  <2>2. PICK r : r = escrow[e]
    OBVIOUS
  <2>3. r \in EscrowRecord
    BY <2>2 DEF TypeOK, Ids
  <2>4. escrow'[e] = IF e \in T THEN [r EXCEPT !.status = status] ELSE r
    BY <1>4, <2>2
  <2>5. /\ [r EXCEPT !.status = status].amount = r.amount
        /\ [r EXCEPT !.status = status].depositor = r.depositor
        /\ [r EXCEPT !.status = status].status = status
    BY <2>3 DEF EscrowRecord
  <2> QED
    BY <2>2, <2>4, <2>5
<1>6. AmountOf' = AmountOf
  BY <1>3, <1>5 DEF AmountOf
<1>7. InStatus(status)' = InStatus(status) \cup T
  BY <1>2, <1>3, <1>5 DEF InStatus
<1>8. \A other \in {"Released", "Reversed"} \ {status} : InStatus(other)' = InStatus(other)
  BY <1>2, <1>3, <1>5 DEF InStatus
<1>10. InStatus(status) \in SUBSET Ids /\ InStatus(status) \cap T = {}
  BY <1>2 DEF InStatus
<1>11. /\ Cardinality(InStatus(status) \cup T) = Cardinality(InStatus(status)) + Cardinality(T)
       /\ Worth(InStatus(status) \cup T) = Worth(InStatus(status)) + Worth(T)
  BY <1>2, <1>10, WorthJoin
<1>12. Successes(b, valid) = Cardinality(T) /\ SumTo(Due(b, valid), Len(b)) = Worth(T)
  BY <1>1, <1>2, BatchCountsOnce
<1>13. Worth(InStatus(status))' = Worth(InStatus(status) \cup T)
  BY <1>6, <1>7 DEF Worth
<1>14. \A other \in {"Released", "Reversed"} \ {status} :
         Worth(InStatus(other))' = Worth(InStatus(other))
  BY <1>6, <1>8 DEF Worth
<1> QED
  BY <1>3, <1>5, <1>7, <1>8, <1>11, <1>12, <1>13, <1>14

\* The index of depositor u: a strictly increasing list of u's escrows.
Listed(s, S) ==
  /\ {s[i] : i \in DOMAIN s} = S
  /\ \A i, j \in DOMAIN s : i < j => s[i] < s[j]

\* Appending the next number keeps a list increasing and lists one escrow more.
LEMMA ListAppend ==
  ASSUME NEW s \in Seq(Nat), NEW n \in Nat, NEW S \in SUBSET Nat, Listed(s, S),
         \A e \in S : e < n
  PROVE  Listed(Append(s, n), S \cup {n})
<1>1. PICK k : k = Len(s) /\ k \in Nat /\ DOMAIN s = 1..k
  OBVIOUS
<1>2. PICK r : r = Append(s, n)
  OBVIOUS
<1>3. DOMAIN r = 1..(k + 1) /\ r[k + 1] = n /\ \A i \in 1..k : r[i] = s[i]
  BY <1>1, <1>2
<1>4. \A i : i \in 1..(k + 1) <=> i \in 1..k \/ i = k + 1
  BY <1>1
<1>5. {s[i] : i \in 1..k} = S /\ \A i, j \in 1..k : i < j => s[i] < s[j]
  BY <1>1 DEF Listed
<1>6. {r[i] : i \in DOMAIN r} = S \cup {n}
  <2>1. \A x \in S : \E i \in 1..k : x = r[i]
    BY <1>3, <1>5
  <2>2. \A i \in 1..k : r[i] \in S
    BY <1>3, <1>5
  <2>3. \A i \in 1..(k + 1) : r[i] \in S \cup {n}
    BY <1>3, <1>4, <2>2
  <2>4. \A x \in S \cup {n} : \E i \in 1..(k + 1) : x = r[i]
    BY <1>3, <1>4, <2>1
  <2> QED
    BY <1>3, <2>3, <2>4
<1>7. ASSUME NEW i \in 1..(k + 1), NEW j \in 1..(k + 1), i < j
      PROVE  r[i] < r[j]
  <2>1. i \in 1..k
    BY <1>1, <1>7
  <2>2. CASE j \in 1..k
    BY <1>3, <1>5, <1>7, <2>1, <2>2
  <2>3. CASE j = k + 1
    <3>1. r[i] \in S
      BY <1>3, <1>5, <2>1
    <3> QED
      BY <1>3, <2>3, <3>1
  <2> QED
    BY <1>4, <2>2, <2>3
<1>8. \A i, j \in DOMAIN r : i < j => r[i] < r[j]
  BY <1>3, <1>7
<1> QED
  BY <1>2, <1>6, <1>8 DEF Listed

OwnedBy(u) == {e \in Ids : escrow[e].depositor = u}

\* The new escrow enters the books as Active, listed under its depositor.
LEMMA CreateBooks ==
  ASSUME TypeOK, BooksAgree, NEW t \in Terms, CreateEscrow(t)
  PROVE  BooksAgree'
<1>1. PICK n : n = EscrowCounter + 1
  OBVIOUS
<1>2. PICK d : d = t.depositor
  OBVIOUS
<1>3. /\ t \in TermsRecord /\ d \in Users /\ t.amount \in Int
      /\ EscrowCounter' = n /\ reversals' = reversals /\ releases' = releases
      /\ UserEscrows' = [UserEscrows EXCEPT ![d] = Append(@, n)]
      /\ escrow' = [e \in Ids \cup {n} |->
                      IF e = n
                      THEN [depositor |-> d, recipient |-> t.recipient,
                            arbiter |-> t.arbiter, amount |-> t.amount,
                            deadline |-> t.deadline, status |-> "Active"]
                      ELSE escrow[e]]
  BY <1>1, <1>2, InputAssumption DEF CreateEscrow, StoreEscrow, TermsRecord
<1>4. /\ EscrowCounter \in Nat /\ Ids = 1..EscrowCounter /\ n \notin Ids
      /\ Ids \cup {n} = 1..n /\ n \in Nat
      /\ AmountOf \in [1..EscrowCounter -> Int]
  BY <1>1, AmountsType
<1>5. /\ Ids' = 1..n /\ \A e \in Ids : escrow'[e] = escrow[e]
      /\ escrow'[n].status = "Active" /\ escrow'[n].amount = t.amount
      /\ escrow'[n].depositor = d
  BY <1>3, <1>4 DEF Ids
<1>6. ASSUME NEW st \in {"Released", "Reversed"}
      PROVE  InStatus(st)' = InStatus(st) /\ Worth(InStatus(st))' = Worth(InStatus(st))
  <2>1. InStatus(st)' = InStatus(st)
    BY <1>4, <1>5 DEF InStatus
  <2>2. PICK new : new = Masked(AmountOf', InStatus(st)')
    OBVIOUS
  <2>3. PICK old : old = Masked(AmountOf, InStatus(st))
    OBVIOUS
  <2>4. AmountOf' = [e \in 1..n |-> escrow'[e].amount]
    BY <1>5 DEF AmountOf
  <2>5. \A e \in 1..EscrowCounter : e \in 1..n /\ new[e] = old[e] /\ new[e] \in Int
    BY <1>4, <1>5, <2>1, <2>2, <2>3, <2>4 DEF Masked, AmountOf
  <2>6. new[n] = 0 /\ n \in 1..n
    BY <1>1, <1>4, <2>1, <2>2, <2>4 DEF Masked, InStatus
  <2>7. SumTo(new, EscrowCounter + 1) = SumTo(new, EscrowCounter) + new[EscrowCounter + 1]
    <3>1. \A e \in 1..(EscrowCounter + 1) : e \in 1..EscrowCounter \/ e = n
      BY <1>1, <1>4
    <3>2. \A e \in 1..(EscrowCounter + 1) : new[e] \in Int
      BY <2>5, <2>6, <3>1
    <3> QED
      BY <1>4, <3>2, SumStep
  <2>8. SumTo(new, EscrowCounter) = SumTo(old, EscrowCounter)
    BY <1>4, <2>5, SumCongruence
  <2>9. SumTo(new, EscrowCounter) \in Int
    BY <1>4, <2>5, SumType
  <2>10. SumTo(new, n) = SumTo(old, EscrowCounter)
    BY <1>1, <2>6, <2>7, <2>8, <2>9
  <2> QED
    BY <1>3, <2>1, <2>2, <2>3, <2>10 DEF Worth
<1>7. StatisticsAgree'
  <2>1. StatisticsAgree
    BY DEF BooksAgree
  <2> QED
    BY <1>3, <1>6, <2>1 DEF StatisticsAgree, InStatus, Worth
<1>8. ASSUME NEW u \in Users PROVE Listed(UserEscrows'[u], OwnedBy(u)')
  <2>1. Listed(UserEscrows[u], OwnedBy(u)) /\ UserEscrows[u] \in Seq(Nat)
    BY DEF BooksAgree, IndexIsComplete, Listed, OwnedBy, TypeOK
  <2>2. OwnedBy(u) \in SUBSET Nat /\ \A e \in OwnedBy(u) : e < n
    BY <1>1, <1>4 DEF OwnedBy
  <2>3. OwnedBy(u)' = IF u = d THEN OwnedBy(u) \cup {n} ELSE OwnedBy(u)
    BY <1>4, <1>5 DEF OwnedBy
  <2>4. UserEscrows'[u] = IF u = d THEN Append(UserEscrows[u], n) ELSE UserEscrows[u]
    BY <1>3 DEF TypeOK
  <2>5. PICK s : s = UserEscrows[u]
    OBVIOUS
  <2>6. PICK S : S = OwnedBy(u)
    OBVIOUS
  <2>7. Listed(Append(s, n), S \cup {n})
    BY <1>4, <2>1, <2>2, <2>5, <2>6, ListAppend
  <2> QED
    BY <2>1, <2>3, <2>4, <2>5, <2>6, <2>7
<1>9. IndexIsComplete'
  BY <1>8 DEF IndexIsComplete, Listed, OwnedBy
<1> QED
  BY <1>7, <1>9 DEF BooksAgree

\* Calls that keep every record and its depositor, and the lists, keep the index.
LEMMA IndexKept ==
  ASSUME IndexIsComplete, UserEscrows' = UserEscrows, Ids' = Ids,
         \A e \in Ids : escrow'[e].depositor = escrow[e].depositor
  PROVE  IndexIsComplete'
<1>1. \A u \in Users : {e \in Ids : escrow[e].depositor = u}'
                        = {e \in Ids : escrow[e].depositor = u}
  OBVIOUS
<1> QED
  BY <1>1 DEF IndexIsComplete

\* A single release adds an escrow to the Released ones, which the totals of the
\* release batches never exceed.
LEMMA ReleaseBooks ==
  ASSUME TypeOK, BooksAgree, NEW c \in Users, NEW x \in Ids, ReleaseEscrow(c, x)
  PROVE  BooksAgree'
<1>1. /\ escrow' = [escrow EXCEPT ![x].status = "Released"]
      /\ escrow[x].status = "Active" /\ EscrowCounter' = EscrowCounter
      /\ reversals' = reversals /\ releases' = releases /\ UserEscrows' = UserEscrows
  BY DEF ReleaseEscrow
<1>2. Ids' = Ids /\ \A e \in Ids : escrow[e] \in EscrowRecord
  BY <1>1 DEF Ids, TypeOK
<1>3. \A e \in Ids : /\ escrow'[e].amount = escrow[e].amount
                     /\ escrow'[e].depositor = escrow[e].depositor
                     /\ escrow'[e].status = IF e = x THEN "Released" ELSE escrow[e].status
  BY <1>1, <1>2 DEF EscrowRecord, Ids
<1>4. AmountOf' = AmountOf
  BY <1>2, <1>3 DEF AmountOf
<1>5. InStatus("Reversed")' = InStatus("Reversed")
      /\ InStatus("Released")' = InStatus("Released") \cup {x}
      /\ InStatus("Released") \cap {x} = {} /\ InStatus("Released") \in SUBSET Ids
  BY <1>1, <1>2, <1>3 DEF InStatus
<1>6. /\ Worth(InStatus("Reversed"))' = Worth(InStatus("Reversed"))
      /\ Worth(InStatus("Released"))' = Worth(InStatus("Released") \cup {x})
  BY <1>1, <1>4, <1>5 DEF Worth
<1>7. /\ Cardinality(InStatus("Released") \cup {x})
           = Cardinality(InStatus("Released")) + Cardinality({x})
      /\ Worth(InStatus("Released") \cup {x}) = Worth(InStatus("Released")) + Worth({x})
  <2>1. {x} \in SUBSET Ids
    OBVIOUS
  <2> QED
    BY <1>5, <2>1, WorthJoin
<1>8. /\ Cardinality({x}) \in Nat /\ Worth({x}) \in Nat
      /\ Cardinality(InStatus("Released")) \in Nat /\ Worth(InStatus("Released")) \in Nat
  <2>1. {x} \in SUBSET Ids
    OBVIOUS
  <2> QED
    BY <1>5, <2>1, StatusFacts
<1>9. releases.escrows \in Nat /\ releases.amount \in Nat
  BY DEF TypeOK, Statistics
<1>10. /\ reversals.escrows = Cardinality(InStatus("Reversed"))
       /\ reversals.amount = Worth(InStatus("Reversed"))
       /\ releases.escrows <= Cardinality(InStatus("Released"))
       /\ releases.amount <= Worth(InStatus("Released"))
  BY DEF BooksAgree, StatisticsAgree, InStatus, Worth
<1>11. /\ reversals.escrows = Cardinality(InStatus("Reversed")')
       /\ reversals.amount = Worth(InStatus("Reversed"))'
       /\ releases.escrows <= Cardinality(InStatus("Released")')
       /\ releases.amount <= Worth(InStatus("Released"))'
  BY <1>5, <1>6, <1>7, <1>8, <1>9, <1>10
<1>12. StatisticsAgree'
  BY <1>1, <1>11 DEF StatisticsAgree, InStatus, Worth
<1>13. IndexIsComplete'
  BY <1>1, <1>2, <1>3, IndexKept DEF BooksAgree
<1> QED
  BY <1>12, <1>13 DEF BooksAgree

\* A batch without repeats keeps totals, statuses and indexes in step.
LEMMA BooksNext ==
  ASSUME \A b \in Batches : RepeatFree(b), TypeInv, BooksAgree, [Next]_vars
  PROVE  BooksAgree'
<1>0. /\ TypeOK /\ IndexIsComplete
      /\ reversals.escrows = Cardinality(InStatus("Reversed"))
      /\ reversals.amount = Worth(InStatus("Reversed"))
      /\ releases.escrows <= Cardinality(InStatus("Released"))
      /\ releases.amount <= Worth(InStatus("Released"))
  BY DEF TypeInv, BooksAgree, StatisticsAgree, InStatus, Worth
<1>1. ASSUME NEW st
      PROVE  Cardinality(InStatus(st)) \in Nat /\ Worth(InStatus(st)) \in Nat
  <2>1. InStatus(st) \in SUBSET Ids
    BY DEF InStatus
  <2> QED
    BY <1>0, <2>1, StatusFacts
<1>2. ASSUME NEW a \in Users, Initialize(a) PROVE BooksAgree'
  <2>1. /\ EscrowCounter = 0 /\ EscrowCounter' = 0 /\ escrow' = escrow
        /\ UserEscrows' = UserEscrows
        /\ reversals' = ZeroStatistics /\ releases' = ZeroStatistics
    BY <1>2 DEF Initialize, TypeInv
  <2>2. Ids = {} /\ Ids' = {}
    BY <1>0, <2>1, AmountsType DEF Ids
  <2>3. \A st : InStatus(st)' = {}
    BY <2>2 DEF InStatus
  <2>4. \A st : Worth(InStatus(st))' = 0
    <3> TAKE st
    <3>1. Worth(InStatus(st))' = SumTo(Masked(AmountOf', InStatus(st)'), 0)
      BY <2>1 DEF Worth
    <3> QED
      BY <3>1, SumZero
  <2>5. Cardinality({}) = 0
    BY FS_EmptySet
  <2>6. StatisticsAgree'
    BY <2>1, <2>3, <2>4, <2>5 DEF StatisticsAgree, InStatus, Worth, ZeroStatistics
  <2>7. IndexIsComplete'
    BY <1>0, <2>1, <2>2, IndexKept
  <2> QED
    BY <2>6, <2>7 DEF BooksAgree
<1>3. ASSUME NEW t \in Terms, CreateEscrow(t) PROVE BooksAgree'
  BY <1>0, <1>3, CreateBooks
<1>4. ASSUME NEW c \in Users, NEW e \in Ids, ReleaseEscrow(c, e) PROVE BooksAgree'
  BY <1>0, <1>4, ReleaseBooks
<1>5. ASSUME NEW c \in Users, NEW b \in Batches, BatchReverseEscrows(c, b) PROVE BooksAgree'
  <2>1. PICK valid : valid = {e \in Ids : ValidReversal(c, e)}
    OBVIOUS
  <2>2. /\ escrow' = Settled(b, valid, "Reversed")
        /\ reversals' = Counted(reversals, b, valid)
        /\ releases' = releases /\ EscrowCounter' = EscrowCounter
        /\ UserEscrows' = UserEscrows
    BY <1>5, <2>1 DEF BatchReverseEscrows
  <2>3. valid \in SUBSET ActiveIds /\ RepeatFree(b)
    BY <2>1 DEF ValidReversal, ActiveIds
  <2>4. /\ Cardinality(InStatus("Reversed"))'
             = Cardinality(InStatus("Reversed")) + Successes(b, valid)
        /\ Worth(InStatus("Reversed"))'
             = Worth(InStatus("Reversed")) + SumTo(Due(b, valid), Len(b))
        /\ InStatus("Released")' = InStatus("Released")
        /\ Worth(InStatus("Released"))' = Worth(InStatus("Released"))
        /\ Ids' = Ids /\ \A e \in Ids : escrow'[e].depositor = escrow[e].depositor
    BY <1>0, <2>2, <2>3, SettledBooks
  <2>5. /\ reversals'.escrows = Cardinality(InStatus("Reversed"))'
        /\ reversals'.amount = Worth(InStatus("Reversed"))'
    BY <1>0, <2>2, <2>4 DEF Counted
  <2>6. StatisticsAgree'
    BY <1>0, <2>2, <2>4, <2>5 DEF StatisticsAgree, InStatus, Worth
  <2>7. IndexIsComplete'
    BY <1>0, <2>2, <2>4, IndexKept
  <2> QED
    BY <2>6, <2>7 DEF BooksAgree
<1>6. ASSUME NEW c \in Users, NEW b \in Batches, BatchReleaseEscrows(c, b) PROVE BooksAgree'
  <2>1. PICK valid : valid = {e \in Ids : ValidRelease(c, e)}
    OBVIOUS
  <2>2. /\ escrow' = Settled(b, valid, "Released")
        /\ releases' = Counted(releases, b, valid)
        /\ reversals' = reversals /\ EscrowCounter' = EscrowCounter
        /\ UserEscrows' = UserEscrows
    BY <1>6, <2>1 DEF BatchReleaseEscrows
  <2>3. valid \in SUBSET ActiveIds /\ valid \in SUBSET Ids /\ RepeatFree(b)
    BY <2>1 DEF ValidRelease, ActiveIds
  <2>4. /\ Cardinality(InStatus("Released"))'
             = Cardinality(InStatus("Released")) + Successes(b, valid)
        /\ Worth(InStatus("Released"))'
             = Worth(InStatus("Released")) + SumTo(Due(b, valid), Len(b))
        /\ InStatus("Reversed")' = InStatus("Reversed")
        /\ Worth(InStatus("Reversed"))' = Worth(InStatus("Reversed"))
        /\ Ids' = Ids /\ \A e \in Ids : escrow'[e].depositor = escrow[e].depositor
    BY <1>0, <2>2, <2>3, SettledBooks
  <2>5. Successes(b, valid) \in Nat /\ SumTo(Due(b, valid), Len(b)) \in Nat
    BY <1>0, <2>3, BatchCounts
  <2>6. /\ releases.escrows \in Nat /\ releases.amount \in Nat
        /\ releases'.escrows = releases.escrows + Successes(b, valid)
        /\ releases'.amount = releases.amount + SumTo(Due(b, valid), Len(b))
    BY <1>0, <2>2 DEF Counted, TypeOK, Statistics
  <2>7. /\ releases'.escrows <= Cardinality(InStatus("Released"))'
        /\ releases'.amount <= Worth(InStatus("Released"))'
    BY <1>0, <1>1, <2>4, <2>5, <2>6
  <2>8. StatisticsAgree'
    BY <1>0, <2>2, <2>4, <2>7 DEF StatisticsAgree, InStatus, Worth
  <2>9. IndexIsComplete'
    BY <1>0, <2>2, <2>4, IndexKept
  <2> QED
    BY <2>8, <2>9 DEF BooksAgree
<1>7. ASSUME \/ \E c, a \in Users : SetAdmin(c, a)
             \/ CloseLedger \/ UNCHANGED vars
      PROVE  BooksAgree'
  <2>1. UNCHANGED <<escrow, EscrowCounter, UserEscrows, reversals, releases>>
    BY <1>7 DEF SetAdmin, CloseLedger, vars
  <2>2. StatisticsAgree'
    BY <2>1 DEF BooksAgree, StatisticsAgree, AmountOf, Ids
  <2>3. IndexIsComplete'
    BY <1>0, <2>1, IndexKept DEF Ids
  <2> QED
    BY <2>2, <2>3 DEF BooksAgree
<1> QED
  BY <1>2, <1>3, <1>4, <1>5, <1>6, <1>7 DEF Next

\* If no request vector repeats an escrow id, the books agree in every reachable
\* state: the reversal totals are the reversed escrows and their amounts, the
\* release totals stay within the released ones, and get_user_escrows lists
\* every depositor's escrows once, in order of creation.
THEOREM BooksHold ==
  ASSUME \A b \in Batches : RepeatFree(b)
  PROVE  Spec => []BooksAgree
<1>1. Init => BooksAgree
  <2> SUFFICES ASSUME Init PROVE BooksAgree
    OBVIOUS
  <2>1. /\ Ids = {} /\ EscrowCounter = 0
        /\ reversals = ZeroStatistics /\ releases = ZeroStatistics
    BY DEF Init, Ids
  <2>2. \A st : InStatus(st) = {} /\ Worth(InStatus(st)) = 0
    <3> TAKE st
    <3>1. InStatus(st) = {}
      BY <2>1 DEF InStatus
    <3>2. Worth(InStatus(st)) = 0
      BY <2>1, SumZero DEF Worth
    <3> QED
      BY <3>1, <3>2
  <2>3. Cardinality({}) = 0
    BY FS_EmptySet
  <2>4. StatisticsAgree
    BY <2>1, <2>2, <2>3 DEF StatisticsAgree, InStatus, Worth, ZeroStatistics
  <2>5. IndexIsComplete
    <3>1. \A u \in Users : UserEscrows[u] = << >>
      BY DEF Init
    <3>2. \A u \in Users : DOMAIN UserEscrows[u] = {}
      BY <3>1
    <3> QED
      BY <2>1, <3>2 DEF IndexIsComplete
  <2> QED
    BY <2>4, <2>5 DEF BooksAgree
<1>2. TypeInv /\ BooksAgree /\ [Next]_vars => BooksAgree'
  BY BooksNext
<1> QED
  BY <1>1, <1>2, TypeInvInit, TypeInvNext, PTL DEF Spec
===============================================================================
