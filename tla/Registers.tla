------------------------------ MODULE Registers ------------------------------
(***************************************************************************)
(* Contracts that keep registers and their indexes, each with storage of   *)
(* its own: recorded transactions (contracts/transactions), users          *)
(* (contracts/users), the audit log (contracts/audit), the transaction     *)
(* history (contracts/history.rs), its archive (archive.rs), snapshots of  *)
(* budgets (snapshots.rs) and a sequence of transactions                   *)
(* (contracts/transactional).  They have no variable in common but the     *)
(* ledger number, which stands for the time as well.                       *)
(***************************************************************************)
EXTENDS Integers, FiniteSets, SequencesExt

CONSTANTS Users, Unset,
          Entries,            \* [from, to, amount, memo] of create_transaction
          Amounts,            \* values tried by update_transaction_amount
          MIN_AMOUNT, MAX_AMOUNT, MAX_PER_USER, DUPLICATE_WINDOW,
          PageSizes,
          Currencies, Nicknames,
          AuditBatches,       \* lists of [actor, timestamp]
          MetadataSizes,      \* of log_audit and set_max_metadata_size; Unset is no metadata
          MAX_AUDIT_BATCH,
          ArchiveLists,       \* lists of the timestamps of the records to archive
          ArchiveThresholds, PeriodDurations,
          TxIds, TxAmounts,   \* of add_transaction
          MaxRecords, MaxLedger

VARIABLES
  recordsAdmin, Transaction, UserTransactions, AllTransactions, TransactionCounter,
  usersAdmin, Registered, UserCount, DefaultCurrency, UserActive, UserCurrency,
  UserLastLogin, UserNickname,
  auditAdmin, MaxMetadataSize, AuditLog, TotalAuditLogs,
  historyAdmin, HistoryRecord, TransactionIndex, UserTransactionIndex, TransactionCount,
  archiveAdmin, ArchiveThreshold, ArchiveBatch, snapshotAdmin, PeriodDuration, Snapshot,
  TxSeq, TxAmount,
  ledger

recordVars == <<recordsAdmin, Transaction, UserTransactions, AllTransactions, TransactionCounter>>
userVars == <<usersAdmin, Registered, UserCount, DefaultCurrency, UserActive, UserCurrency,
              UserLastLogin, UserNickname>>
auditVars == <<auditAdmin, MaxMetadataSize, AuditLog, TotalAuditLogs>>
historyVars == <<historyAdmin, HistoryRecord, TransactionIndex, UserTransactionIndex,
                 TransactionCount>>
archiveVars == <<archiveAdmin, ArchiveThreshold, ArchiveBatch>>
snapshotVars == <<snapshotAdmin, PeriodDuration, Snapshot>>
sequenceVars == <<TxSeq, TxAmount>>
keptVars == <<archiveVars, snapshotVars, sequenceVars>>
vars == <<recordVars, userVars, auditVars, historyVars, keptVars, ledger>>

Listed(list) == {list[k] : k \in DOMAIN list}
Without(f, k) == Restrict(f, DOMAIN f \ {k})
Nothing == [k \in {} |-> Unset]

Init ==
  /\ recordsAdmin = Unset /\ Transaction = Nothing /\ TransactionCounter = 0
  /\ UserTransactions = [u \in Users |-> << >>] /\ AllTransactions = << >>
  /\ usersAdmin = Unset /\ Registered = {} /\ UserCount = 0 /\ UserActive = Nothing
  /\ DefaultCurrency = Nothing /\ UserCurrency = Nothing
  /\ UserLastLogin = Nothing /\ UserNickname = Nothing
  /\ auditAdmin = Unset /\ MaxMetadataSize = Unset /\ AuditLog = Nothing /\ TotalAuditLogs = 0
  /\ historyAdmin = Unset /\ HistoryRecord = Nothing /\ TransactionIndex = << >>
  /\ UserTransactionIndex = [u \in Users |-> << >>] /\ TransactionCount = 0
  /\ archiveAdmin = Unset /\ ArchiveThreshold = Unset /\ ArchiveBatch = << >>
  /\ snapshotAdmin = Unset /\ PeriodDuration = Unset /\ Snapshot = Nothing
  /\ TxSeq = << >> /\ TxAmount = Nothing
  /\ ledger = 1

CloseLedger == ledger < MaxLedger /\ ledger' = ledger + 1

------------------------------------------------------------------------------
(* Recorded transactions                                                   *)

InitializeRecords(admin) ==
  /\ recordsAdmin = Unset /\ recordsAdmin' = admin
  /\ UNCHANGED <<Transaction, UserTransactions, AllTransactions, TransactionCounter>>

\* One of the sender's last few records has the same recipient, amount and memo.
IsDuplicate(e) ==
  LET ids == UserTransactions[e.from] IN
  \E k \in DOMAIN ids :
    /\ k > Len(ids) - DUPLICATE_WINDOW
    /\ LET t == Transaction[ids[k]] IN t.to = e.to /\ t.amount = e.amount /\ t.memo = e.memo

\* create_transaction of the storage module.
Record(e) ==
  LET id == TransactionCounter + 1 IN
  /\ id <= MaxRecords
  /\ Len(UserTransactions[e.from]) < MAX_PER_USER
  /\ TransactionCounter' = id
  /\ Transaction' = (id :> [from |-> e.from, to |-> e.to, amount |-> e.amount, memo |-> e.memo,
                            status |-> "Completed", timestamp |-> ledger]) @@ Transaction
  /\ AllTransactions' = Append(AllTransactions, id)
  /\ UserTransactions' = [UserTransactions EXCEPT ![e.from] = Append(@, id)]
  /\ UNCHANGED recordsAdmin

CreateTransaction(e) ==
  /\ e.amount \in MIN_AMOUNT..MAX_AMOUNT
  /\ ~IsDuplicate(e)
  /\ Record(e)

\* The sender's corrections: of the amount here, of note and metadata likewise.
UpdateTransactionAmount(caller, id, amount) ==
  /\ amount \in MIN_AMOUNT..MAX_AMOUNT
  /\ Transaction[id].from = caller
  /\ Transaction' = [Transaction EXCEPT ![id].amount = amount]
  /\ UNCHANGED <<recordsAdmin, UserTransactions, AllTransactions, TransactionCounter>>

UpdateTransactionStatus(caller, id, status) ==
  /\ caller \in {Transaction[id].from, recordsAdmin}
  /\ Transaction' = [Transaction EXCEPT ![id].status = status]
  /\ UNCHANGED <<recordsAdmin, UserTransactions, AllTransactions, TransactionCounter>>

LeftAfter(list, id) == SelectSeq(list, LAMBDA i : i # id)

\* The list of all records keeps the number.
DeleteTransaction(caller, id) ==
  /\ caller \in {Transaction[id].from, recordsAdmin}
  /\ Transaction' = Without(Transaction, id)
  /\ UserTransactions' = [UserTransactions EXCEPT ![Transaction[id].from] = LeftAfter(@, id)]
  /\ UNCHANGED <<recordsAdmin, AllTransactions, TransactionCounter>>

ClearUserTransactions(u) ==
  LET ids == Listed(UserTransactions[u]) IN
  /\ Transaction' = Restrict(Transaction, DOMAIN Transaction \ (ids \cap Listed(AllTransactions)))
  /\ AllTransactions' = SelectSeq(AllTransactions, LAMBDA i : i \notin ids)
  /\ UserTransactions' = [UserTransactions EXCEPT ![u] = << >>]
  /\ UNCHANGED <<recordsAdmin, TransactionCounter>>

Existing(ids) == SelectSeq(ids, LAMBDA i : i \in DOMAIN Transaction)
TransactionsPage(offset, limit) ==
  Existing(SubSeq(AllTransactions, offset + 1,
                  IF offset + limit < Len(AllTransactions) THEN offset + limit
                  ELSE Len(AllTransactions)))

\* Newest first; in one ledger, in the order they were recorded.
SortedTransactions(u) ==
  FlattenSeq([k \in 1..MaxLedger |->
    SelectSeq(Existing(UserTransactions[u]),
              LAMBDA i : Transaction[i].timestamp = MaxLedger + 1 - k)])
\* The first one that is newer than all before it and not older than any after.
LastTransaction(u) ==
  FoldLeft(LAMBDA last, i : IF last = Unset THEN i
                            ELSE IF Transaction[i].timestamp > Transaction[last].timestamp
                                 THEN i ELSE last,
           Unset, Existing(UserTransactions[u]))

Recording ==
  /\ \/ /\ \/ \E u \in Users : InitializeRecords(u) \/ ClearUserTransactions(u)
           \/ \E e \in Entries : CreateTransaction(e)
           \/ \E u \in Users, id \in DOMAIN Transaction :
                \/ \E n \in Amounts : UpdateTransactionAmount(u, id, n)
                \/ UpdateTransactionStatus(u, id, "Cancelled")
                \/ DeleteTransaction(u, id)
        /\ UNCHANGED ledger
     \/ CloseLedger /\ UNCHANGED recordVars
  /\ UNCHANGED <<userVars, auditVars, historyVars, keptVars>>

------------------------------------------------------------------------------
(* Users                                                                   *)

InitializeUsers(admin) ==
  /\ usersAdmin = Unset /\ usersAdmin' = admin
  /\ UNCHANGED <<Registered, UserCount, DefaultCurrency, UserActive, UserCurrency,
                 UserLastLogin, UserNickname>>

AddUser(u) ==
  /\ Registered' = Registered \cup {u} /\ UserCount' = UserCount + 1
  /\ UserActive' = (u :> TRUE) @@ UserActive
RegisterUser(u) ==
  /\ u \notin Registered
  /\ AddUser(u)
  /\ UserLastLogin' = (u :> ledger) @@ UserLastLogin
  /\ UNCHANGED <<usersAdmin, DefaultCurrency, UserCurrency, UserNickname>>

ActiveAfterReset(u) == Without(UserActive, u)

\* The currency, the nickname and the time of the last login stay behind.
ResetUserData(u) ==
  /\ u \in Registered
  /\ Registered' = Registered \ {u}
  /\ UserCount' = IF UserCount > 0 THEN UserCount - 1 ELSE 0
  /\ DefaultCurrency' = Without(DefaultCurrency, u)
  /\ UserActive' = ActiveAfterReset(u)
  /\ UNCHANGED <<usersAdmin, UserCurrency, UserLastLogin, UserNickname>>

SetDefaultCurrency(u, c) ==
  /\ u \in Registered
  /\ DefaultCurrency' = (u :> c) @@ DefaultCurrency
  /\ UNCHANGED <<usersAdmin, Registered, UserCount, UserActive, UserCurrency, UserLastLogin,
                 UserNickname>>

SetUserCurrency(u, c) ==
  /\ u \in Registered
  /\ UserCurrency' = (u :> c) @@ UserCurrency
  /\ UNCHANGED <<usersAdmin, Registered, UserCount, UserActive, DefaultCurrency, UserLastLogin,
                 UserNickname>>

\* Unset leaves a setting alone; nothing at all to set changes nothing.
UpdateUserProfile(u, c, active) ==
  /\ u \in Registered
  /\ UserCurrency' = IF c = Unset THEN UserCurrency ELSE (u :> c) @@ UserCurrency
  /\ DefaultCurrency' = IF c = Unset THEN DefaultCurrency ELSE (u :> c) @@ DefaultCurrency
  /\ UserActive' = IF active = Unset THEN UserActive ELSE (u :> active) @@ UserActive
  /\ UNCHANGED <<usersAdmin, Registered, UserCount, UserLastLogin, UserNickname>>

DeactivateUser(u) ==
  /\ u \in Registered
  /\ UserActive' = (u :> FALSE) @@ UserActive
  /\ UNCHANGED <<usersAdmin, Registered, UserCount, DefaultCurrency, UserCurrency,
                 UserLastLogin, UserNickname>>

SetUserActiveStatus(caller, u, active) ==
  /\ usersAdmin # Unset /\ caller = usersAdmin
  /\ u \in Registered
  /\ UserActive' = (u :> active) @@ UserActive
  /\ UNCHANGED <<usersAdmin, Registered, UserCount, DefaultCurrency, UserCurrency,
                 UserLastLogin, UserNickname>>

UpdateNickname(u, n) ==
  /\ u \in Registered
  /\ UserNickname' = (u :> n) @@ UserNickname
  /\ UNCHANGED <<usersAdmin, Registered, UserCount, DefaultCurrency, UserActive, UserCurrency,
                 UserLastLogin>>

Registering ==
  /\ \/ /\ \/ \E u \in Users : InitializeUsers(u) \/ RegisterUser(u) \/ ResetUserData(u) \/ DeactivateUser(u)
           \/ \E u \in Users, c \in Currencies : SetDefaultCurrency(u, c) \/ SetUserCurrency(u, c)
           \/ \E u \in Users, c \in Currencies \cup {Unset}, a \in BOOLEAN \cup {Unset} :
                UpdateUserProfile(u, c, a)
           \/ \E c, u \in Users, a \in BOOLEAN : SetUserActiveStatus(c, u, a)
           \/ \E u \in Users, n \in Nicknames : UpdateNickname(u, n)
        /\ UNCHANGED ledger
     \/ CloseLedger /\ UNCHANGED userVars
  /\ UNCHANGED <<recordVars, auditVars, historyVars, keptVars>>

------------------------------------------------------------------------------
(* The audit log                                                           *)

InitializeAudit(admin, size) ==
  /\ auditAdmin = Unset /\ auditAdmin' = admin /\ MaxMetadataSize' = size
  /\ UNCHANGED <<AuditLog, TotalAuditLogs>>

\* Anybody's own entry, also before the contract is initialised.
LogAudit(actor, length) ==
  /\ TotalAuditLogs < MaxRecords
  /\ length # Unset => MaxMetadataSize # Unset /\ length <= MaxMetadataSize
  /\ TotalAuditLogs' = TotalAuditLogs + 1
  /\ AuditLog' = (TotalAuditLogs + 1 :>
       [actor |-> actor, timestamp |-> ledger]) @@ AuditLog
  /\ UNCHANGED <<auditAdmin, MaxMetadataSize>>

\* Mutant: a list starts at the number of the last entry.
NumbersFromLast(logs) == [k \in DOMAIN logs |-> TotalAuditLogs + k - 1]
Numbers(logs) == [k \in DOMAIN logs |-> TotalAuditLogs + k]

\* The administrator's entries are stored as they come: the size of their
\* metadata is not limited, and the length they state not compared with it.
BatchLogAudit(caller, logs) ==
  /\ auditAdmin # Unset /\ caller = auditAdmin
  /\ Len(logs) \in 1..MAX_AUDIT_BATCH
  /\ TotalAuditLogs + Len(logs) <= MaxRecords
  /\ \A k \in DOMAIN logs : logs[k].timestamp <= ledger
  /\ TotalAuditLogs' = TotalAuditLogs + Len(logs)
  /\ AuditLog' = FoldLeft(LAMBDA f, k : (Numbers(logs)[k] :> logs[k]) @@ f, AuditLog,
                          [k \in DOMAIN logs |-> k])
  /\ UNCHANGED <<auditAdmin, MaxMetadataSize>>

SetAuditAdmin(caller, u) ==
  /\ auditAdmin # Unset /\ caller = auditAdmin
  /\ auditAdmin' = u
  /\ UNCHANGED <<MaxMetadataSize, AuditLog, TotalAuditLogs>>

SetMaxMetadataSize(caller, size) ==
  /\ auditAdmin # Unset /\ caller = auditAdmin
  /\ MaxMetadataSize' = size
  /\ UNCHANGED <<auditAdmin, AuditLog, TotalAuditLogs>>

Auditing ==
  /\ \/ /\ \/ \E u \in Users, n \in MetadataSizes \ {Unset} :
                InitializeAudit(u, n) \/ SetMaxMetadataSize(u, n)
           \/ \E u \in Users, n \in MetadataSizes : LogAudit(u, n)
           \/ \E u \in Users, b \in AuditBatches : BatchLogAudit(u, b)
           \/ \E c, u \in Users : SetAuditAdmin(c, u)
        /\ UNCHANGED ledger
     \/ CloseLedger /\ UNCHANGED auditVars
  /\ UNCHANGED <<recordVars, userVars, historyVars, keptVars>>

------------------------------------------------------------------------------
(* The history                                                             *)

InitializeHistory(admin) ==
  /\ historyAdmin = Unset /\ historyAdmin' = admin
  /\ TransactionIndex' = << >> /\ TransactionCount' = 0
  /\ UNCHANGED <<HistoryRecord, UserTransactionIndex>>

\* A transaction is known by the time and the number of its ledger: the second
\* of a ledger takes the place of the first, and both are listed.
HistoryId == ledger
StoreTransaction(from, to, amount) ==
  /\ Len(UserTransactionIndex[from]) < MaxRecords /\ Len(UserTransactionIndex[to]) < MaxRecords
  /\ HistoryRecord' = (HistoryId :> [from |-> from, to |-> to, amount |-> amount])
                        @@ HistoryRecord
  /\ TransactionIndex' = Append(TransactionIndex, HistoryId)
  /\ UserTransactionIndex' = [u \in Users |->
       IF u \in {from, to} THEN Append(UserTransactionIndex[u], HistoryId)
       ELSE UserTransactionIndex[u]]
  /\ TransactionCount' = TransactionCount + 1
  /\ UNCHANGED historyAdmin

\* The index is emptied; nothing is listed anew.
RebuildIndex(caller) ==
  /\ historyAdmin # Unset /\ caller = historyAdmin
  /\ TransactionIndex' = << >> /\ TransactionCount' = 0
  /\ UNCHANGED <<historyAdmin, HistoryRecord, UserTransactionIndex>>

UserPage(u, page, size) ==
  LET ids == UserTransactionIndex[u]
      last == IF (page + 1) * size < Len(ids) THEN (page + 1) * size ELSE Len(ids)
  IN  [transactions |-> SubSeq(ids, page * size + 1, last), has_next |-> last < Len(ids)]

Indexing ==
  /\ \/ /\ \/ \E u \in Users : InitializeHistory(u) \/ RebuildIndex(u)
           \/ \E u, v \in Users, n \in Amounts : StoreTransaction(u, v, n)
        /\ UNCHANGED ledger
     \/ CloseLedger /\ UNCHANGED historyVars
  /\ UNCHANGED <<recordVars, userVars, auditVars, keptVars>>

------------------------------------------------------------------------------
(* The archive: batch n is ArchiveBatch[n], ArchiveBatchCount its length.  A  *)
(* record is given by the caller and stands for its timestamp.              *)

InitializeArchive(admin, threshold) ==
  /\ archiveAdmin = Unset /\ archiveAdmin' = admin /\ ArchiveThreshold' = threshold
  /\ UNCHANGED ArchiveBatch

SetArchiveThreshold(caller, threshold) ==
  /\ archiveAdmin # Unset /\ caller = archiveAdmin
  /\ threshold # 0 /\ ArchiveThreshold' = threshold
  /\ UNCHANGED <<archiveAdmin, ArchiveBatch>>

\* A saturating difference: while the threshold reaches back before time 0,
\* a record of time 0 counts as old.
Cutoff == IF ledger > ArchiveThreshold THEN ledger - ArchiveThreshold ELSE 0
OldRecords(records) == SelectSeq(records, LAMBDA t : t <= Cutoff)

ArchiveRecords(caller, records) ==
  LET old == OldRecords(records) IN
  /\ archiveAdmin # Unset /\ caller = archiveAdmin
  /\ Len(ArchiveBatch) < MaxRecords
  /\ old # << >>
  /\ ArchiveBatch' = Append(ArchiveBatch, [start_time |-> Min(Listed(old)),
                                           end_time |-> Max(Listed(old)), records |-> old])
  /\ UNCHANGED <<archiveAdmin, ArchiveThreshold>>

Archiving ==
  /\ \/ /\ \E u \in Users :
              \/ \E t \in ArchiveThresholds : InitializeArchive(u, t) \/ SetArchiveThreshold(u, t)
              \/ \E records \in ArchiveLists : ArchiveRecords(u, records)
        /\ UNCHANGED ledger
     \/ CloseLedger /\ UNCHANGED archiveVars
  /\ UNCHANGED <<recordVars, userVars, auditVars, historyVars, snapshotVars, sequenceVars>>

------------------------------------------------------------------------------
(* Snapshots of a user's budget, one per period                            *)

InitializeSnapshots(admin, duration) ==
  /\ snapshotAdmin = Unset /\ snapshotAdmin' = admin
  /\ duration # 0 /\ PeriodDuration' = duration
  /\ UNCHANGED Snapshot

CreateSnapshot(caller, u, amount, start) ==
  /\ snapshotAdmin # Unset /\ caller = snapshotAdmin
  /\ start % PeriodDuration = 0 /\ start <= ledger
  /\ Snapshot' = (<<u, start>> :> amount) @@ Snapshot
  /\ UNCHANGED <<snapshotAdmin, PeriodDuration>>

GetSnapshot(u, time) ==
  LET k == <<u, (time \div PeriodDuration) * PeriodDuration>> IN
  IF k \in DOMAIN Snapshot THEN Snapshot[k] ELSE Unset

TakingSnapshots ==
  /\ \/ /\ \E u \in Users :
              \/ \E d \in PeriodDurations : InitializeSnapshots(u, d)
              \/ \E v \in Users, n \in Amounts, t \in 0 .. MaxLedger + 1 : CreateSnapshot(u, v, n, t)
        /\ UNCHANGED ledger
     \/ CloseLedger /\ UNCHANGED snapshotVars
  /\ UNCHANGED <<recordVars, userVars, auditVars, historyVars, archiveVars, sequenceVars>>

------------------------------------------------------------------------------
(* The sequence: TxSeq(n) is TxSeq[n], Counter its length, FirstTx its head. *)

AddTransaction(id, amount) ==
  /\ id \notin DOMAIN TxAmount
  /\ TxAmount' = (id :> amount) @@ TxAmount
  /\ TxSeq' = Append(TxSeq, id)

\* The quotient is rounded towards 0.
AverageTransactionAmount ==
  LET sum == FoldLeft(LAMBDA n, id : n + TxAmount[id], 0, TxSeq)
      size == IF sum < 0 THEN -sum ELSE sum
  IN  IF TxSeq = << >> THEN 0
      ELSE IF sum < 0 THEN -(size \div Len(TxSeq)) ELSE size \div Len(TxSeq)

Sequencing ==
  /\ \E id \in TxIds, n \in TxAmounts : AddTransaction(id, n)
  /\ UNCHANGED <<recordVars, userVars, auditVars, historyVars, archiveVars, snapshotVars, ledger>>

Next == Recording \/ Registering \/ Auditing \/ Indexing \/ Archiving \/ TakingSnapshots \/ Sequencing
Spec == Init /\ [][Next]_vars

------------------------------------------------------------------------------
\* Every reachable state is well formed.
TypeOK ==
  /\ {recordsAdmin, usersAdmin, auditAdmin, historyAdmin} \subseteq Users \cup {Unset}
  /\ DOMAIN Transaction \subseteq 1..TransactionCounter
  /\ \A i \in DOMAIN Transaction : Transaction[i].amount \in MIN_AMOUNT..MAX_AMOUNT
  /\ DOMAIN AuditLog = 1..TotalAuditLogs
  /\ \A i \in DOMAIN AuditLog : AuditLog[i].timestamp <= ledger
  /\ auditAdmin = Unset <=> MaxMetadataSize = Unset
  /\ DOMAIN HistoryRecord \subseteq 1..ledger /\ TransactionCount \in Nat
  /\ {archiveAdmin, snapshotAdmin} \subseteq Users \cup {Unset}
  /\ archiveAdmin = Unset <=> ArchiveThreshold = Unset
  /\ snapshotAdmin = Unset <=> PeriodDuration = Unset
  /\ DOMAIN TxAmount = Listed(TxSeq)

\* The records and the two lists agree through deletions and clearings: a
\* sender's list holds its records in the order of their numbers and no other,
\* every record is in the list of all, which names a number once at most.
RecordsAgree ==
  /\ \A u \in Users :
       UserTransactions[u] =
         SelectSeq([i \in 1..TransactionCounter |-> i],
                   LAMBDA i : i \in DOMAIN Transaction /\ Transaction[i].from = u)
  /\ DOMAIN Transaction \subseteq Listed(AllTransactions)
  /\ \A j, k \in DOMAIN AllTransactions : j < k => AllTransactions[j] < AllTransactions[k]

\* Reading page after page visits every record once, however many of the
\* listed ones are deleted; so it does in the history of a user, whose last
\* page says that it is.
PagesCover ==
  \A n \in PageSizes :
    /\ FlattenSeq([k \in 1..(Len(AllTransactions) \div n + 1) |->
                     TransactionsPage((k - 1) * n, n)]) = Existing(AllTransactions)
    /\ \A u \in Users :
         LET total == Len(UserTransactionIndex[u])
             pages == {k \in 0..MaxRecords : k * n < total}
         IN  /\ FlattenSeq([k \in 1..Cardinality(pages) |-> UserPage(u, k - 1, n).transactions])
                  = UserTransactionIndex[u]
             /\ \A k \in pages : UserPage(u, k, n).has_next <=> k + 1 \in pages

\* The two ways to ask for the newest record of a user agree.
NewestAgree ==
  \A u \in Users : UserTransactions[u] # << >> => SortedTransactions(u)[1] = LastTransaction(u)

\* Users come and go and come again: the count is of those registered, and
\* only they have a switch, which is_user_active reads without asking further.
UsersAgree ==
  /\ UserCount = Cardinality(Registered)
  /\ DOMAIN UserActive = Registered
  /\ DOMAIN DefaultCurrency \subseteq Registered
  /\ Registered \subseteq DOMAIN UserLastLogin

\* A batch of the archive spans exactly its records, none of which can be from the
\* future, however the threshold was changed.  A snapshot is found at every instant
\* of its period and at no other.  The average of a sequence lies within its amounts
\* although it is rounded, negative ones included.
KeptRecordsAgree ==
  /\ \A k \in DOMAIN ArchiveBatch : LET b == ArchiveBatch[k] IN
       /\ Listed(b.records) \subseteq b.start_time .. b.end_time
       /\ {b.start_time, b.end_time} \subseteq Listed(b.records) /\ b.end_time <= ledger
  /\ PeriodDuration # Unset =>
       \A u \in Users, t \in 0..MaxLedger :
         LET starts == {p \in 0..t : <<u, p>> \in DOMAIN Snapshot /\ t < p + PeriodDuration} IN
         IF starts = {} THEN GetSnapshot(u, t) = Unset
         ELSE \A p \in starts : GetSnapshot(u, t) = Snapshot[<<u, p>>]
  /\ TxSeq # << >> =>
       LET amounts == {TxAmount[id] : id \in Listed(TxSeq)} IN
       AverageTransactionAmount \in Min(amounts) .. Max(amounts)

\* What was archived stays archived, and a record enters the archive only when it
\* is as old as the threshold of that moment says, or is of time 0.
ArchiveStands ==
  [][/\ IsPrefix(ArchiveBatch, ArchiveBatch')
     /\ \A k \in DOMAIN ArchiveBatch' \ DOMAIN ArchiveBatch :
          \A t \in Listed(ArchiveBatch'[k].records) : t = 0 \/ t + ArchiveThreshold <= ledger]_vars

\* An entry of the audit log stays as it was written, whoever administers the
\* log, and no entry written later takes its number.
AuditStands ==
  [][\A i \in DOMAIN AuditLog : i \in DOMAIN AuditLog' /\ AuditLog'[i] = AuditLog[i]]_vars

\* What was stored in a ledger that has closed stays stored: a record is
\* overwritten only by another of the same ledger.  The lists of the users
\* only grow, and name no record that is not there.
HistoryStands ==
  [][/\ \A i \in DOMAIN HistoryRecord :
          i \in DOMAIN HistoryRecord' /\ (i < ledger => HistoryRecord'[i] = HistoryRecord[i])
     /\ \A u \in Users : /\ IsPrefix(UserTransactionIndex[u], UserTransactionIndex'[u])
                         /\ Listed(UserTransactionIndex'[u]) \subseteq DOMAIN HistoryRecord']_vars
==============================================================================
