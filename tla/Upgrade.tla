------------------------------- MODULE Upgrade -------------------------------
(***************************************************************************)
(* contract-upgrade: a contract that replaces its own code.  A signer      *)
(* schedules an upgrade, others approve it, and once a threshold of        *)
(* approvals and a timelock are met a signer executes it.  `code` is the   *)
(* crate whose code runs: "old" (old_contract) or "new" (new_contract),    *)
(* which differs in demanding the key NewAdmin before it upgrades and in   *)
(* handle_upgrade, the migration that writes it.  The storage survives an  *)
(* upgrade: only the code changes.                                         *)
(***************************************************************************)
EXTENDS Integers, Sequences, FiniteSets, Functions

CONSTANTS Accounts,
          UpgradeAdmin,      \* Admin: fixed by the constructor, written by nothing else
          Versions,          \* the version numbers a signer may ask for
          Delays, DEFAULT_TIMELOCK_DELAY,
          MaxUpgradeTime,    \* bound: the latest ledger timestamp
          NoUpgrade          \* the key PendingUpgrade is not stored

VARIABLES code, hasNewAdmin, Version, Signers, Threshold, TimelockDelay, Pending, upgradeTime

upgradeVars ==
  <<code, hasNewAdmin, Version, Signers, Threshold, TimelockDelay, Pending, upgradeTime>>

UpgradeAssumption ==
  /\ IsFiniteSet(Accounts) /\ UpgradeAdmin \in Accounts
  /\ Versions \subseteq Nat /\ Delays \subseteq Nat
  /\ DEFAULT_TIMELOCK_DELAY \in Nat /\ MaxUpgradeTime \in Nat

Upgrades == [wasm : {"old", "new"}, new_version : Nat, execute_at : Nat,
             approvals : Seq(Accounts)]

UpgradeTypeOK ==
  /\ code \in {"old", "new"} /\ hasNewAdmin \in BOOLEAN /\ Version \in Nat
  /\ Signers \subseteq Accounts /\ Threshold \in Nat /\ TimelockDelay \in Nat
  /\ Pending # NoUpgrade => Pending \in Upgrades
  /\ upgradeTime \in Nat

UpgradeInit ==
  /\ \/ code = "old" /\ hasNewAdmin = FALSE /\ Version = 1
     \/ code = "new" /\ hasNewAdmin = TRUE /\ Version = 2
  /\ Signers = {UpgradeAdmin} /\ Threshold = 1 /\ TimelockDelay = DEFAULT_TIMELOCK_DELAY
  /\ Pending = NoUpgrade /\ upgradeTime = 0

----------------------------------------------------------------------------
\* The migration.  Signers and TimelockDelay exist since the construction.
HandleUpgrade ==
  /\ code = "new"
  /\ hasNewAdmin' = TRUE /\ Version' = 2
  /\ UNCHANGED <<code, Signers, Threshold, TimelockDelay, Pending, upgradeTime>>

ValidSignerConfig(signers, threshold) ==
  signers # {} /\ threshold \in 1 .. Cardinality(signers)

\* Signed by the administrator.  A pending upgrade keeps the approvals it has.
SetUpgradeSigners(signers, threshold) ==
  /\ ValidSignerConfig(signers, threshold)
  /\ Signers' = signers /\ Threshold' = threshold
  /\ UNCHANGED <<code, hasNewAdmin, Version, TimelockDelay, Pending, upgradeTime>>

SetTimelockDelay(delay) ==
  /\ TimelockDelay' = delay
  /\ UNCHANGED <<code, hasNewAdmin, Version, Signers, Threshold, Pending, upgradeTime>>

\* The critical state the running code demands before it upgrades.
AdminKnown == code = "new" => hasNewAdmin

ScheduleUpgrade(signer, wasm, newVersion) ==
  /\ signer \in Signers /\ Pending = NoUpgrade
  /\ newVersion > Version /\ AdminKnown
  /\ Pending' = [wasm |-> wasm, new_version |-> newVersion,
                 execute_at |-> upgradeTime + TimelockDelay, approvals |-> <<signer>>]
  /\ UNCHANGED <<code, hasNewAdmin, Version, Signers, Threshold, TimelockDelay, upgradeTime>>

MayApprove(signer) == signer \in Signers /\ signer \notin Range(Pending.approvals)

ApproveUpgrade(signer) ==
  /\ Pending # NoUpgrade /\ MayApprove(signer)
  /\ Pending' = [Pending EXCEPT !.approvals = Append(@, signer)]
  /\ UNCHANGED <<code, hasNewAdmin, Version, Signers, Threshold, TimelockDelay, upgradeTime>>

CancelUpgrade(signer) ==
  /\ signer \in Signers \cup {UpgradeAdmin} /\ Pending # NoUpgrade
  /\ Pending' = NoUpgrade
  /\ UNCHANGED <<code, hasNewAdmin, Version, Signers, Threshold, TimelockDelay, upgradeTime>>

ExecuteUpgrade(executor) ==
  /\ executor \in Signers /\ Pending # NoUpgrade
  /\ Len(Pending.approvals) >= Threshold /\ upgradeTime >= Pending.execute_at
  /\ Pending.new_version > Version /\ AdminKnown
  /\ Version' = Pending.new_version /\ code' = Pending.wasm /\ Pending' = NoUpgrade
  /\ UNCHANGED <<hasNewAdmin, Signers, Threshold, TimelockDelay, upgradeTime>>

CloseUpgradeLedger ==
  /\ upgradeTime < MaxUpgradeTime /\ upgradeTime' = upgradeTime + 1
  /\ UNCHANGED <<code, hasNewAdmin, Version, Signers, Threshold, TimelockDelay, Pending>>

Configuring == \/ HandleUpgrade
               \/ \E signers \in SUBSET Accounts, threshold \in 0 .. Cardinality(Accounts) + 1 :
                    SetUpgradeSigners(signers, threshold)
               \/ \E delay \in Delays : SetTimelockDelay(delay)
               \/ CloseUpgradeLedger

Upgrading == \E a \in Accounts :
               \/ \E wasm \in {"old", "new"}, v \in Versions : ScheduleUpgrade(a, wasm, v)
               \/ ApproveUpgrade(a) \/ CancelUpgrade(a) \/ ExecuteUpgrade(a)

UpgradeNext == Configuring \/ Upgrading
UpgradeSpec == UpgradeInit /\ [][UpgradeNext]_upgradeVars

----------------------------------------------------------------------------
\* Approvals are counted, so each must be of another account.
ApprovedOnce == Pending # NoUpgrade => IsInjective(Pending.approvals)

\* A pending upgrade never becomes one that execute_upgrade refuses for its
\* version, though handle_upgrade writes the version without looking at it.
PendingIsNewer == Pending # NoUpgrade => Pending.new_version > Version

\* Whatever the administrator makes of the signers while an upgrade waits, the
\* signers of the day can bring it to the threshold: nothing pending is stuck
\* for want of people who may still approve.
AlwaysApprovable ==
  /\ Threshold \in 1 .. Cardinality(Signers)
  /\ Pending # NoUpgrade => Cardinality(Range(Pending.approvals) \cup Signers) >= Threshold

\* Running new code with its migration not done, no upgrade can be waiting.
MigratedFirst == Pending # NoUpgrade /\ code = "new" => hasNewAdmin

UpgradeSafe == ApprovedOnce /\ PendingIsNewer /\ AlwaysApprovable /\ MigratedFirst

\* Code is replaced only by an upgrade that a threshold of different accounts
\* approved and that has waited; a version falls only by the migration, to 2.
UpgradesApproved ==
  [][/\ code' # code => /\ Pending # NoUpgrade
                        /\ Cardinality(Range(Pending.approvals)) >= Threshold
                        /\ upgradeTime >= Pending.execute_at
     /\ Version' < Version => Version' = 2 /\ code' = code]_upgradeVars
===============================================================================
