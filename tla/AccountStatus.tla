----------------------------- MODULE AccountStatus -----------------------------
(***************************************************************************)
(* Frozen accounts (contracts/account_status.rs), notification preferences *)
(* (contracts/preference.rs), who holds which role (access-control, one    *)
(* administrator grants and revokes) and a contract whose administrator    *)
(* may pause it (pausable): four contracts with no shared storage.         *)
(***************************************************************************)
EXTENDS Integers, FiniteSets, Sequences, FiniteSetsExt, TLC

CONSTANTS Users, Unset,
          Subscribers,       \* the users with preferences
          ReasonLengths, MAX_REASON_LEN,
          Expiries,          \* expires_at arguments; 0: until unfrozen
          EventTypes, Channels,
          Masks,             \* event_mask arguments, as sets of event types
          MaxFreezes, MaxUpdates, MaxTime,  \* bounds of the model
          MaxAssignments                    \* bound: the counter of role assignments

VARIABLES SuperAdmin, AdminList,   \* the list as a set: no address is in it twice
          Status,                  \* DataKey::AccountStatus(user)
          FreezeCount,
          timestamp,
          preferenceAdmin,
          UserPreferences,         \* user -> channel -> enabled and event_mask, updates
          rolesAdmin, UserRoles, TotalRoleAssignments,
          pausableAdmin, Paused

statusVars == <<SuperAdmin, AdminList, Status, FreezeCount, timestamp>>
preferenceVars == <<preferenceAdmin, UserPreferences>>
roleVars == <<rolesAdmin, UserRoles, TotalRoleAssignments>>
pauseVars == <<pausableAdmin, Paused>>
vars == <<statusVars, preferenceVars, roleVars, pauseVars>>

RoleNames == {"Admin", "User", "Operator", "Auditor"}

NeverFrozen == [frozen |-> FALSE, frozen_by |-> Unset, expires_at |-> 0, freeze_count |-> 0]

\* Only the on-chain channel is on, for every event.
DefaultPreferences ==
  [channel |-> [c \in Channels |->
                  IF c = "OnChain" THEN [enabled |-> TRUE, event_mask |-> EventTypes]
                                   ELSE [enabled |-> FALSE, event_mask |-> {}]],
   update_count |-> 0]

Init ==
  /\ SuperAdmin = Unset /\ AdminList = {} /\ Status = [u \in Users |-> NeverFrozen]
  /\ FreezeCount = 0 /\ timestamp = 0
  /\ preferenceAdmin = Unset /\ UserPreferences = [u \in Subscribers |-> DefaultPreferences]
  /\ rolesAdmin = Unset /\ UserRoles = [u \in Users |-> {}] /\ TotalRoleAssignments = 0
  /\ pausableAdmin = Unset /\ Paused = FALSE

------------------------------------------------------------------------------
\* account_status.

IsSuperAdmin(caller) == SuperAdmin # Unset /\ caller = SuperAdmin
IsAdmin(caller) == SuperAdmin # Unset /\ caller \in AdminList \cup {SuperAdmin}

\* A freeze that has run out leaves frozen = TRUE in the record.
CurrentlyFrozen(r) == r.frozen /\ (r.expires_at = 0 \/ timestamp < r.expires_at)

Initialize(a) ==
  /\ SuperAdmin = Unset
  /\ SuperAdmin' = a /\ AdminList' = {} /\ FreezeCount' = 0
  /\ UNCHANGED <<Status, timestamp>>

AddAdmin(caller, a) ==
  /\ IsSuperAdmin(caller) /\ a \notin AdminList
  /\ AdminList' = AdminList \cup {a}
  /\ UNCHANGED <<SuperAdmin, Status, FreezeCount, timestamp>>

RemoveAdmin(caller, a) ==
  /\ IsSuperAdmin(caller) /\ a \in AdminList
  /\ AdminList' = AdminList \ {a}
  /\ UNCHANGED <<SuperAdmin, Status, FreezeCount, timestamp>>

\* Mutant: an account is frozen again while it is frozen.
MayFreezeAgain(target) == target # SuperAdmin
MayFreeze(target) == target # SuperAdmin /\ ~CurrentlyFrozen(Status[target])

FreezeAccount(caller, target, reason, expires_at) ==
  /\ IsAdmin(caller) /\ caller # target
  /\ MayFreeze(target)
  /\ reason <= MAX_REASON_LEN
  /\ expires_at = 0 \/ expires_at > timestamp
  /\ FreezeCount < MaxFreezes
  /\ Status' = [Status EXCEPT ![target] =
       [frozen |-> TRUE, frozen_by |-> caller, expires_at |-> expires_at,
        freeze_count |-> @.freeze_count + 1]]
  /\ FreezeCount' = FreezeCount + 1
  /\ UNCHANGED <<SuperAdmin, AdminList, timestamp>>

UnfreezeAccount(caller, target) ==
  /\ IsAdmin(caller)
  /\ CurrentlyFrozen(Status[target])
  /\ Status' = [Status EXCEPT ![target].frozen = FALSE, ![target].expires_at = 0]
  /\ UNCHANGED <<SuperAdmin, AdminList, FreezeCount, timestamp>>

CloseLedger == timestamp < MaxTime /\ timestamp' = timestamp + 1
               /\ UNCHANGED <<SuperAdmin, AdminList, Status, FreezeCount>>

Freezing ==
  /\ \/ \E a \in Users : Initialize(a)
     \/ \E c, a \in Users : AddAdmin(c, a) \/ RemoveAdmin(c, a)
     \/ \E c, t \in Users, r \in ReasonLengths, e \in Expiries : FreezeAccount(c, t, r, e)
     \/ \E c, t \in Users : UnfreezeAccount(c, t)
     \/ CloseLedger
  /\ UNCHANGED <<preferenceVars, roleVars, pauseVars>>

------------------------------------------------------------------------------
\* preference: the user alone changes the record, once the contract is initialized.

InitializePreferences(a) ==
  preferenceAdmin = Unset /\ preferenceAdmin' = a /\ UNCHANGED UserPreferences

Touched(user, channels) ==
  /\ preferenceAdmin # Unset
  /\ UserPreferences[user].update_count < MaxUpdates
  /\ UserPreferences' = [UserPreferences EXCEPT ![user] =
       [channel |-> channels, update_count |-> @.update_count + 1]]
  /\ UNCHANGED preferenceAdmin

SetPreferences(user, channels) == Touched(user, channels)

\* Switching a channel leaves the events chosen for it.
Switched(r, enabled) == [r EXCEPT !.enabled = enabled]

UpdateChannel(user, c, enabled) ==
  LET now == UserPreferences[user].channel IN
  Touched(user, [now EXCEPT ![c] = Switched(@, enabled)])

UpdateEventType(user, c, e, enabled) ==
  LET now == UserPreferences[user].channel IN
  Touched(user, [now EXCEPT ![c].event_mask = IF enabled THEN @ \cup {e} ELSE @ \ {e}])

\* The channels dispatch_notification publishes an event on.
Dispatched(user, e) ==
  {c \in Channels : /\ UserPreferences[user].channel[c].enabled
                    /\ e \in UserPreferences[user].channel[c].event_mask}

Preferring ==
  /\ \/ \E a \in Users : InitializePreferences(a)
     \/ \E u \in Subscribers, on \in BOOLEAN, mask \in Masks :
          SetPreferences(u, [c \in Channels |-> [enabled |-> on, event_mask |-> mask]])
     \/ \E u \in Subscribers, c \in Channels, on \in BOOLEAN :
          \/ UpdateChannel(u, c, on)
          \/ \E e \in EventTypes : UpdateEventType(u, c, e, on)
  /\ UNCHANGED <<statusVars, roleVars, pauseVars>>

------------------------------------------------------------------------------
\* access-control and pausable, called with a signing account.

InitializeRoles(admin) ==
  /\ rolesAdmin = Unset
  /\ rolesAdmin' = admin /\ UserRoles' = [UserRoles EXCEPT ![admin] = {"Admin"}]
  /\ TotalRoleAssignments' = 1
  /\ UNCHANGED pauseVars

RequireAdmin(caller) == rolesAdmin # Unset /\ caller = rolesAdmin

GrantRole(caller, u, role) ==
  /\ RequireAdmin(caller) /\ role \notin UserRoles[u] /\ TotalRoleAssignments < MaxAssignments
  /\ UserRoles' = [UserRoles EXCEPT ![u] = @ \cup {role}]
  /\ TotalRoleAssignments' = TotalRoleAssignments + 1
  /\ UNCHANGED <<rolesAdmin, pauseVars>>

MayRevoke(caller, u, role) == RequireAdmin(caller) /\ ~(caller = u /\ role = "Admin")

RevokeRole(caller, u, role) ==
  /\ MayRevoke(caller, u, role) /\ role \in UserRoles[u]
  /\ UserRoles' = [UserRoles EXCEPT ![u] = @ \ {role}]
  /\ TotalRoleAssignments' = IF TotalRoleAssignments > 0 THEN TotalRoleAssignments - 1
                             ELSE TotalRoleAssignments
  /\ UNCHANGED <<rolesAdmin, pauseVars>>

\* The role is taken from the one and given to the other, in this order, and
\* the counter is left alone, also when the other held it already.
TransferRoleAdmin(caller, new) ==
  /\ RequireAdmin(caller)
  /\ LET taken == [UserRoles EXCEPT ![caller] = @ \ {"Admin"}]
     IN  UserRoles' = [taken EXCEPT ![new] = @ \cup {"Admin"}]
  /\ rolesAdmin' = new
  /\ UNCHANGED <<TotalRoleAssignments, pauseVars>>

\* check_permission: the gate other code asks.
CheckPermission(u, role) == UserRoles[u] \cap {"Admin", role} # {}

InitializePausable(admin) ==
  /\ pausableAdmin = Unset /\ pausableAdmin' = admin /\ Paused' = FALSE
  /\ UNCHANGED roleVars

RequirePauser(caller) == pausableAdmin # Unset /\ caller = pausableAdmin

Pause(caller) == /\ RequirePauser(caller) /\ ~Paused
                 /\ Paused' = TRUE /\ UNCHANGED <<pausableAdmin, roleVars>>

Unpause(caller) == /\ RequirePauser(caller) /\ Paused
                   /\ Paused' = FALSE /\ UNCHANGED <<pausableAdmin, roleVars>>

SetPausableAdmin(caller, new) ==
  /\ RequirePauser(caller) /\ pausableAdmin' = new /\ UNCHANGED <<Paused, roleVars>>

Granting ==
  /\ \E a, u \in Users :
       \/ InitializeRoles(a) \/ TransferRoleAdmin(a, u)
       \/ \E role \in RoleNames : GrantRole(a, u, role) \/ RevokeRole(a, u, role)
  /\ UNCHANGED <<statusVars, preferenceVars>>

Halting ==
  /\ \E a, u \in Users : InitializePausable(a) \/ Pause(a) \/ Unpause(a) \/ SetPausableAdmin(a, u)
  /\ UNCHANGED <<statusVars, preferenceVars>>

Next == Freezing \/ Preferring \/ Granting \/ Halting
Spec == Init /\ [][Next]_vars

------------------------------------------------------------------------------
\* Every reachable state is well formed.
TypeOK ==
  /\ SuperAdmin \in Users \cup {Unset} /\ AdminList \subseteq Users
  /\ Status \in [Users -> [frozen : BOOLEAN, frozen_by : Users \cup {Unset},
                           expires_at : Nat, freeze_count : 0..MaxFreezes]]
  /\ FreezeCount \in 0..MaxFreezes
  /\ \A u \in Subscribers, c \in Channels : UserPreferences[u].channel[c].event_mask \subseteq EventTypes
  /\ rolesAdmin \in Users \cup {Unset} /\ UserRoles \in [Users -> SUBSET RoleNames]
  /\ TotalRoleAssignments \in 0 .. MaxAssignments
  /\ pausableAdmin \in Users \cup {Unset} /\ Paused \in BOOLEAN

\* The total counts the freezes of all accounts, those by administrators since
\* removed included; nobody froze oneself and nobody froze the super admin.
FreezesAgree ==
  /\ FreezeCount = FoldSet(LAMBDA u, n : Status[u].freeze_count + n, 0, Users)
  /\ \A u \in Users : Status[u].frozen => Status[u].frozen_by \notin {u, Unset} /\ u # SuperAdmin

\* A freeze in force is not shortened, prolonged or taken over by another
\* administrator: until its time is up it ends only by an unfreezing.
FreezeStands ==
  [][\A u \in Users : CurrentlyFrozen(Status[u]) =>
       \/ Status'[u] = Status[u]
       \/ ~Status'[u].frozen /\ Status'[u].freeze_count = Status[u].freeze_count]_vars

\* A user who switches a channel off and on again gets the events chosen
\* before: an event that was not selected for a channel is only announced
\* there when it, or the whole record, is chosen again.
MutedStaysMuted ==
  [][\A u \in Subscribers, c \in Channels, e \in EventTypes :
       LET old == UserPreferences[u].channel
           new == UserPreferences'[u].channel IN
       e \notin old[c].event_mask /\ c \in Dispatched(u, e)' =>
         \/ new[c].event_mask = old[c].event_mask \cup {e} /\ old[c].enabled
         \/ \A d \in Channels : new[d] = new[c]]_vars

\* The account that require_admin lets through also passes check_permission for
\* every role: no sequence of grants, revocations and transfers parts the two.
AdminHolds == rolesAdmin # Unset => \A role \in RoleNames : CheckPermission(rolesAdmin, role)

\* The counter never falls behind the roles that are held: a transfer to
\* someone who was an administrator already leaves it ahead.
AssignmentsCounted ==
  TotalRoleAssignments >= Cardinality({p \in Users \X RoleNames : p[2] \in UserRoles[p[1]]})

\* A pause outlives its administrator: only the administrator of the day ends it.
PauseStands == [][Paused /\ pausableAdmin' # pausableAdmin => Paused']_pauseVars
===============================================================================
