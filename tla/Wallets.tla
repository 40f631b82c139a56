-------------------------------- MODULE Wallets --------------------------------
(***************************************************************************)
(* Four small contracts about whose wallet is whose and who may spend for  *)
(* whom: verified links (contracts/wallet.rs), plain links                 *)
(* (wallet_linking.rs), profiles (wallet-profile/src/lib.rs) and           *)
(* delegations (delegation.rs).  They share no storage, so each has its    *)
(* own group of actions, and Next takes a step of one of them.             *)
(***************************************************************************)
EXTENDS Integers, Sequences, FiniteSets, SequencesExt

CONSTANTS Users, Wallets,     \* addresses that sign; addresses that are linked
          Unset,              \* an absent key
          Nicknames, Limits, Amounts, I128_MAX,
          EXPIRY,             \* a challenge's life, 3600 seconds
          CloseTimes,         \* seconds one ledger may take to close
          MaxNonce, MaxTime   \* bounds of the model

VARIABLES walletAdmin,
          LinkedWallet,          \* wallet -> owner, is_verified, nonce; absent: unlinked
          WalletOwner,           \* owner -> the wallet linked last
          VerificationStatus,    \* the set of wallets whose key is true
          VerificationChallenge, \* <<wallet, ledger sequence>> -> the challenge
          linkOwner,             \* wallet_linking: WalletOwner(wallet)
          UserWallets,           \* wallet_linking: UserWallets(user)
          profileAdmin, Profile, TotalProfiles,
          Delegation,            \* <<owner, delegate>> -> limit and spent
          sequence, timestamp,
          prover,                \* history: verified wallet -> who signed its last
                                 \* verification, or Unset if a challenge was completed
          granted                \* history: <<owner, delegate>> -> what was used since the
                                 \* last revocation, and the highest limit since

verifiedVars == <<walletAdmin, LinkedWallet, WalletOwner, VerificationStatus,
                  VerificationChallenge, prover>>
linkVars == <<linkOwner, UserWallets>>
profileVars == <<profileAdmin, Profile, TotalProfiles>>
delegationVars == <<Delegation, granted>>
clock == <<sequence, timestamp>>
vars == <<verifiedVars, linkVars, profileVars, delegationVars, clock>>

\* What the proofs assume of the constants.
WalletsAssumption ==
  /\ Unset \notin Users /\ Limits \subseteq Int /\ Amounts \subseteq Int
  /\ I128_MAX \in Nat /\ EXPIRY \in Nat /\ CloseTimes \subseteq Nat
  /\ MaxNonce \in Nat /\ MaxTime \in Nat

Init ==
  /\ walletAdmin = Unset
  /\ LinkedWallet = << >> /\ WalletOwner = << >> /\ VerificationStatus = {}
  /\ VerificationChallenge = << >>
  /\ linkOwner = << >> /\ UserWallets = [u \in Users |-> << >>]
  /\ profileAdmin = Unset /\ Profile = << >> /\ TotalProfiles = 0
  /\ Delegation = << >>
  /\ prover = << >> /\ granted = << >>
  /\ sequence = 0 /\ timestamp = 0

Without(f, k) == [x \in DOMAIN f \ {k} |-> f[x]]
Stored(f, k, v) == [x \in DOMAIN f \cup {k} |-> IF x = k THEN v ELSE f[x]]
Linked == DOMAIN LinkedWallet

------------------------------------------------------------------------------
\* wallet.rs: links that their owner proves.

InitializeWalletContract(a) ==
  /\ walletAdmin = Unset
  /\ walletAdmin' = a
  /\ UNCHANGED <<LinkedWallet, WalletOwner, VerificationStatus, VerificationChallenge, prover, clock>>

LinkWallet(caller, w, owner) ==
  /\ w # owner
  /\ walletAdmin # Unset /\ caller \in {walletAdmin, owner}
  /\ w \notin Linked
  /\ LinkedWallet' =
       Stored(LinkedWallet, w, [owner |-> owner, is_verified |-> FALSE, nonce |-> 0])
  /\ WalletOwner' = Stored(WalletOwner, owner, w)
  /\ UNCHANGED <<walletAdmin, VerificationStatus, VerificationChallenge, prover, clock>>

\* The owner's entry goes, whichever wallet it names.
StatusAfterUnlink(w) == VerificationStatus \ {w}
UnlinkWallet(caller, w) ==
  /\ w \in Linked
  /\ walletAdmin # Unset /\ caller \in {walletAdmin, LinkedWallet[w].owner}
  /\ LinkedWallet' = Without(LinkedWallet, w)
  /\ WalletOwner' = Without(WalletOwner, LinkedWallet[w].owner)
  /\ VerificationStatus' = StatusAfterUnlink(w)
  /\ prover' = Restrict(prover, StatusAfterUnlink(w))
  /\ UNCHANGED <<walletAdmin, VerificationChallenge, clock>>

Verified(w, nonce, signer) ==
  /\ LinkedWallet' = [LinkedWallet EXCEPT ![w].is_verified = TRUE, ![w].nonce = nonce]
  /\ VerificationStatus' = VerificationStatus \cup {w}
  /\ prover' = Stored(prover, w, signer)

VerifyWalletOwnership(signer, w) ==
  /\ w \in Linked /\ LinkedWallet[w].owner = signer
  /\ LinkedWallet[w].nonce < MaxNonce
  /\ Verified(w, LinkedWallet[w].nonce + 1, signer)
  /\ UNCHANGED <<walletAdmin, WalletOwner, VerificationChallenge, clock>>

\* Anybody may ask.  Challenges are numbered by the ledger: a second one for a
\* wallet in the same ledger replaces the first.
CreateVerificationChallenge(w) ==
  /\ w \in Linked
  /\ VerificationChallenge' =
       Stored(VerificationChallenge, <<w, sequence>>,
              [expires_at |-> timestamp + EXPIRY, is_completed |-> FALSE])
  /\ UNCHANGED <<walletAdmin, LinkedWallet, WalletOwner, VerificationStatus, prover, clock>>

Completable(k) ==
  /\ k \in DOMAIN VerificationChallenge /\ ~VerificationChallenge[k].is_completed
  /\ timestamp <= VerificationChallenge[k].expires_at

\* Nobody signs; any signature that is not empty passes.
CompleteVerificationChallenge(w, n) ==
  /\ Completable(<<w, n>>)
  /\ w \in Linked
  /\ VerificationChallenge' = [VerificationChallenge EXCEPT ![<<w, n>>].is_completed = TRUE]
  /\ Verified(w, LinkedWallet[w].nonce, Unset)
  /\ UNCHANGED <<walletAdmin, WalletOwner, clock>>

\* require_verified_wallet and validate_wallet_action: may the signer act?
MayAct(w, signer) ==
  w \in Linked /\ LinkedWallet[w].is_verified /\ LinkedWallet[w].owner = signer

CloseLedger ==
  /\ sequence < MaxTime
  /\ sequence' = sequence + 1
  /\ \E seconds \in CloseTimes : timestamp' = timestamp + seconds
  /\ UNCHANGED verifiedVars

Verifying ==
  /\ \/ \E a \in Users : InitializeWalletContract(a)
     \/ \E c, o \in Users, w \in Wallets : LinkWallet(c, w, o)
     \/ \E c \in Users, w \in Wallets : UnlinkWallet(c, w)
     \/ \E c \in Users, w \in Wallets : VerifyWalletOwnership(c, w)
     \/ \E w \in Wallets : CreateVerificationChallenge(w)
     \/ \E w \in Wallets, n \in 0..MaxTime : CompleteVerificationChallenge(w, n)
     \/ CloseLedger
  /\ UNCHANGED <<linkVars, profileVars, delegationVars>>

------------------------------------------------------------------------------
\* wallet_linking.rs: links anybody claims for a wallet that nobody has.

LinkOwn(user, w) ==
  /\ w \notin DOMAIN linkOwner
  /\ linkOwner' = Stored(linkOwner, w, user)
  /\ UserWallets' = [UserWallets EXCEPT ![user] = Append(@, w)]

Removed(list, w) == FoldLeft(LAMBDA l, v : IF v = w THEN l ELSE Append(l, v), << >>, list)
MayUnlink(user, w) == w \in DOMAIN linkOwner /\ linkOwner[w] = user
UnlinkOwn(user, w) ==
  /\ MayUnlink(user, w)
  /\ linkOwner' = Without(linkOwner, w)
  /\ UserWallets' = [UserWallets EXCEPT ![user] = Removed(@, w)]

Linking ==
  /\ \E u \in Users, w \in Wallets : LinkOwn(u, w) \/ UnlinkOwn(u, w)
  /\ UNCHANGED <<verifiedVars, profileVars, delegationVars, clock>>

------------------------------------------------------------------------------
\* wallet-profile: initialize is not required before the first profile, and
\* sets the counter to zero.

InitializeProfiles(a) ==
  /\ profileAdmin = Unset
  /\ profileAdmin' = a /\ TotalProfiles' = 0
  /\ UNCHANGED Profile

CreateProfile(user, nickname) ==
  /\ user \notin DOMAIN Profile
  /\ Profile' = Stored(Profile, user, [nickname |-> nickname, is_active |-> TRUE])
  /\ TotalProfiles' = TotalProfiles + 1
  /\ UNCHANGED profileAdmin

UpdateNickname(user, nickname) ==
  /\ user \in DOMAIN Profile
  /\ Profile' = [Profile EXCEPT ![user].nickname = nickname]
  /\ UNCHANGED <<profileAdmin, TotalProfiles>>

SetProfileAdmin(caller, a) ==
  /\ profileAdmin # Unset /\ caller = profileAdmin
  /\ profileAdmin' = a
  /\ UNCHANGED <<Profile, TotalProfiles>>

Profiling ==
  /\ \/ \E a \in Users : InitializeProfiles(a)
     \/ \E u \in Users, n \in Nicknames : CreateProfile(u, n) \/ UpdateNickname(u, n)
     \/ \E c, a \in Users : SetProfileAdmin(c, a)
  /\ UNCHANGED <<verifiedVars, linkVars, delegationVars, clock>>

------------------------------------------------------------------------------
\* delegation.rs: an owner lets a delegate spend up to a limit.

\* A new limit keeps what was spent.
SpentBefore(k) == IF k \in DOMAIN Delegation THEN Delegation[k].spent ELSE 0
Used(k) == IF k \in DOMAIN granted THEN granted[k].used ELSE 0
Highest(k, limit) ==
  IF k \in DOMAIN granted /\ granted[k].highest > limit THEN granted[k].highest ELSE limit
SetDelegation(owner, delegate, limit) ==
  /\ owner # delegate /\ limit > 0
  /\ Delegation' = Stored(Delegation, <<owner, delegate>>,
                          [limit |-> limit, spent |-> SpentBefore(<<owner, delegate>>)])
  /\ granted' = Stored(granted, <<owner, delegate>>,
                       [used |-> Used(<<owner, delegate>>),
                        highest |-> Highest(<<owner, delegate>>, limit)])

RevokeDelegation(owner, delegate) ==
  /\ Delegation' = Without(Delegation, <<owner, delegate>>)
  /\ granted' = Without(granted, <<owner, delegate>>)

ConsumeAllowance(owner, delegate, amount) ==
  LET k == <<owner, delegate>> IN
  /\ amount > 0
  /\ k \in DOMAIN Delegation
  /\ Delegation[k].spent + amount <= I128_MAX
  /\ Delegation[k].spent + amount <= Delegation[k].limit
  /\ Delegation' = [Delegation EXCEPT ![k].spent = @ + amount]
  /\ granted' = [granted EXCEPT ![k].used = @ + amount]

Delegating ==
  /\ \/ \E o, d \in Users, n \in Limits : SetDelegation(o, d, n)
     \/ \E o, d \in Users : RevokeDelegation(o, d)
     \/ \E o, d \in Users, a \in Amounts : ConsumeAllowance(o, d, a)
  /\ UNCHANGED <<verifiedVars, linkVars, profileVars, clock>>

Next == Verifying \/ Linking \/ Profiling \/ Delegating
Spec == Init /\ [][Next]_vars

------------------------------------------------------------------------------
\* Every reachable state is well formed.
TypeOK ==
  /\ {walletAdmin, profileAdmin} \subseteq Users \cup {Unset}
  /\ Linked \subseteq Wallets /\ DOMAIN WalletOwner \subseteq Users
  /\ \A w \in Linked : LinkedWallet[w].owner \in Users /\ LinkedWallet[w].nonce \in 0..MaxNonce
  /\ DOMAIN VerificationChallenge \subseteq Wallets \X (0..sequence)
  /\ DOMAIN Profile \subseteq Users /\ TotalProfiles \in Nat
  /\ \A k \in DOMAIN Delegation : /\ k[1] # k[2] /\ Delegation[k].limit > 0
                                  /\ Delegation[k].spent \in 0..I128_MAX

\* is_wallet_verified reads a key of its own, the guards of the other calls
\* read the link: however a wallet is linked, proved by signature or by
\* challenge, unlinked and linked again, both say the same.
StatusAgrees ==
  /\ VerificationStatus = {w \in Linked : LinkedWallet[w].is_verified}
  /\ \A w \in Wallets, u \in Users : MayAct(w, u) => w \in VerificationStatus

\* wallet_linking keeps each link twice, by wallet and by user: a wallet is
\* listed once, by its owner and nobody else.
LinksAgree ==
  \A u \in Users :
    LET list == UserWallets[u] IN
    /\ {list[i] : i \in DOMAIN list} = {w \in DOMAIN linkOwner : linkOwner[w] = u}
    /\ \A i, j \in DOMAIN list : list[i] = list[j] => i = j

\* Whose signature it was: a verified wallet is linked, and whoever signed its
\* last verification owns it now, however often it was unlinked and linked to
\* somebody else since.  Only a challenge, which nobody signs, verifies without.
VerifiedForItsOwner ==
  \A w \in VerificationStatus :
    w \in Linked /\ prover[w] \in {LinkedWallet[w].owner, Unset}

\* Whatever is granted again, higher or lower, in between: what a delegate was
\* let use since the last revocation, all calls together, is within the highest
\* limit it was granted since, and only who has a grant has used anything.
WithinGrants ==
  /\ DOMAIN Delegation = DOMAIN granted
  /\ \A k \in DOMAIN granted : granted[k].used <= granted[k].highest
===============================================================================
