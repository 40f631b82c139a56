-------------------------------- MODULE Token --------------------------------
(***************************************************************************)
(* The project's own token (contracts/token.rs): minters create units up   *)
(* to a cap, holders burn, transfer and delegate them, the administrator   *)
(* pauses them.  A holder without units has no entry in storage, which is  *)
(* a balance of 0 here.  The mint and burn histories are never read and    *)
(* are left out.                                                           *)
(***************************************************************************)
EXTENDS FiniteSets, Functions, Integers

CONSTANTS Users, Contract, Unset,
          Caps,                \* mint and burn caps, Unset for none
          Amounts, I128_MAX

VARIABLES Admin, Paused, Minters, MintCap, BurnCap,
          TokenSupply, TotalMinted, TotalBurned,
          Balance, Allowance,  \* Allowance[owner][spender]
          SelfMoved            \* history: what holders gained, less what they lost, by
                               \* paying themselves
roles == <<Admin, Minters, MintCap, BurnCap>>
totals == <<TokenSupply, TotalMinted, TotalBurned>>
vars == <<roles, Paused, totals, Balance, Allowance, SelfMoved>>

\* What the proofs assume of the constants.
TokenAssumption ==
  /\ IsFiniteSet(Users) /\ Unset \notin Users
  /\ Unset \in Caps /\ Caps \ {Unset} \subseteq Int
  /\ I128_MAX \in Nat /\ Amounts \subseteq -I128_MAX..I128_MAX

Init == /\ Admin = Unset /\ Paused = FALSE /\ Minters = {}
        /\ MintCap = Unset /\ BurnCap = Unset
        /\ TokenSupply = 0 /\ TotalMinted = 0 /\ TotalBurned = 0
        /\ Balance = [u \in Users |-> 0]
        /\ Allowance = [u \in Users |-> [v \in Users |-> 0]]
        /\ SelfMoved = 0

ValidCap(n) == n # Unset => n > 0

InitializeToken(admin, mint_cap, burn_cap) ==
  /\ Admin = Unset
  /\ ValidCap(mint_cap) /\ ValidCap(burn_cap)
  /\ Admin' = admin /\ Minters' = Minters \cup {admin} /\ Paused' = FALSE
  /\ MintCap' = mint_cap /\ BurnCap' = burn_cap
  /\ TokenSupply' = 0 /\ TotalMinted' = 0 /\ TotalBurned' = 0
  /\ UNCHANGED <<Balance, Allowance, SelfMoved>>

RequireAdmin(caller) == Admin # Unset /\ caller = Admin

AddMinter(caller, u) ==
  /\ RequireAdmin(caller)
  /\ Minters' = Minters \cup {u}
  /\ UNCHANGED <<Admin, MintCap, BurnCap, Paused, totals, Balance, Allowance, SelfMoved>>

RemoveMinter(caller, u) ==
  /\ RequireAdmin(caller)
  /\ u # Admin
  /\ Minters' = Minters \ {u}
  /\ UNCHANGED <<Admin, MintCap, BurnCap, Paused, totals, Balance, Allowance, SelfMoved>>

SetPaused(caller, paused) ==
  /\ RequireAdmin(caller)
  /\ Paused' = paused
  /\ UNCHANGED <<roles, totals, Balance, Allowance, SelfMoved>>

Fits(n) == n <= I128_MAX
Within(n, cap) == cap # Unset => n <= cap

Mint(minter, to, amount) ==
  LET supply == TokenSupply + amount IN
  /\ minter \in Minters
  /\ amount > 0 /\ to # Contract /\ ~Paused
  /\ Within(supply, MintCap)
  /\ Fits(supply) /\ Fits(Balance[to] + amount) /\ Fits(TotalMinted + amount)
  /\ Balance' = [Balance EXCEPT ![to] = @ + amount]
  /\ TokenSupply' = supply
  /\ TotalMinted' = TotalMinted + amount
  /\ UNCHANGED <<roles, Paused, TotalBurned, Allowance, SelfMoved>>

\* Mutant: a burn that only counts itself.
SupplyUnburnt(amount) == TokenSupply
SupplyAfterBurn(amount) == TokenSupply - amount

Burn(from, amount) ==
  /\ amount > 0 /\ ~Paused
  /\ Balance[from] >= amount
  /\ Fits(TotalBurned + amount)
  /\ Within(TotalBurned + amount, BurnCap)
  /\ Balance' = [Balance EXCEPT ![from] = @ - amount]
  /\ TokenSupply' = SupplyAfterBurn(amount)
  /\ TotalBurned' = TotalBurned + amount
  /\ UNCHANGED <<roles, Paused, TotalMinted, Allowance, SelfMoved>>

\* Both balances are read before either is written, the receiver's is written
\* last, and the sender's entry is removed if nothing was left of it: a holder
\* who pays itself gains the amount, or loses all it had.
Moved(from, to, amount) ==
  [u \in Users |-> IF u = from /\ Balance[from] = amount THEN 0
                   ELSE IF u = to THEN Balance[to] + amount
                   ELSE IF u = from THEN Balance[from] - amount
                   ELSE Balance[u]]

CanMove(from, to, amount) ==
  /\ amount > 0 /\ to # Contract /\ ~Paused
  /\ Balance[from] >= amount
  /\ Fits(Balance[to] + amount)

Move(from, to, amount) ==
  /\ Balance' = Moved(from, to, amount)
  /\ SelfMoved' = IF from = to THEN SelfMoved + Balance'[from] - Balance[from] ELSE SelfMoved

Transfer(from, to, amount) ==
  /\ CanMove(from, to, amount)
  /\ Move(from, to, amount)
  /\ UNCHANGED <<roles, Paused, totals, Allowance>>

Approve(owner, spender, amount) ==
  /\ amount >= 0 /\ spender # Contract /\ ~Paused
  /\ Allowance' = [Allowance EXCEPT ![owner][spender] = amount]
  /\ UNCHANGED <<roles, Paused, totals, Balance, SelfMoved>>

TransferFrom(spender, from, to, amount) ==
  /\ CanMove(from, to, amount)
  /\ Allowance[from][spender] >= amount
  /\ Move(from, to, amount)
  /\ Allowance' = [Allowance EXCEPT ![from][spender] = @ - amount]
  /\ UNCHANGED <<roles, Paused, totals>>

Next ==
  \/ \E u \in Users, m, b \in Caps : InitializeToken(u, m, b)
  \/ \E c, u \in Users : AddMinter(c, u) \/ RemoveMinter(c, u)
  \/ \E c \in Users, p \in BOOLEAN : SetPaused(c, p)
  \/ \E c, u \in Users, a \in Amounts : Mint(c, u, a)
  \/ \E u \in Users, a \in Amounts : Burn(u, a)
  \/ \E u, v \in Users, a \in Amounts : Transfer(u, v, a) \/ Approve(u, v, a)
  \/ \E s, u, v \in Users, a \in Amounts : TransferFrom(s, u, v, a)

Spec == Init /\ [][Next]_vars

------------------------------------------------------------------------------
\* Every reachable state is well formed.
TypeOK ==
  /\ Admin \in Users \cup {Unset} /\ Paused \in BOOLEAN
  /\ Minters \subseteq Users /\ (Admin # Unset => Admin \in Minters)
  /\ Balance \in [Users -> 0..I128_MAX]
  /\ Allowance \in [Users -> [Users -> 0..I128_MAX]]
  /\ TokenSupply = TotalMinted - TotalBurned
  /\ Within(TotalBurned, BurnCap)
  /\ MintCap \in Caps /\ BurnCap \in Caps

Held == FoldFunction(+, 0, Balance)

\* The supply the contract reports moves with what its holders have: every call
\* changes both by the same amount, but for what holders who pay themselves
\* gain or lose by it.
SupplyFollowsBalances ==
  [][Held' - Held = (TokenSupply' - TokenSupply) + (SelfMoved' - SelfMoved)]_vars
===============================================================================
