------------------------------ MODULE ControlsProofs ------------------------------
(***************************************************************************)
(* Proofs about the contracts of MCControls, for every finite set of users *)
(* and every value of the bounds: type correctness, the agreement of what  *)
(* limits, throttle and stellarspend-fee store twice, that nothing passes  *)
(* a block, and that steps of the token, of fees.rs and of the budget keep *)
(* their books.  One section for each contract, and a last one that joins  *)
(* their invariants: a step of the group is a step of one of them.         *)
(***************************************************************************)
EXTENDS MCControls, SumTheorems, SequenceTheorems, FiniteSetTheorems, TLAPS

------------------------------------------------------------------------------
\* The throttle.

Named(list) == {list[i] : i \in DOMAIN list}
Once(list) == \A i, j \in DOMAIN list : list[i] = list[j] => i = j

LEMMA ContainsIsNamed ==
  ASSUME NEW list \in Seq(Users), NEW u
  PROVE  Throttling!Contains(list, u) <=> u \in Named(list)
BY DEF Throttling!Contains, Named

LEMMA NamedAppend ==
  ASSUME NEW S, NEW s \in Seq(S), NEW x \in S
  PROVE  /\ Append(s, x) \in Seq(S) /\ Named(Append(s, x)) = Named(s) \cup {x}
         /\ (Once(s) /\ x \notin Named(s) => Once(Append(s, x)))
<1>1. PICK t : t = Append(s, x)
  OBVIOUS
<1>2. /\ t \in Seq(S) /\ Len(t) = Len(s) + 1 /\ t[Len(s) + 1] = x
      /\ \A i \in 1..Len(s) : t[i] = s[i]
      /\ DOMAIN s = 1..Len(s) /\ DOMAIN t = 1..(Len(s) + 1) /\ Len(s) \in Nat
  BY <1>1
<1>3. DOMAIN t = DOMAIN s \cup {Len(s) + 1}
  BY <1>2
<1>4. Named(t) = Named(s) \cup {x}
  BY <1>2, <1>3 DEF Named
<1>5. Once(s) /\ x \notin Named(s) => Once(t)
  BY <1>2, <1>3 DEF Named, Once
<1> QED
  BY <1>1, <1>2, <1>4, <1>5

\* g is the function the recursion in Removed(u) describes.
IsRemoval(g, list, u) ==
  g = [s \in SUBSET DOMAIN list |->
         IF s = {} THEN << >>
         ELSE IF list[Greatest(s)] = u THEN g[s \ {Greatest(s)}]
              ELSE Append(g[s \ {Greatest(s)}], list[Greatest(s)])]

LEMMA RemovedIsRemoval ==
  ASSUME NEW u
  PROVE  Throttling!Removed(u)
           = (CHOOSE g : IsRemoval(g, ThrottledWallets, u))[DOMAIN ThrottledWallets]
BY DEF Throttling!Removed, Throttling!FoldLeft, Throttling!MapThenFoldSet, Throttling!Max,
       IsRemoval, Greatest

LEMMA RemovalExists ==
  ASSUME NEW S, NEW list \in Seq(S), NEW u
  PROVE  \E g : IsRemoval(g, list, u)
<1>1. PICK n \in Nat : n = Len(list) /\ DOMAIN list = 1..n
  OBVIOUS
<1>2. PICK F : F = [l \in Seq(S) |-> [i \in 1..n |->
                      IF list[i] = u THEN l ELSE Append(l, list[i])]]
  OBVIOUS
<1>3. PICK empty : empty = << >>
  OBVIOUS
<1>4. \A i \in 1..n : list[i] \in S
  BY <1>1
<1>5. \A l \in Seq(S), i \in 1..n : Append(l, list[i]) \in Seq(S)
  BY <1>4
<1>6. F \in [Seq(S) -> [1..n -> Seq(S)]] /\ empty \in Seq(S)
  BY <1>2, <1>3, <1>5
<1>7. PICK g : g \in [SUBSET (1..n) -> Seq(S)] /\ IsLeftFold(g, n, empty, F)
  BY <1>6, LeftFoldExists
<1>8. ASSUME NEW s \in SUBSET (1..n), s # {}
      PROVE  g[s] = IF list[Greatest(s)] = u THEN g[s \ {Greatest(s)}]
                    ELSE Append(g[s \ {Greatest(s)}], list[Greatest(s)])
  <2>1. Greatest(s) \in 1..n /\ g[s \ {Greatest(s)}] \in Seq(S)
    BY <1>7, <1>8, GreatestIn
  <2>2. g[s] = F[g[s \ {Greatest(s)}]][Greatest(s)]
    BY <1>7, <1>8 DEF IsLeftFold
  <2> QED
    BY <1>2, <2>1, <2>2
<1>9. g = [s \in SUBSET (1..n) |-> g[s]] /\ g[{}] = << >>
  BY <1>3, <1>7 DEF IsLeftFold
<1>10. IsRemoval(g, list, u)
  BY <1>1, <1>8, <1>9 DEF IsRemoval
<1> QED
  BY <1>10

\* A member is taken off a list, and the others stay, each as often as before.
LEMMA RemovalNames ==
  ASSUME NEW S, NEW list \in Seq(S), Once(list), NEW u, NEW left,
         left = (CHOOSE g : IsRemoval(g, list, u))[DOMAIN list]
  PROVE  left \in Seq(S) /\ Named(left) = Named(list) \ {u} /\ Once(left)
<1>1. PICK n \in Nat : n = Len(list) /\ DOMAIN list = 1..n /\ \A i \in 1..n : list[i] \in S
  OBVIOUS
<1>2. PICK g : g = CHOOSE h : IsRemoval(h, list, u)
  OBVIOUS
<1>3. IsRemoval(g, list, u)
  BY <1>2, RemovalExists
<1>4. left = g[1..n]
  BY <1>1, <1>2
<1>5. g[1..0] = << >>
  <2>1. 1..0 = {} /\ {} \in SUBSET (1..n)
    OBVIOUS
  <2> QED
    BY <1>1, <1>3, <2>1 DEF IsRemoval
<1>6. ASSUME NEW k \in 1..n
      PROVE  g[1..k] = IF list[k] = u THEN g[1..(k - 1)] ELSE Append(g[1..(k - 1)], list[k])
  <2>1. Greatest(1..k) = k /\ (1..k) \ {k} = 1..(k - 1)
    <3>1. k \in Nat /\ k # 0
      BY <1>1
    <3> QED
      BY <3>1, GreatestOfPrefix
  <2>2. 1..k \in SUBSET (1..n) /\ 1..k # {}
    <3>1. k \in 1..k /\ \A i \in 1..k : i \in 1..n
      BY <1>1
    <3> QED
      BY <3>1
  <2> QED
    BY <1>1, <1>3, <2>1, <2>2 DEF IsRemoval
<1> DEFINE First(k) == {list[i] : i \in 1..k} \ {u}
           Good == {k \in Nat : k <= n =>
                   g[1..k] \in Seq(S) /\ Named(g[1..k]) = First(k) /\ Once(g[1..k])}
<1>7. 0 \in Good
  <2>1. PICK empty : empty = << >>
    OBVIOUS
  <2>2. empty \in Seq(S) /\ Named(empty) = {} /\ Once(empty)
    BY <2>1 DEF Named, Once
  <2>3. First(0) = {}
    <3>1. 1..0 = {}
      OBVIOUS
    <3> QED
      BY <3>1
  <2>4. g[1..0] \in Seq(S) /\ Named(g[1..0]) = {} /\ Once(g[1..0])
    BY <1>5, <2>1, <2>2
  <2> HIDE DEF First
  <2>5. 0 \in Nat
    OBVIOUS
  <2> QED
    BY <2>3, <2>4, <2>5, Zenon
<1>8. ASSUME NEW k \in Nat, k \in Good PROVE k + 1 \in Good
  <2>1. SUFFICES ASSUME k + 1 <= n
                 PROVE  /\ g[1..(k + 1)] \in Seq(S) /\ Named(g[1..(k + 1)]) = First(k + 1)
                        /\ Once(g[1..(k + 1)])
    OBVIOUS
  <2>2. PICK old \in Seq(S) : old = g[1..k] /\ Named(old) = First(k) /\ Once(old)
    BY <1>8, <2>1
  <2>3. PICK y \in S : y = list[k + 1]
    BY <1>1, <2>1
  <2>4. k + 1 \in 1..n /\ (k + 1) - 1 = k /\ 1..(k + 1) = (1..k) \cup {k + 1}
    BY <2>1
  <2>5. g[1..(k + 1)] = IF y = u THEN old ELSE Append(old, y)
    BY <1>6, <2>2, <2>3, <2>4
  <2>6. First(k + 1) = (First(k) \cup {y}) \ {u} /\ u \notin First(k)
    BY <2>3, <2>4
  <2>7. y \notin First(k)
    <3>1. \A i \in 1..k : i \in 1..n /\ i # k + 1
      BY <2>1
    <3>2. \A i, j \in 1..n : list[i] = list[j] => i = j
      BY <1>1 DEF Once
    <3> QED
      BY <2>3, <2>4, <3>1, <3>2
  <2> HIDE DEF First
  <2>8. CASE y = u
    BY <2>2, <2>5, <2>6, <2>7, <2>8
  <2>9. CASE y # u
    <3>1. /\ Append(old, y) \in Seq(S) /\ Once(Append(old, y))
          /\ Named(Append(old, y)) = First(k) \cup {y}
      BY <2>2, <2>7, NamedAppend
    <3>2. g[1..(k + 1)] = Append(old, y) /\ First(k + 1) = First(k) \cup {y}
      BY <2>5, <2>6, <2>9
    <3> QED
      BY <3>1, <3>2
  <2> QED
    BY <2>8, <2>9
<1> HIDE DEF Good
<1>9. n \in Good
  BY <1>7, <1>8, NatSetInduction
<1>10. Named(list) = {list[i] : i \in 1..n}
  BY <1>1 DEF Named
<1>11. left \in Seq(S) /\ Named(left) = First(n) /\ Once(left)
  <2> HIDE DEF First
  <2> QED
    BY <1>1, <1>4, <1>9 DEF Good
<1> QED
  BY <1>10, <1>11

LEMMA RemovedOne ==
  ASSUME ThrottledWallets \in Seq(Users), Once(ThrottledWallets), NEW u
  PROVE  /\ Throttling!Removed(u) \in Seq(Users)
         /\ Named(Throttling!Removed(u)) = Named(ThrottledWallets) \ {u}
         /\ Once(Throttling!Removed(u))
BY RemovedIsRemoval, RemovalNames

\* What the steps of the throttle preserve: before the administrator is set
\* there are no statistics and no blocks.
ThrottlingInv ==
  /\ Throttling!TypeOK /\ Throttling!ListMatches
  /\ WalletThrottleState \in [Users -> Throttling!WalletRecord \cup {Unset}]
  /\ Admin = Unset <=> Stats = Unset
  /\ Admin = Unset => ThrottledWallets = << >>

ThrottledUsers == {u \in Users : Throttling!StateOf(u).is_throttled}

LEMMA MatchingList ==
  ASSUME NEW list \in Seq(Users), NEW T \in SUBSET Users
  PROVE  (\A u \in Users : Throttling!Contains(list, u) <=> u \in T) <=> Named(list) = T
<1>1. \A u : Throttling!Contains(list, u) <=> u \in Named(list)
  BY ContainsIsNamed
<1>2. Named(list) \subseteq Users
  BY DEF Named
<1> QED
  BY <1>1, <1>2

\* The same of the list and the wallets of a state, and of the state after it.
LEMMA ListOfState ==
  ASSUME ThrottledWallets \in Seq(Users)
  PROVE  Throttling!ListMatches
           <=> Named(ThrottledWallets) = ThrottledUsers /\ Once(ThrottledWallets)
BY MatchingList, Zenon DEF Throttling!ListMatches, ThrottledUsers, Once

LEMMA ListOfNextState ==
  ASSUME ThrottledWallets' \in Seq(Users)
  PROVE  Throttling!ListMatches'
           <=> Named(ThrottledWallets') = ThrottledUsers' /\ Once(ThrottledWallets')
BY MatchingList, Zenon DEF Throttling!ListMatches, ThrottledUsers, Once

LEMMA StateType ==
  ASSUME ThrottlingInv, NEW u \in Users
  PROVE  /\ Throttling!StateOf(u) \in Throttling!WalletRecord
         /\ Throttling!Fresh \in Throttling!WalletRecord
<1>1. Throttling!Fresh \in Throttling!WalletRecord
  BY DEF ThrottlingInv, Throttling!TypeOK, Throttling!Fresh, Throttling!WalletRecord
<1> QED
  BY <1>1 DEF ThrottlingInv, Throttling!StateOf

LEMMA CurrentType ==
  ASSUME timestamp \in Nat, ThrottleConfig \in Throttling!ConfigRecord,
         NEW s \in Throttling!WalletRecord
  PROVE  /\ Throttling!Current(s) \in Throttling!WalletRecord
         /\ Throttling!Current(s).is_throttled = FALSE
         /\ Throttling!Current(s).total = s.total
BY DEF Throttling!Current, Throttling!WalletRecord, Throttling!ConfigRecord

LEMMA CleanedUpType ==
  ASSUME timestamp \in Nat, ThrottleConfig \in Throttling!ConfigRecord,
         NEW s \in Throttling!StatsRecord
  PROVE  Throttling!CleanedUp(s) \in Throttling!StatsRecord
BY DEF Throttling!CleanedUp, Throttling!StatsRecord

LEMMA CountedType ==
  ASSUME NEW s \in Throttling!StatsRecord, NEW v \in BOOLEAN, NEW list \in Seq(Users)
  PROVE  Throttling!Counted(s, v, list) \in Throttling!StatsRecord
<1>1. \A a \in Nat, b \in Nat \ {0} : (a * 10000) \div b \in Nat
  OBVIOUS
<1>2. s.checked + 1 \in Nat \ {0} /\ s.violations + (IF v THEN 1 ELSE 0) \in Nat
  BY DEF Throttling!StatsRecord
<1>3. ((s.violations + (IF v THEN 1 ELSE 0)) * 10000) \div (s.checked + 1) \in Nat
  BY <1>1, <1>2
<1>4. PICK c \in Nat, n \in Nat, l \in Nat, r \in Nat :
        /\ c = s.checked + 1 /\ n = s.violations + (IF v THEN 1 ELSE 0) /\ l = Len(list)
        /\ r = ((s.violations + (IF v THEN 1 ELSE 0)) * 10000) \div (s.checked + 1)
  BY <1>2, <1>3
<1>5. Throttling!Counted(s, v, list) = [s EXCEPT !.checked = c, !.violations = n,
                                                !.throttled = l, !.rate = r]
  BY <1>4 DEF Throttling!Counted
<1> QED
  BY <1>5 DEF Throttling!StatsRecord

LEMMA RequestType ==
  ASSUME timestamp \in Nat, NEW s \in Throttling!WalletRecord
  PROVE  /\ [s EXCEPT !.is_throttled = TRUE, !.throttle_start = timestamp, !.violations = @ + 1]
              \in Throttling!WalletRecord
         /\ [s EXCEPT !.count = @ + 1, !.last = timestamp, !.total = @ + 1]
              \in Throttling!WalletRecord
<1>1. \A a, b, v \in Nat :
        /\ [s EXCEPT !.is_throttled = TRUE, !.throttle_start = a, !.violations = v]
             \in Throttling!WalletRecord
        /\ [s EXCEPT !.count = a, !.last = b, !.total = v] \in Throttling!WalletRecord
  BY DEF Throttling!WalletRecord
<1>2. s.violations + 1 \in Nat /\ s.count + 1 \in Nat /\ s.total + 1 \in Nat
  BY DEF Throttling!WalletRecord
<1> QED
  BY <1>1, <1>2

\* A wallet's block starts or ends together with its place in the list.
LEMMA OneStateStored ==
  ASSUME ThrottlingInv, NEW u \in Users, NEW s \in Throttling!WalletRecord,
         Unset \notin Throttling!WalletRecord,
         WalletThrottleState' = [WalletThrottleState EXCEPT ![u] = s]
  PROVE  /\ WalletThrottleState' \in [Users -> Throttling!WalletRecord \cup {Unset}]
         /\ Throttling!StateOf(u)' = s
         /\ \A w \in Users \ {u} :
              /\ Throttling!StateOf(w)'.is_throttled = Throttling!StateOf(w).is_throttled
              /\ Throttling!StateOf(w)'.total = Throttling!StateOf(w).total
         /\ ThrottledUsers' = IF s.is_throttled THEN ThrottledUsers \cup {u}
                              ELSE ThrottledUsers \ {u}
<1>1. WalletThrottleState' \in [Users -> Throttling!WalletRecord \cup {Unset}]
  BY DEF ThrottlingInv
<1>2. Throttling!StateOf(u)' = s
  BY DEF ThrottlingInv, Throttling!StateOf
<1>3. \A w \in Users \ {u} :
        /\ Throttling!StateOf(w)'.is_throttled = Throttling!StateOf(w).is_throttled
        /\ Throttling!StateOf(w)'.total = Throttling!StateOf(w).total
  BY DEF ThrottlingInv, Throttling!StateOf, Throttling!Fresh
<1>4. s.is_throttled \in BOOLEAN
  BY DEF Throttling!WalletRecord
<1>5. ThrottledUsers' = IF s.is_throttled THEN ThrottledUsers \cup {u}
                        ELSE ThrottledUsers \ {u}
  BY <1>2, <1>3, <1>4, Zenon DEF ThrottledUsers
<1> QED
  BY <1>1, <1>2, <1>3, <1>5

LEMMA ThrottlingStart ==
  ASSUME Throttling!Init
  PROVE  ThrottlingInv
<1>1. Throttling!TypeOK
  BY DEF Throttling!Init, Throttling!TypeOK
<1>2. Throttling!ListMatches
  <2>1. ThrottledUsers = {}
    BY DEF Throttling!Init, ThrottledUsers, Throttling!StateOf, Throttling!Fresh
  <2>2. Named(ThrottledWallets) = {} /\ Once(ThrottledWallets)
    BY DEF Throttling!Init, Named, Once
  <2> QED
    BY <1>1, <2>1, <2>2, ListOfState DEF Throttling!TypeOK
<1> QED
  BY <1>1, <1>2 DEF ThrottlingInv, Throttling!Init

\* A step that leaves the wallets' states and the list alone keeps their agreement.
LEMMA SameBlocks ==
  ASSUME ThrottlingInv, UNCHANGED <<WalletThrottleState, ThrottledWallets>>
  PROVE  Throttling!ListMatches'
<1>1. \A u \in Users : Throttling!StateOf(u)'.is_throttled = Throttling!StateOf(u).is_throttled
  BY DEF Throttling!StateOf, Throttling!Fresh
<1>2. ThrottledUsers' = ThrottledUsers
  BY <1>1 DEF ThrottledUsers
<1>3. ThrottledWallets \in Seq(Users) /\ ThrottledWallets' \in Seq(Users)
  BY DEF ThrottlingInv, Throttling!TypeOK
<1> QED
  BY <1>2, <1>3, ListOfState, ListOfNextState DEF ThrottlingInv

LEMMA ThrottlingStep ==
  ASSUME Throttling!ThrottlingAssumption, ThrottlingInv, Throttling!Next
  PROVE  ThrottlingInv'
<1> USE DEF Throttling!ThrottlingAssumption
<1>1. ASSUME NEW u \in Users, NEW c \in ThrottleConfigs, Throttling!Initialize(u, c)
      PROVE  ThrottlingInv'
  <2>1. /\ WalletThrottleState' = WalletThrottleState /\ timestamp' = timestamp
        /\ ThrottledWallets' = ThrottledWallets
    BY <1>1 DEF Throttling!Initialize, ThrottlingInv
  <2>2. Stats' \in Throttling!StatsRecord
    BY <1>1 DEF Throttling!Initialize, Throttling!StatsRecord, ThrottlingInv, Throttling!TypeOK
  <2>3. Throttling!TypeOK'
    BY <1>1, <2>1, <2>2 DEF Throttling!Initialize, ThrottlingInv, Throttling!TypeOK
  <2> QED
    BY <1>1, <2>1, <2>2, <2>3, SameBlocks DEF Throttling!Initialize, ThrottlingInv
<1>2. ASSUME NEW u \in Users, NEW c \in ThrottleConfigs, Throttling!UpdateThrottleConfig(u, c)
      PROVE  ThrottlingInv'
  BY <1>2, SameBlocks DEF Throttling!UpdateThrottleConfig, Throttling!RequireAdmin,
                          ThrottlingInv, Throttling!TypeOK
<1>3. ASSUME NEW u \in Users, Throttling!RefuseBlocked(u)
      PROVE  ThrottlingInv'
  <2>1. ThrottleConfig \in Throttling!ConfigRecord /\ Stats \in Throttling!StatsRecord
        /\ timestamp \in Nat
    BY <1>3 DEF Throttling!RefuseBlocked, Throttling!Checked, ThrottlingInv, Throttling!TypeOK
  <2>2. Stats' \in Throttling!StatsRecord
    BY <1>3, <2>1, CleanedUpType DEF Throttling!RefuseBlocked
  <2> QED
    BY <1>3, <2>1, <2>2, SameBlocks DEF Throttling!RefuseBlocked, ThrottlingInv,
                                        Throttling!TypeOK
<1>4. ASSUME NEW u \in Users, Throttling!Throttle(u) \/ Throttling!Allow(u)
      PROVE  ThrottlingInv'
  <2>1. /\ ThrottleConfig \in Throttling!ConfigRecord /\ Throttling!ValidConfig(ThrottleConfig)
        /\ Stats \in Throttling!StatsRecord /\ timestamp \in Nat /\ Admin # Unset
        /\ UNCHANGED <<Admin, ThrottleConfig, timestamp>>
        /\ ThrottledWallets \in Seq(Users) /\ Once(ThrottledWallets)
        /\ Named(ThrottledWallets) = ThrottledUsers
    BY <1>4, ListOfState DEF Throttling!Throttle, Throttling!Allow, Throttling!Checked,
                              ThrottlingInv, Throttling!TypeOK
  <2>2. PICK s \in Throttling!WalletRecord :
          s = Throttling!Current(Throttling!StateOf(u)) /\ s.is_throttled = FALSE
    BY <2>1, StateType, CurrentType
  <2>3. PICK new \in Throttling!WalletRecord :
          /\ WalletThrottleState' = [WalletThrottleState EXCEPT ![u] = new]
          /\ ThrottledWallets' \in Seq(Users) /\ Once(ThrottledWallets')
          /\ Named(ThrottledWallets') = IF new.is_throttled THEN ThrottledUsers \cup {u}
                                        ELSE ThrottledUsers \ {u}
          /\ \E v \in BOOLEAN : Stats' = Throttling!Counted(Throttling!CleanedUp(Stats), v,
                                                          ThrottledWallets')
    <3>1. CASE Throttling!Throttle(u)
      <4>1. PICK new : new = [s EXCEPT !.is_throttled = TRUE, !.throttle_start = timestamp,
                                       !.violations = @ + 1]
        OBVIOUS
      <4>2. new \in Throttling!WalletRecord /\ new.is_throttled = TRUE
        <5>1. new \in Throttling!WalletRecord
          BY <2>1, <4>1, RequestType
        <5> QED
          BY <2>2, <4>1, <5>1 DEF Throttling!WalletRecord
      <4>3. /\ WalletThrottleState' = [WalletThrottleState EXCEPT ![u] = new]
            /\ ThrottledWallets' = Throttling!Added(u)
            /\ Stats' = Throttling!Counted(Throttling!CleanedUp(Stats), TRUE, ThrottledWallets')
        BY <2>2, <3>1, <4>1 DEF Throttling!Throttle
      <4>4. /\ Throttling!Added(u) \in Seq(Users) /\ Once(Throttling!Added(u))
            /\ Named(Throttling!Added(u)) = ThrottledUsers \cup {u}
        BY <2>1, ContainsIsNamed, NamedAppend DEF Throttling!Added
      <4> QED
        BY <4>2, <4>3, <4>4, Zenon
    <3>2. CASE Throttling!Allow(u)
      <4>1. PICK new : new = [s EXCEPT !.count = @ + 1, !.last = timestamp, !.total = @ + 1]
        OBVIOUS
      <4>2. new \in Throttling!WalletRecord /\ new.is_throttled = FALSE
        <5>1. new \in Throttling!WalletRecord
          BY <2>1, <4>1, RequestType
        <5> QED
          BY <2>2, <4>1, <5>1 DEF Throttling!WalletRecord
      <4>3. /\ WalletThrottleState' = [WalletThrottleState EXCEPT ![u] = new]
            /\ ThrottledWallets' = IF Throttling!StateOf(u).is_throttled
                                   THEN Throttling!Removed(u) ELSE ThrottledWallets
            /\ Stats' = Throttling!Counted(Throttling!CleanedUp(Stats), FALSE, ThrottledWallets')
        BY <2>2, <3>2, <4>1 DEF Throttling!Allow
      <4>4. /\ ThrottledWallets' \in Seq(Users) /\ Once(ThrottledWallets')
            /\ Named(ThrottledWallets') = ThrottledUsers \ {u}
        <5>1. CASE Throttling!StateOf(u).is_throttled
          BY <2>1, <4>3, <5>1, RemovedOne
        <5>2. CASE ~Throttling!StateOf(u).is_throttled
          BY <2>1, <4>3, <5>2 DEF ThrottledUsers
        <5> QED
          BY <5>1, <5>2
      <4> QED
        BY <4>2, <4>3, <4>4, Zenon
    <3> QED
      BY <1>4, <3>1, <3>2
  <2>4. ThrottledUsers' = Named(ThrottledWallets)'
        /\ WalletThrottleState' \in [Users -> Throttling!WalletRecord \cup {Unset}]
    BY <2>3, OneStateStored DEF Named
  <2>5. Throttling!ListMatches'
    BY <2>3, <2>4, ListOfNextState DEF Named, Once
  <2>6. Stats' \in Throttling!StatsRecord
    BY <2>1, <2>3, CleanedUpType, CountedType
  <2>7. Throttling!TypeOK'
    BY <2>1, <2>3, <2>4, <2>6 DEF ThrottlingInv, Throttling!TypeOK, Throttling!ValidConfig
  <2> QED
    BY <2>1, <2>4, <2>5, <2>6, <2>7 DEF ThrottlingInv
<1>5. ASSUME NEW c \in Users, NEW u \in Users,
             Throttling!AddExemptAddress(c, u) \/ Throttling!RemoveExemptAddress(c, u)
      PROVE  ThrottlingInv'
  <2>1. ThrottleConfig \in Throttling!ConfigRecord /\ Throttling!ValidConfig(ThrottleConfig)
        /\ Admin # Unset
        /\ UNCHANGED <<Admin, WalletThrottleState, ThrottledWallets, Stats, timestamp>>
    BY <1>5 DEF Throttling!AddExemptAddress, Throttling!RemoveExemptAddress,
                Throttling!RequireAdmin, ThrottlingInv, Throttling!TypeOK
  <2>2. PICK e \in SUBSET Users : ThrottleConfig' = [ThrottleConfig EXCEPT !.exempt = e]
    <3>1. ThrottleConfig.exempt \cup {u} \in SUBSET Users /\ ThrottleConfig.exempt \ {u} \in SUBSET Users
      BY <2>1 DEF Throttling!ConfigRecord
    <3> QED
      BY <1>5, <3>1 DEF Throttling!AddExemptAddress, Throttling!RemoveExemptAddress
  <2>3. ThrottleConfig' \in Throttling!ConfigRecord /\ Throttling!ValidConfig(ThrottleConfig')
    BY <2>1, <2>2 DEF Throttling!ConfigRecord, Throttling!ValidConfig
  <2> QED
    BY <2>1, <2>3, SameBlocks DEF ThrottlingInv, Throttling!TypeOK, Throttling!ValidConfig
<1>6. ASSUME NEW u \in Users, Throttling!ForceCleanup(u)
      PROVE  ThrottlingInv'
  <2>1. Stats' \in Throttling!StatsRecord /\ Admin # Unset
    BY <1>6 DEF Throttling!ForceCleanup, Throttling!RequireAdmin, Throttling!StatsRecord,
                ThrottlingInv, Throttling!TypeOK
  <2> QED
    BY <1>6, <2>1, SameBlocks DEF Throttling!ForceCleanup, ThrottlingInv, Throttling!TypeOK
<1>7. ASSUME NEW c \in Users, NEW u \in Users, Throttling!ResetWalletThrottleState(c, u)
      PROVE  ThrottlingInv'
  <2>1. /\ Admin # Unset /\ UNCHANGED <<Admin, ThrottleConfig, Stats, timestamp>>
        /\ ThrottledWallets \in Seq(Users) /\ Once(ThrottledWallets)
        /\ Named(ThrottledWallets) = ThrottledUsers
        /\ ThrottledWallets' = Throttling!Removed(u)
        /\ WalletThrottleState' = [WalletThrottleState EXCEPT ![u] = Throttling!Fresh]
    BY <1>7, ListOfState DEF Throttling!ResetWalletThrottleState, Throttling!RequireAdmin,
                              ThrottlingInv, Throttling!TypeOK
  <2>2. /\ ThrottledWallets' \in Seq(Users) /\ Once(ThrottledWallets')
        /\ Named(ThrottledWallets') = ThrottledUsers \ {u}
    BY <2>1, RemovedOne
  <2>3. PICK s \in Throttling!WalletRecord : s = Throttling!Fresh /\ s.is_throttled = FALSE
    BY StateType DEF Throttling!Fresh
  <2>4. /\ ThrottledUsers' = ThrottledUsers \ {u}
        /\ WalletThrottleState' \in [Users -> Throttling!WalletRecord \cup {Unset}]
    BY <2>1, <2>3, OneStateStored
  <2>5. Throttling!ListMatches'
    BY <2>2, <2>4, ListOfNextState DEF Named, Once
  <2> QED
    BY <2>1, <2>2, <2>4, <2>5 DEF ThrottlingInv, Throttling!TypeOK
<1>8. ASSUME Throttling!CloseLedger
      PROVE  ThrottlingInv'
  BY <1>8, SameBlocks DEF Throttling!CloseLedger, ThrottlingInv, Throttling!TypeOK
<1> QED
  BY <1>1, <1>2, <1>3, <1>4, <1>5, <1>6, <1>7, <1>8 DEF Throttling!Next

\* What NothingThroughABlock says of one step and one wallet.
BlockKept(u) ==
  Throttling!StateOf(u)'.total > Throttling!StateOf(u).total =>
    /\ Throttling!StateOf(u)'.total = Throttling!StateOf(u).total + 1
    /\ Throttling!StateOf(u).is_throttled =>
         timestamp >= Throttling!StateOf(u).throttle_start + ThrottleConfig.block
    /\ Throttling!StateOf(u)'.count <= ThrottleConfig.max
    /\ ~Throttling!StateOf(u)'.is_throttled

\* A wallet whose count of requests stays what it was.
LEMMA SameTotal ==
  ASSUME NEW u, Throttling!StateOf(u) \in Throttling!WalletRecord,
         Throttling!StateOf(u)'.total = Throttling!StateOf(u).total
  PROVE  BlockKept(u)
BY DEF BlockKept, Throttling!WalletRecord

LEMMA BlockStep ==
  ASSUME Throttling!ThrottlingAssumption, ThrottlingInv, Throttling!Next, NEW w \in Users
  PROVE  BlockKept(w)
<1> USE DEF Throttling!ThrottlingAssumption
<1>1. Throttling!StateOf(w) \in Throttling!WalletRecord
  BY StateType
<1>2. CASE WalletThrottleState' = WalletThrottleState
  <2>1. Throttling!StateOf(w)'.total = Throttling!StateOf(w).total
    BY <1>2 DEF Throttling!StateOf, Throttling!Fresh
  <2> QED
    BY <1>1, <2>1, SameTotal
<1>3. ASSUME NEW u \in Users, Throttling!Throttle(u)
      PROVE  BlockKept(w)
  <2>1. PICK s \in Throttling!WalletRecord :
          s = Throttling!Current(Throttling!StateOf(u)) /\ s.total = Throttling!StateOf(u).total
    BY <1>3, StateType, CurrentType
       DEF Throttling!Throttle, Throttling!Checked, ThrottlingInv, Throttling!TypeOK
  <2>2. PICK new \in Throttling!WalletRecord :
          new = [s EXCEPT !.is_throttled = TRUE, !.throttle_start = timestamp, !.violations = @ + 1]
    BY RequestType DEF ThrottlingInv, Throttling!TypeOK
  <2>3. WalletThrottleState' = [WalletThrottleState EXCEPT ![u] = new] /\ new.total = s.total
    BY <1>3, <2>1, <2>2 DEF Throttling!Throttle, Throttling!WalletRecord
  <2>4. Throttling!StateOf(w)'.total = Throttling!StateOf(w).total
    BY <2>1, <2>3, OneStateStored
  <2> QED
    BY <1>1, <2>4, SameTotal
<1>4. ASSUME NEW u \in Users, Throttling!Allow(u)
      PROVE  BlockKept(w)
  <2>1. /\ ThrottleConfig \in Throttling!ConfigRecord /\ timestamp \in Nat
        /\ ~Throttling!Blocked(Throttling!StateOf(u))
    BY <1>4 DEF Throttling!Allow, Throttling!Checked, ThrottlingInv, Throttling!TypeOK
  <2>2. PICK s \in Throttling!WalletRecord :
          /\ s = Throttling!Current(Throttling!StateOf(u))
          /\ s.total = Throttling!StateOf(u).total /\ s.is_throttled = FALSE
    BY <2>1, StateType, CurrentType
  <2>3. PICK new \in Throttling!WalletRecord :
          new = [s EXCEPT !.count = @ + 1, !.last = timestamp, !.total = @ + 1]
    BY <2>1, RequestType
  <2>4. /\ WalletThrottleState' = [WalletThrottleState EXCEPT ![u] = new]
        /\ s.count < ThrottleConfig.max
    BY <1>4, <2>2, <2>3 DEF Throttling!Allow
  <2>5. new.total = s.total + 1 /\ new.count = s.count + 1 /\ new.is_throttled = FALSE
    BY <2>2, <2>3 DEF Throttling!WalletRecord
  <2>6. CASE w = u
    <3>1. Throttling!StateOf(u)' = new
      BY <2>4, OneStateStored
    <3>2. s.count + 1 <= ThrottleConfig.max
      BY <2>1, <2>4 DEF Throttling!WalletRecord, Throttling!ConfigRecord
    <3>3. Throttling!StateOf(u).is_throttled =>
            timestamp >= Throttling!StateOf(u).throttle_start + ThrottleConfig.block
      BY <1>1, <2>1, <2>6 DEF Throttling!Blocked, Throttling!WalletRecord, Throttling!ConfigRecord
    <3> QED
      BY <2>2, <2>5, <2>6, <3>1, <3>2, <3>3 DEF BlockKept
  <2>7. CASE w # u
    BY <1>1, <2>4, <2>7, OneStateStored, SameTotal
  <2> QED
    BY <2>6, <2>7
<1>5. ASSUME NEW c \in Users, NEW u \in Users, Throttling!ResetWalletThrottleState(c, u)
      PROVE  BlockKept(w)
  <2>1. PICK s \in Throttling!WalletRecord : s = Throttling!Fresh /\ s.total = 0
    BY StateType DEF Throttling!Fresh
  <2>2. WalletThrottleState' = [WalletThrottleState EXCEPT ![u] = s]
    BY <1>5, <2>1 DEF Throttling!ResetWalletThrottleState
  <2>3. CASE w = u
    <3>1. Throttling!StateOf(w)'.total = 0
      BY <2>1, <2>2, <2>3, OneStateStored
    <3> QED
      BY <1>1, <3>1 DEF BlockKept, Throttling!WalletRecord
  <2>4. CASE w # u
    BY <1>1, <2>2, <2>4, OneStateStored, SameTotal
  <2> QED
    BY <2>3, <2>4
<1> QED
  BY <1>2, <1>3, <1>4, <1>5
     DEF Throttling!Next, Throttling!Initialize, Throttling!UpdateThrottleConfig,
         Throttling!RefuseBlocked, Throttling!AddExemptAddress, Throttling!RemoveExemptAddress,
         Throttling!ForceCleanup, Throttling!CloseLedger

------------------------------------------------------------------------------
\* The token.

\* What holders have is the total of their balances.
LEMMA HeldIsTotal ==
  /\ Token!Held = Total(Balance, DOMAIN Balance)
  /\ Token!Held' = Total(Balance', DOMAIN Balance')
BY DEF Token!Held, Token!FoldFunction, Token!FoldFunctionOnSet, Token!MapThenFoldSet,
       Total, IsTotal, Choice

LEMMA TokenConstants ==
  ASSUME Token!TokenAssumption
  PROVE  /\ IsFiniteSet(Users) /\ Unset \notin Users /\ Unset \in Caps
         /\ \A c \in Caps : c # Unset => c \in Int
         /\ I128_MAX \in Nat /\ \A a \in TokenAmounts : a \in Int
         /\ \A S : Token!Cardinality(S) = Cardinality(S)
<1>1. Token!IsFiniteSet(Users) = IsFiniteSet(Users)
  BY DEF Token!IsFiniteSet, IsFiniteSet
<1>2. \A S : Token!Cardinality(S) = Cardinality(S)
  BY DEF Token!Cardinality, Cardinality
<1>3. I128_MAX \in Nat /\ \A a \in TokenAmounts : a \in Int
  BY DEF Token!TokenAssumption
<1> QED
  BY <1>1, <1>2, <1>3 DEF Token!TokenAssumption

\* Until it is initialized the token has no units.
TokenInv ==
  /\ Token!TypeOK
  /\ TotalMinted \in Int /\ TotalBurned \in Int /\ SelfMoved \in Int
  /\ Admin = Unset => /\ Minters = {} /\ Balance = [u \in Users |-> 0]
                      /\ TotalMinted = 0 /\ TotalBurned = 0

LEMMA TokenStart ==
  ASSUME Token!TokenAssumption, Token!Init
  PROVE  TokenInv
<1>1. 0 \in 0..I128_MAX
  BY TokenConstants
<1>2. Balance \in [Users -> 0..I128_MAX] /\ Allowance \in [Users -> [Users -> 0..I128_MAX]]
  BY <1>1 DEF Token!Init
<1>3. TokenSupply = TotalMinted - TotalBurned /\ Token!Within(TotalBurned, BurnCap)
  BY DEF Token!Init, Token!Within
<1>4. Token!TypeOK
  BY <1>2, <1>3, TokenConstants DEF Token!Init, Token!TypeOK
<1> QED
  BY <1>4 DEF Token!Init, TokenInv

LEMMA MovedType ==
  ASSUME Token!TokenAssumption, TokenInv, NEW from \in Users, NEW to \in Users,
         NEW amount \in TokenAmounts, Token!CanMove(from, to, amount),
         Token!Move(from, to, amount)
  PROVE  /\ Balance' \in [Users -> 0..I128_MAX] /\ Balance' = Token!Moved(from, to, amount)
         /\ SelfMoved' \in Int /\ Admin # Unset
<1>1. Token!Moved(from, to, amount) \in [Users -> 0..I128_MAX] /\ Admin # Unset
  BY DEF Token!TokenAssumption, TokenInv, Token!TypeOK, Token!CanMove, Token!Moved, Token!Fits
<1>2. Balance' = Token!Moved(from, to, amount)
  BY DEF Token!Move
<1>3. Balance'[from] \in Int /\ Balance[from] \in Int /\ SelfMoved \in Int
  BY <1>1, <1>2, TokenConstants DEF TokenInv, Token!TypeOK
<1>4. SelfMoved' \in Int
  BY <1>3 DEF Token!Move
<1> QED
  BY <1>1, <1>2, <1>4

LEMMA TokenStep ==
  ASSUME Token!TokenAssumption, TokenInv, Token!Next
  PROVE  TokenInv'
<1> USE DEF Token!TokenAssumption, Token!roles, Token!totals
<1>1. ASSUME NEW u \in Users, NEW m \in Caps, NEW b \in Caps, Token!InitializeToken(u, m, b)
      PROVE  TokenInv'
  <2>1. /\ Admin' = u /\ Minters' = {u} /\ Paused' = FALSE /\ MintCap' = m /\ BurnCap' = b
        /\ TokenSupply' = 0 /\ TotalMinted' = 0 /\ TotalBurned' = 0
        /\ Balance' = Balance /\ Allowance' = Allowance /\ SelfMoved' = SelfMoved
        /\ Token!ValidCap(b)
    BY <1>1 DEF Token!InitializeToken, TokenInv
  <2>2. b # Unset => 0 <= b
    BY <2>1, TokenConstants DEF Token!ValidCap
  <2>3. TokenSupply' = TotalMinted' - TotalBurned' /\ Token!Within(TotalBurned, BurnCap)'
    BY <2>1, <2>2 DEF Token!Within
  <2>4. Token!TypeOK'
    BY <2>1, <2>3 DEF TokenInv, Token!TypeOK
  <2> QED
    BY <2>1, <2>4, TokenConstants DEF TokenInv
<1>2. ASSUME NEW c \in Users, NEW u \in Users, Token!AddMinter(c, u) \/ Token!RemoveMinter(c, u)
      PROVE  TokenInv'
  BY <1>2 DEF Token!AddMinter, Token!RemoveMinter, Token!RequireAdmin, TokenInv, Token!TypeOK,
              Token!Within
<1>3. ASSUME NEW c \in Users, NEW p \in BOOLEAN, Token!SetPaused(c, p)
      PROVE  TokenInv'
  BY <1>3 DEF Token!SetPaused, TokenInv, Token!TypeOK, Token!Within
<1>4. ASSUME NEW c \in Users, NEW u \in Users, NEW a \in TokenAmounts, Token!Mint(c, u, a)
      PROVE  TokenInv'
  BY <1>4 DEF Token!Mint, Token!Fits, TokenInv, Token!TypeOK, Token!Within
<1>5. ASSUME NEW u \in Users, NEW a \in TokenAmounts, Token!Burn(u, a)
      PROVE  TokenInv'
  BY <1>5 DEF Token!Burn, Token!SupplyAfterBurn, TokenInv, Token!TypeOK, Token!Within
<1>6. ASSUME NEW u \in Users, NEW v \in Users, NEW a \in TokenAmounts, Token!Transfer(u, v, a)
      PROVE  TokenInv'
  <2>1. /\ Balance' \in [Users -> 0..I128_MAX] /\ Admin # Unset /\ SelfMoved' \in Int
        /\ UNCHANGED <<Token!roles, Paused, Token!totals, Allowance>>
    BY <1>6, MovedType DEF Token!Transfer
  <2> QED
    BY <2>1 DEF TokenInv, Token!TypeOK, Token!Within
<1>7. ASSUME NEW u \in Users, NEW v \in Users, NEW a \in TokenAmounts, Token!Approve(u, v, a)
      PROVE  TokenInv'
  BY <1>7 DEF Token!Approve, TokenInv, Token!TypeOK, Token!Within
<1>8. ASSUME NEW s \in Users, NEW u \in Users, NEW v \in Users, NEW a \in TokenAmounts,
             Token!TransferFrom(s, u, v, a)
      PROVE  TokenInv'
  <2>1. /\ Balance' \in [Users -> 0..I128_MAX] /\ Admin # Unset /\ SelfMoved' \in Int
        /\ UNCHANGED <<Token!roles, Paused, Token!totals>>
    BY <1>8, MovedType DEF Token!TransferFrom
  <2>2. Allowance' \in [Users -> [Users -> 0..I128_MAX]]
    BY <1>8 DEF Token!TransferFrom, Token!CanMove, TokenInv, Token!TypeOK
  <2> QED
    BY <2>1, <2>2 DEF TokenInv, Token!TypeOK, Token!Within
<1> QED
  BY <1>1, <1>2, <1>3, <1>4, <1>5, <1>6, <1>7, <1>8 DEF Token!Next

\* What SupplyFollowsBalances says of one step.
SupplyFollows ==
  Token!Held' - Token!Held = (TokenSupply' - TokenSupply) + (SelfMoved' - SelfMoved)

\* One balance changes.
LEMMA HeldAfterOne ==
  ASSUME IsFiniteSet(Users), NEW u \in Users, NEW n \in Int,
         Balance \in [Users -> Int], Balance' = [Balance EXCEPT ![u] = n]
  PROVE  Token!Held' = Token!Held + n - Balance[u] /\ Token!Held \in Int
<1>1. DOMAIN Balance = Users /\ DOMAIN Balance' = Users
  OBVIOUS
<1>2. /\ Total([Balance EXCEPT ![u] = n], Users) = Total(Balance, Users) + n - Balance[u]
      /\ Total(Balance, Users) \in Int
  BY TotalExcept
<1> QED
  BY <1>1, <1>2, HeldIsTotal

\* Moving units between two holders creates none; what moving them to oneself
\* changes is noted.
LEMMA HeldAfterMove ==
  ASSUME Token!TokenAssumption, TokenInv, NEW from \in Users, NEW to \in Users,
         NEW amount \in TokenAmounts, Token!CanMove(from, to, amount),
         Token!Move(from, to, amount), UNCHANGED Token!totals
  PROVE  SupplyFollows
<1>1. /\ Balance \in [Users -> Int] /\ amount \in Int /\ amount > 0 /\ TokenSupply \in Int
      /\ IsFiniteSet(Users) /\ DOMAIN Balance = Users /\ DOMAIN Balance' = Users
      /\ TokenSupply' = TokenSupply /\ SelfMoved \in Int
      /\ Balance' = Token!Moved(from, to, amount)
  BY TokenConstants, MovedType DEF TokenInv, Token!TypeOK, Token!CanMove, Token!totals
<1>2. CASE from = to
  <2>1. PICK n : n = Balance'[from]
    OBVIOUS
  <2>2. n \in Int /\ Balance' = [Balance EXCEPT ![from] = n]
    <3>1. \A x \in Users : Balance'[x] = IF x = from THEN n ELSE Balance[x]
      BY <1>1, <1>2, <2>1 DEF Token!Moved
    <3>2. n \in Int /\ Balance' \in [Users -> Int]
      BY <2>1, MovedType, TokenConstants
    <3> QED
      BY <1>1, <3>1, <3>2
  <2>3. Token!Held' = Token!Held + n - Balance[from] /\ Token!Held \in Int
    BY <1>1, <2>2, HeldAfterOne
  <2>4. SelfMoved' = SelfMoved + n - Balance[from]
    BY <1>2, <2>1 DEF Token!Move
  <2> QED
    BY <1>1, <2>2, <2>3, <2>4 DEF SupplyFollows
<1>3. CASE from # to
  <2>1. PICK mid : mid = [Balance EXCEPT ![from] = @ - amount]
    OBVIOUS
  <2>2. /\ \A x \in Users : mid[x] \in Int /\ Balance[x] \in Int /\ Balance'[x] \in Int
        /\ \A x \in Users : x # from => Balance[x] = mid[x]
        /\ mid[from] = Balance[from] - amount
    BY <1>1, <2>1 DEF Token!Moved
  <2>3. /\ \A x \in Users : x # to => mid[x] = Balance'[x]
        /\ Balance'[to] = mid[to] + amount
    BY <1>1, <1>3, <2>1 DEF Token!Moved
  <2>4. Total(mid, Users) = Total(Balance, Users) + mid[from] - Balance[from]
    <3>1. PICK f : f = Balance
      OBVIOUS
    <3>2. /\ \A x \in Users : f[x] \in Int /\ mid[x] \in Int
          /\ \A x \in Users : x # from => f[x] = mid[x]
      BY <2>2, <3>1
    <3>3. IsFiniteSet(Users)
      BY <1>1
    <3>4. Total(mid, Users) = Total(f, Users) + mid[from] - f[from]
      BY <3>2, <3>3, TotalPoint
    <3> QED
      BY <3>1, <3>4
  <2>5. Total(Balance', Users) = Total(mid, Users) + Balance'[to] - mid[to]
    BY <1>1, <2>2, <2>3, TotalPoint
  <2>6. Total(Balance, Users) \in Int /\ Total(mid, Users) \in Int
    BY <1>1, <2>2, TotalType
  <2>7. Total(Balance', Users) = Total(Balance, Users)
    BY <1>1, <2>2, <2>3, <2>4, <2>5, <2>6
  <2>8. SelfMoved' = SelfMoved
    BY <1>3 DEF Token!Move
  <2> QED
    BY <1>1, <2>6, <2>7, <2>8, HeldIsTotal DEF SupplyFollows
<1> QED
  BY <1>2, <1>3

\* No balance changes.
LEMMA HeldUnchanged ==
  ASSUME IsFiniteSet(Users), Balance \in [Users -> Int], TokenSupply \in Int,
         SelfMoved \in Int, UNCHANGED <<Balance, TokenSupply, SelfMoved>>
  PROVE  SupplyFollows
<1>1. DOMAIN Balance = Users /\ \A x \in Users : Balance[x] \in Int
  OBVIOUS
<1>2. Token!Held \in Int /\ Token!Held' = Token!Held
  BY <1>1, TotalType, HeldIsTotal
<1> QED
  BY <1>2 DEF SupplyFollows

LEMMA SupplyStep ==
  ASSUME Token!TokenAssumption, TokenInv, Token!Next
  PROVE  SupplyFollows
<1>0. /\ IsFiniteSet(Users) /\ Balance \in [Users -> Int] /\ TokenSupply \in Int
      /\ SelfMoved \in Int
      /\ \A a \in TokenAmounts : a \in Int
      /\ \A u \in Users, a \in TokenAmounts : Balance[u] + a \in Int /\ Balance[u] - a \in Int
  BY TokenConstants DEF TokenInv, Token!TypeOK
<1>1. CASE UNCHANGED <<Balance, TokenSupply, SelfMoved>>
  BY <1>0, <1>1, HeldUnchanged
<1>2. ASSUME NEW u \in Users, NEW m \in Caps, NEW b \in Caps, Token!InitializeToken(u, m, b)
      PROVE  SupplyFollows
  <2>1. UNCHANGED <<Balance, TokenSupply, SelfMoved>>
    BY <1>2 DEF Token!InitializeToken, TokenInv, Token!TypeOK
  <2> QED
    BY <1>0, <2>1, HeldUnchanged
<1>3. ASSUME NEW c \in Users, NEW u \in Users, NEW a \in TokenAmounts, Token!Mint(c, u, a)
      PROVE  SupplyFollows
  <2>1. /\ Balance' = [Balance EXCEPT ![u] = Balance[u] + a] /\ TokenSupply' = TokenSupply + a
        /\ SelfMoved' = SelfMoved
    BY <1>3 DEF Token!Mint
  <2>2. Token!Held' = Token!Held + (Balance[u] + a) - Balance[u] /\ Token!Held \in Int
    BY <1>0, <2>1, HeldAfterOne
  <2> QED
    BY <1>0, <2>1, <2>2 DEF SupplyFollows
<1>4. ASSUME NEW u \in Users, NEW a \in TokenAmounts, Token!Burn(u, a)
      PROVE  SupplyFollows
  <2>1. /\ Balance' = [Balance EXCEPT ![u] = Balance[u] - a] /\ TokenSupply' = TokenSupply - a
        /\ SelfMoved' = SelfMoved
    BY <1>4 DEF Token!Burn, Token!SupplyAfterBurn
  <2>2. Token!Held' = Token!Held + (Balance[u] - a) - Balance[u] /\ Token!Held \in Int
    BY <1>0, <2>1, HeldAfterOne
  <2> QED
    BY <1>0, <2>1, <2>2 DEF SupplyFollows
<1>5. ASSUME NEW u \in Users, NEW v \in Users, NEW a \in TokenAmounts, Token!Transfer(u, v, a)
      PROVE  SupplyFollows
  BY <1>5, HeldAfterMove DEF Token!Transfer
<1>6. ASSUME NEW s \in Users, NEW u \in Users, NEW v \in Users, NEW a \in TokenAmounts,
             Token!TransferFrom(s, u, v, a)
      PROVE  SupplyFollows
  BY <1>6, HeldAfterMove DEF Token!TransferFrom
<1> QED
  BY <1>1, <1>2, <1>3, <1>4, <1>5, <1>6
     DEF Token!Next, Token!AddMinter, Token!RemoveMinter, Token!SetPaused, Token!Approve,
         Token!totals

------------------------------------------------------------------------------
\* The spending limits.

ConfigOfLimits == [admin : LimitsUsers, last_batch_id : Nat, total_limits_updated : Nat,
                   total_batches_processed : Nat]

\* The settings are a record the contract wrote whole.
LimitsInv ==
  /\ SpendingLimits!TypeOK /\ SpendingLimits!WindowsNest
  /\ LimitsConfig # Unset => LimitsConfig \in ConfigOfLimits
  /\ SpendingLimit \in [LimitsUsers -> SpendingLimits!LimitRecord \cup {Unset}]

LEMMA SumOverIsTotal ==
  ASSUME NEW f, NEW S
  PROVE  SpendingLimits!SumOver(f, S) = Total(f, S)
BY DEF SpendingLimits!SumOver, SpendingLimits!FoldSet, SpendingLimits!MapThenFoldSet,
       Total, IsTotal, Choice

LEMMA LimitsConstants ==
  ASSUME SpendingLimits!LimitsAssumption
  PROVE  /\ HOUR \in Nat \ {0} /\ DAY \in Nat \ {0} /\ MONTH \in Nat \ {0}
         /\ DAY \div HOUR \in Nat \ {0} /\ DAY = HOUR * (DAY \div HOUR)
         /\ MONTH \div DAY \in Nat \ {0} /\ MONTH = DAY * (MONTH \div DAY)
         /\ SpendingLimits!Windows = 0..LimitsMaxTime /\ LimitsMaxTime \in Nat
<1>1. /\ HOUR \in Nat \ {0} /\ DAY \in Nat \ {0} /\ MONTH \in Nat \ {0}
      /\ DAY % HOUR = 0 /\ MONTH % DAY = 0
      /\ SpendingLimits!Windows = 0..LimitsMaxTime /\ LimitsMaxTime \in Nat
  BY DEF SpendingLimits!LimitsAssumption, SpendingLimits!Windows
<1>2. ASSUME NEW x \in Nat \ {0}, NEW d \in Nat \ {0}, x % d = 0
      PROVE  x \div d \in Nat \ {0} /\ x = d * (x \div d)
  <2>1. PICK q \in Int : q = x \div d /\ x = d * q
    BY <1>2, IntDivision
  <2>2. q <= 0 => d * q <= 0
    OBVIOUS
  <2> QED
    BY <2>1, <2>2
<1> QED
  BY <1>1, <1>2

\* An hour, its day and its month.
LEMMA WindowsOfNow ==
  ASSUME SpendingLimits!LimitsAssumption, timestamp \in 0..LimitsMaxTime
  PROVE  /\ SpendingLimits!Hour \in SpendingLimits!Windows
         /\ SpendingLimits!Day \in SpendingLimits!Windows
         /\ SpendingLimits!Month \in SpendingLimits!Windows
         /\ SpendingLimits!Hour \div (DAY \div HOUR) = SpendingLimits!Day
         /\ SpendingLimits!Day \div (MONTH \div DAY) = SpendingLimits!Month
<1>1. ASSUME NEW h \in Nat \ {0}, NEW x \in Nat
      PROVE  x \div h \in Nat /\ x \div h <= x
  <2>1. x \div h \in Int /\ x % h \in 0..(h - 1) /\ x = h * (x \div h) + (x % h)
    BY IntDivision
  <2>5. PICK q \in Int, r \in 0..(h - 1) : q = x \div h /\ x = h * q + r
    BY <2>1
  <2>2. q <= -1 => h * q <= -h
    OBVIOUS
  <2>3. q >= 0 => h * q >= q
    OBVIOUS
  <2>4. h * q \in Int
    OBVIOUS
  <2> QED
    BY <2>5, <2>2, <2>3, <2>4
<1>2. \A h \in Nat \ {0} : 0 \div h = 0
  OBVIOUS
<1>3. CASE timestamp = 0
  BY <1>2, <1>3, LimitsConstants
     DEF SpendingLimits!Hour, SpendingLimits!Day, SpendingLimits!Month, SpendingLimits!WindowOf
<1>4. CASE timestamp # 0
  <2>1. PICK x \in Nat : x = timestamp - 1 /\ x <= LimitsMaxTime
    BY <1>4, LimitsConstants
  <2>2. /\ SpendingLimits!Hour = x \div HOUR /\ SpendingLimits!Day = x \div DAY
        /\ SpendingLimits!Month = x \div MONTH
    BY <1>4, <2>1 DEF SpendingLimits!Hour, SpendingLimits!Day, SpendingLimits!Month,
                      SpendingLimits!WindowOf
  <2>3. PICK k \in Nat \ {0} : k = DAY \div HOUR /\ DAY = HOUR * k
    BY LimitsConstants
  <2>4. PICK m \in Nat \ {0} : m = MONTH \div DAY /\ MONTH = DAY * m
    BY LimitsConstants
  <2>5. (x \div HOUR) \div k = x \div DAY /\ (x \div DAY) \div m = x \div MONTH
    <3>1. (x \div HOUR) \div k = x \div (HOUR * k)
      BY LimitsConstants, NestedDivision
    <3>2. (x \div DAY) \div m = x \div (DAY * m)
      BY LimitsConstants, NestedDivision
    <3> QED
      BY <2>3, <2>4, <3>1, <3>2
  <2>6. /\ x \div HOUR \in Nat /\ x \div HOUR <= x /\ x \div DAY \in Nat /\ x \div DAY <= x
        /\ x \div MONTH \in Nat /\ x \div MONTH <= x
    BY <1>1, LimitsConstants
  <2>7. \A y \in Nat : y <= x => y \in SpendingLimits!Windows
    BY <2>1, LimitsConstants
  <2> QED
    BY <2>2, <2>3, <2>4, <2>5, <2>6, <2>7
<1> QED
  BY <1>3, <1>4

\* The totals g are the totals f after n was counted in window j.
CountedIn(f, g, j, n) ==
  f \in [SpendingLimits!Windows -> Nat] /\ g = [f EXCEPT ![j] = f[j] + n]

\* That money is in the sums over the sets that hold j.
LEMMA SumAfterSpend ==
  ASSUME SpendingLimits!LimitsAssumption, NEW j \in SpendingLimits!Windows, NEW n \in Int,
         NEW S \in SUBSET SpendingLimits!Windows, NEW f, NEW g, CountedIn(f, g, j, n)
  PROVE  SpendingLimits!SumOver(g, S)
           = SpendingLimits!SumOver(f, S) + (IF j \in S THEN n ELSE 0)
<1>1. f \in [SpendingLimits!Windows -> Nat] /\ g = [f EXCEPT ![j] = f[j] + n]
  BY DEF CountedIn
<1>2. IsFiniteSet(S)
  <2>1. IsFiniteSet(0..LimitsMaxTime)
    BY LimitsConstants, FS_Interval
  <2> QED
    BY <2>1, LimitsConstants, FS_Subset
<1>3. /\ \A x \in S : f[x] \in Int /\ g[x] \in Int
      /\ \A x \in S : x # j => f[x] = g[x]
  BY <1>1
<1>4. CASE j \in S
  <2>1. Total(g, S) = Total(f, S) + g[j] - f[j]
    BY <1>2, <1>3, <1>4, TotalPoint
  <2>2. g[j] = f[j] + n /\ f[j] \in Int
    BY <1>1
  <2>3. Total(f, S) \in Int
    BY <1>2, <1>3, TotalType
  <2> QED
    BY <1>4, <2>1, <2>2, <2>3, SumOverIsTotal
<1>5. CASE j \notin S
  <2>1. \A x \in S : f[x] = g[x]
    BY <1>3, <1>5
  <2>2. Total(f, S) = Total(g, S)
    BY <1>2, <1>3, <2>1, TotalCongruence
  <2>3. Total(f, S) \in Int
    BY <1>2, <1>3, TotalType
  <2> QED
    BY <1>5, <2>2, <2>3, SumOverIsTotal
<1> QED
  BY <1>4, <1>5

LEMMA LimitsStart ==
  ASSUME SpendingLimits!LimitsAssumption, SpendingLimits!Init
  PROVE  LimitsInv
<1>1. SpendingLimits!TypeOK
  BY LimitsConstants DEF SpendingLimits!Init, SpendingLimits!TypeOK, SpendingLimits!Nothing
<1>2. ASSUME NEW S \in SUBSET SpendingLimits!Windows, NEW f, \A w \in S : f[w] = 0
      PROVE  SpendingLimits!SumOver(f, S) = 0
  <2>1. IsFiniteSet(0..LimitsMaxTime)
    BY LimitsConstants, FS_Interval
  <2>2. IsFiniteSet(S)
    BY <2>1, LimitsConstants, FS_Subset
  <2> QED
    BY <1>2, <2>2, TotalOfZeros, SumOverIsTotal
<1>3. ASSUME NEW u \in LimitsUsers, NEW S \in SUBSET SpendingLimits!Windows
      PROVE  /\ SpendingLimits!SumOver(HourlySpending[u], S) = 0
             /\ SpendingLimits!SumOver(DailySpending[u], S) = 0
  BY <1>2 DEF SpendingLimits!Init, SpendingLimits!Nothing
<1>4. \A n, w : SpendingLimits!Inside(n, w) \in SUBSET SpendingLimits!Windows
  BY DEF SpendingLimits!Inside
<1>5. SpendingLimits!WindowsNest
  BY <1>3, <1>4 DEF SpendingLimits!WindowsNest, SpendingLimits!Init, SpendingLimits!Nothing
<1> QED
  BY <1>1, <1>5 DEF LimitsInv, SpendingLimits!Init

\* What LimitsInv says of the windows.
WindowsOK ==
  /\ SpendingLimits!WindowsNest
  /\ \A S \in {HourlySpending, DailySpending, MonthlySpending} :
       S \in [LimitsUsers -> [SpendingLimits!Windows -> Nat]]

\* Steps that count no money.
LEMMA SameWindows ==
  ASSUME LimitsInv, UNCHANGED SpendingLimits!windows
  PROVE  WindowsOK'
BY DEF LimitsInv, WindowsOK, SpendingLimits!windows, SpendingLimits!WindowsNest,
       SpendingLimits!TypeOK

\* A batch writes the limits of valid requests only.
LEMMA BatchType ==
  ASSUME SpendingLimits!LimitsAssumption, LimitsInv, NEW rs \in LimitBatches, NEW c,
         SpendingLimits!BatchUpdateSpendingLimits(c, rs)
  PROVE  /\ LimitsConfig' \in ConfigOfLimits /\ LimitsConfig'.admin = LimitsConfig.admin
         /\ LimitsConfig'.last_batch_id = LimitsConfig'.total_batches_processed
         /\ SpendingLimit' \in [LimitsUsers -> SpendingLimits!LimitRecord \cup {Unset}]
<1>1. PICK n \in Nat :
        /\ DOMAIN rs = 1..n
        /\ \A i \in 1..n : rs[i] \in [user : LimitsUsers, monthly : Int, daily : Int,
                                      hourly : Int, adaptive : BOOLEAN]
  <2>1. PICK R : R = [user : LimitsUsers, monthly : Int, daily : Int, hourly : Int,
                      adaptive : BOOLEAN]
    OBVIOUS
  <2>2. rs \in Seq(R)
    BY <2>1 DEF SpendingLimits!LimitsAssumption
  <2>3. Len(rs) \in Nat /\ DOMAIN rs = 1..Len(rs) /\ \A i \in 1..Len(rs) : rs[i] \in R
    BY <2>2
  <2> QED
    BY <2>1, <2>3
<1>2. PICK valid \in SUBSET (1..n) :
        valid = {i \in DOMAIN rs : SpendingLimits!ValidLimitRequest(rs[i])}
  BY <1>1
<1>3. PICK count \in Nat : count = SpendingLimits!Cardinality(valid)
  <2>1. IsFiniteSet(1..n)
    BY FS_Interval
  <2>2. IsFiniteSet(valid)
    BY <1>2, <2>1, FS_Subset
  <2>3. SpendingLimits!Cardinality(valid) = Cardinality(valid)
    BY DEF SpendingLimits!Cardinality, Cardinality
  <2> QED
    BY <2>2, <2>3, FS_CardinalityType
<1>4. /\ LimitsConfig # Unset
      /\ LimitsConfig' = [LimitsConfig EXCEPT !.last_batch_id = @ + 1,
                            !.total_limits_updated = @ + count, !.total_batches_processed = @ + 1]
      /\ SpendingLimit' = [u \in LimitsUsers |->
           IF {i \in valid : rs[i].user = u} = {} THEN SpendingLimit[u]
           ELSE SpendingLimits!LimitOf(rs[SpendingLimits!Max({i \in valid : rs[i].user = u})])]
  BY <1>2, <1>3 DEF SpendingLimits!BatchUpdateSpendingLimits, SpendingLimits!RequireAdmin
<1>5. LimitsConfig \in ConfigOfLimits
      /\ LimitsConfig.last_batch_id = LimitsConfig.total_batches_processed
  BY <1>4 DEF LimitsInv, SpendingLimits!TypeOK
<1>6. /\ LimitsConfig' \in ConfigOfLimits /\ LimitsConfig'.admin = LimitsConfig.admin
      /\ LimitsConfig'.last_batch_id = LimitsConfig'.total_batches_processed
  <2>1. PICK a \in Nat, b \in Nat, d \in Nat :
          /\ a = LimitsConfig.last_batch_id + 1 /\ b = LimitsConfig.total_limits_updated + count
          /\ d = LimitsConfig.total_batches_processed + 1 /\ a = d
    BY <1>5 DEF ConfigOfLimits
  <2>2. LimitsConfig' = [LimitsConfig EXCEPT !.last_batch_id = a, !.total_limits_updated = b,
                                             !.total_batches_processed = d]
    BY <1>4, <2>1
  <2> QED
    BY <1>5, <2>1, <2>2 DEF ConfigOfLimits
<1>7. ASSUME NEW S \in SUBSET valid, S # {}
      PROVE  SpendingLimits!LimitOf(rs[SpendingLimits!Max(S)]) \in SpendingLimits!LimitRecord
  <2>1. SpendingLimits!Max(S) = Greatest(S)
    BY DEF SpendingLimits!Max, Greatest
  <2>2. PICK k \in S : k = SpendingLimits!Max(S)
    BY <1>2, <1>7, <2>1, GreatestIn
  <2>3. k \in 1..n /\ SpendingLimits!ValidLimitRequest(rs[k])
    BY <1>2, <2>2
  <2>4. PICK r \in [user : LimitsUsers, monthly : Int, daily : Int, hourly : Int,
                    adaptive : BOOLEAN] : r = rs[k] /\ SpendingLimits!ValidLimitRequest(r)
    BY <1>1, <2>3
  <2>5. r.monthly \in Nat /\ r.daily \in Nat /\ r.hourly \in Nat
    BY <2>4 DEF SpendingLimits!ValidLimitRequest, SpendingLimits!IsValidLimit,
                SpendingLimits!LimitsAssumption
  <2> QED
    BY <2>2, <2>4, <2>5 DEF SpendingLimits!LimitOf, SpendingLimits!LimitRecord
<1>8. \A u \in LimitsUsers : {i \in valid : rs[i].user = u} \in SUBSET valid
  OBVIOUS
<1>9. \A u \in LimitsUsers : SpendingLimit[u] \in SpendingLimits!LimitRecord \cup {Unset}
  BY DEF LimitsInv
<1>10. SpendingLimit' \in [LimitsUsers -> SpendingLimits!LimitRecord \cup {Unset}]
  BY <1>4, <1>7, <1>8, <1>9
<1> QED
  BY <1>6, <1>10

\* An accepted spend is counted once in each window.
LEMMA SpendCounted ==
  ASSUME SpendingLimits!LimitsAssumption, LimitsInv, NEW u \in LimitsUsers, NEW a \in Spends,
         NEW k, SpendingLimits!EnforceSpendingLimit(u, a, k)
  PROVE  WindowsOK'
<1> DEFINE W == SpendingLimits!Windows
           h == SpendingLimits!Hour
           d == SpendingLimits!Day
           m == SpendingLimits!Month
<1>1. /\ h \in W /\ d \in W /\ m \in W /\ h \div (DAY \div HOUR) = d
      /\ d \div (MONTH \div DAY) = m
  BY WindowsOfNow DEF LimitsInv, SpendingLimits!TypeOK
<1>2. /\ HourlySpending \in [LimitsUsers -> [W -> Nat]]
      /\ DailySpending \in [LimitsUsers -> [W -> Nat]]
      /\ MonthlySpending \in [LimitsUsers -> [W -> Nat]]
  BY DEF LimitsInv, SpendingLimits!TypeOK
<1>3. /\ a \in Nat
      /\ HourlySpending' = [HourlySpending EXCEPT ![u][h] = HourlySpending[u][h] + a]
      /\ DailySpending' = [DailySpending EXCEPT ![u][d] = DailySpending[u][d] + a]
      /\ MonthlySpending' = [MonthlySpending EXCEPT ![u][m] = MonthlySpending[u][m] + a]
  BY DEF SpendingLimits!EnforceSpendingLimit, SpendingLimits!LimitsAssumption
<1> HIDE DEF W, h, d, m
<1>4. \A S \in {HourlySpending', DailySpending', MonthlySpending'} : S \in [LimitsUsers -> [W -> Nat]]
  <2>1. ASSUME NEW f \in [LimitsUsers -> [W -> Nat]], NEW j \in W
        PROVE  [f EXCEPT ![u][j] = f[u][j] + a] \in [LimitsUsers -> [W -> Nat]]
    <3>1. f[u][j] + a \in Nat
      BY <1>3
    <3> QED
      BY <3>1
  <2>2. /\ HourlySpending' \in [LimitsUsers -> [W -> Nat]]
        /\ DailySpending' \in [LimitsUsers -> [W -> Nat]]
        /\ MonthlySpending' \in [LimitsUsers -> [W -> Nat]]
    BY <1>1, <1>2, <1>3, <2>1
  <2> QED
    BY <2>2
<1>5. ASSUME NEW v \in LimitsUsers, NEW w \in W
      PROVE  /\ DailySpending'[v][w]
                  = SpendingLimits!SumOver(HourlySpending'[v], SpendingLimits!Inside(DAY \div HOUR, w))
             /\ MonthlySpending'[v][w]
                  = SpendingLimits!SumOver(DailySpending'[v], SpendingLimits!Inside(MONTH \div DAY, w))
  <2>1. /\ DailySpending[v][w]
             = SpendingLimits!SumOver(HourlySpending[v], SpendingLimits!Inside(DAY \div HOUR, w))
        /\ MonthlySpending[v][w]
             = SpendingLimits!SumOver(DailySpending[v], SpendingLimits!Inside(MONTH \div DAY, w))
    BY DEF LimitsInv, SpendingLimits!WindowsNest, W
  <2>2. CASE v # u
    BY <1>2, <1>3, <2>1, <2>2
  <2>3. CASE v = u
    <3>1. /\ HourlySpending[u] \in [W -> Nat] /\ DailySpending[u] \in [W -> Nat]
          /\ MonthlySpending[u] \in [W -> Nat]
          /\ HourlySpending'[u] = [HourlySpending[u] EXCEPT ![h] = HourlySpending[u][h] + a]
          /\ DailySpending'[u] = [DailySpending[u] EXCEPT ![d] = DailySpending[u][d] + a]
          /\ MonthlySpending'[u] = [MonthlySpending[u] EXCEPT ![m] = MonthlySpending[u][m] + a]
      BY <1>2, <1>3
    <3>2. /\ SpendingLimits!Inside(DAY \div HOUR, w) \in SUBSET W
          /\ SpendingLimits!Inside(MONTH \div DAY, w) \in SUBSET W
          /\ h \in SpendingLimits!Inside(DAY \div HOUR, w) <=> w = d
          /\ d \in SpendingLimits!Inside(MONTH \div DAY, w) <=> w = m
      BY <1>1 DEF SpendingLimits!Inside, W
    <3>3. SpendingLimits!SumOver(HourlySpending'[u], SpendingLimits!Inside(DAY \div HOUR, w))
            = SpendingLimits!SumOver(HourlySpending[u], SpendingLimits!Inside(DAY \div HOUR, w))
                + (IF w = d THEN a ELSE 0)
      <4>1. PICK f, g : f = HourlySpending[u] /\ g = HourlySpending'[u]
        OBVIOUS
      <4>2. f \in [W -> Nat] /\ g = [f EXCEPT ![h] = f[h] + a] /\ h \in W /\ a \in Int
        BY <1>1, <1>3, <3>1, <4>1
      <4>3. PICK S \in SUBSET W : S = SpendingLimits!Inside(DAY \div HOUR, w)
        BY <3>2
      <4>4. h \in SpendingLimits!Windows /\ a \in Int /\ S \in SUBSET SpendingLimits!Windows
        BY <4>2, <4>3 DEF W
      <4>5. CountedIn(f, g, h, a)
        BY <4>2 DEF W, CountedIn
      <4>6. SpendingLimits!SumOver(g, S)
              = SpendingLimits!SumOver(f, S) + (IF h \in S THEN a ELSE 0)
        BY <4>4, <4>5, SumAfterSpend
      <4> QED
        BY <3>2, <4>1, <4>3, <4>6
    <3>4. SpendingLimits!SumOver(DailySpending'[u], SpendingLimits!Inside(MONTH \div DAY, w))
            = SpendingLimits!SumOver(DailySpending[u], SpendingLimits!Inside(MONTH \div DAY, w))
                + (IF w = m THEN a ELSE 0)
      <4>1. PICK f, g : f = DailySpending[u] /\ g = DailySpending'[u]
        OBVIOUS
      <4>2. f \in [W -> Nat] /\ g = [f EXCEPT ![d] = f[d] + a] /\ d \in W /\ a \in Int
        BY <1>1, <1>3, <3>1, <4>1
      <4>3. PICK S \in SUBSET W : S = SpendingLimits!Inside(MONTH \div DAY, w)
        BY <3>2
      <4>4. d \in SpendingLimits!Windows /\ a \in Int /\ S \in SUBSET SpendingLimits!Windows
        BY <4>2, <4>3 DEF W
      <4>5. CountedIn(f, g, d, a)
        BY <4>2 DEF W, CountedIn
      <4>6. SpendingLimits!SumOver(g, S)
              = SpendingLimits!SumOver(f, S) + (IF d \in S THEN a ELSE 0)
        BY <4>4, <4>5, SumAfterSpend
      <4> QED
        BY <3>2, <4>1, <4>3, <4>6
    <3>5. /\ DailySpending'[u][w] = DailySpending[u][w] + (IF w = d THEN a ELSE 0)
          /\ MonthlySpending'[u][w] = MonthlySpending[u][w] + (IF w = m THEN a ELSE 0)
      BY <1>1, <1>3, <3>1
    <3> QED
      BY <2>1, <2>3, <3>3, <3>4, <3>5
  <2> QED
    BY <2>2, <2>3
<1> QED
  BY <1>4, <1>5 DEF WindowsOK, SpendingLimits!WindowsNest, W

\* An adapted limit is a number again.
LEMMA AdaptedType ==
  ASSUME SpendingLimits!LimitsAssumption, NEW l \in SpendingLimits!LimitRecord, NEW n \in Nat
  PROVE  SpendingLimits!Adapted(l, n) \in Nat
<1>1. l.monthly \in Nat /\ MAX_SPENDING_LIMIT \in Nat
  BY DEF SpendingLimits!LimitRecord, SpendingLimits!LimitsAssumption
<1>2. \A x \in Nat : x + x \div 10 \in Nat
  OBVIOUS
<1> QED
  BY <1>1, <1>2 DEF SpendingLimits!Adapted

\* What TypeOK and LimitsInv say of the variables that are not windows.
LimitsRulesOK ==
  /\ LimitsConfig # Unset => /\ LimitsConfig \in ConfigOfLimits
                             /\ LimitsConfig.last_batch_id = LimitsConfig.total_batches_processed
  /\ SpendingLimit \in [LimitsUsers -> SpendingLimits!LimitRecord \cup {Unset}]
  /\ ApprovedCategories \subseteq LimitsCategories
  /\ ExceptionRule \subseteq LimitsUsers \X LimitsCategories /\ Whitelist \subseteq LimitsUsers
  /\ timestamp \in 0..LimitsMaxTime

LEMMA LimitsParts ==
  /\ LimitsInv => LimitsRulesOK
  /\ LimitsRulesOK' /\ WindowsOK' => LimitsInv'
BY DEF LimitsRulesOK, WindowsOK, LimitsInv, SpendingLimits!TypeOK, ConfigOfLimits

LEMMA LimitsRulesStep ==
  ASSUME SpendingLimits!LimitsAssumption, LimitsInv, SpendingLimits!Next
  PROVE  LimitsRulesOK'
<1>1. LimitsRulesOK
  BY LimitsParts
<1>2. ASSUME NEW u \in LimitsUsers, SpendingLimits!Initialize(u)
      PROVE  LimitsRulesOK'
  BY <1>1, <1>2 DEF SpendingLimits!Initialize, SpendingLimits!rules, LimitsRulesOK, ConfigOfLimits
<1>3. ASSUME NEW c \in LimitsUsers, NEW u \in LimitsUsers, SpendingLimits!SetAdmin(c, u)
      PROVE  LimitsRulesOK'
  BY <1>1, <1>3 DEF SpendingLimits!SetAdmin, SpendingLimits!RequireAdmin, SpendingLimits!rules,
                    LimitsRulesOK, ConfigOfLimits
<1>4. ASSUME NEW c \in LimitsUsers, NEW rs \in LimitBatches,
             SpendingLimits!BatchUpdateSpendingLimits(c, rs)
      PROVE  LimitsRulesOK'
  <2>1. UNCHANGED <<ApprovedCategories, ExceptionRule, Whitelist, timestamp>>
    BY <1>4 DEF SpendingLimits!BatchUpdateSpendingLimits, SpendingLimits!rules
  <2> QED
    BY <1>1, <1>4, <2>1, BatchType DEF LimitsRulesOK
<1>5. ASSUME NEW c \in LimitsUsers, NEW u \in LimitsUsers, NEW n \in Overrides,
             SpendingLimits!OverrideSpendingLimit(c, u, n)
      PROVE  LimitsRulesOK'
  <2>1. /\ n \in Nat /\ SpendingLimit[u] \in SpendingLimits!LimitRecord
        /\ SpendingLimit' = [SpendingLimit EXCEPT ![u] = [SpendingLimit[u] EXCEPT !.monthly = n]]
        /\ UNCHANGED <<LimitsConfig, ApprovedCategories, ExceptionRule, Whitelist, timestamp>>
    BY <1>1, <1>5 DEF SpendingLimits!OverrideSpendingLimit, SpendingLimits!rules, LimitsRulesOK,
                      SpendingLimits!LimitsAssumption
  <2>2. [SpendingLimit[u] EXCEPT !.monthly = n] \in SpendingLimits!LimitRecord
    BY <2>1 DEF SpendingLimits!LimitRecord
  <2> QED
    BY <1>1, <2>1, <2>2 DEF LimitsRulesOK
<1>6. ASSUME NEW c \in LimitsUsers, NEW u \in LimitsUsers, NEW a \in Spends,
             SpendingLimits!ApproveEscalatedSpend(c, u, a)
      PROVE  LimitsRulesOK'
  <2>1. PICK l \in SpendingLimits!LimitRecord, n \in Int :
          l = SpendingLimit[u] /\ n = l.current_spending + a
    BY <1>1, <1>6 DEF SpendingLimits!ApproveEscalatedSpend, LimitsRulesOK,
                      SpendingLimits!LimitsAssumption, SpendingLimits!LimitRecord
  <2>2. /\ SpendingLimit' = [SpendingLimit EXCEPT ![u] = [l EXCEPT !.current_spending = n]]
        /\ UNCHANGED <<LimitsConfig, ApprovedCategories, ExceptionRule, Whitelist, timestamp>>
    BY <1>6, <2>1 DEF SpendingLimits!ApproveEscalatedSpend, SpendingLimits!rules
  <2>3. [l EXCEPT !.current_spending = n] \in SpendingLimits!LimitRecord
    BY <2>1 DEF SpendingLimits!LimitRecord
  <2> QED
    BY <1>1, <2>2, <2>3 DEF LimitsRulesOK
<1>7. ASSUME NEW u \in LimitsUsers, NEW a \in Spends, NEW k \in LimitsCategories \cup {NoCategory},
             SpendingLimits!EnforceSpendingLimit(u, a, k)
      PROVE  LimitsRulesOK'
  <2>1. PICK total \in Nat : total = MonthlySpending[u][SpendingLimits!Month] + a
    <3>1. SpendingLimits!Month \in SpendingLimits!Windows
      BY WindowsOfNow DEF LimitsInv, SpendingLimits!TypeOK
    <3>2. MonthlySpending[u][SpendingLimits!Month] \in Nat
      BY <3>1 DEF LimitsInv, SpendingLimits!TypeOK
    <3>3. a \in Nat
      BY <1>7 DEF SpendingLimits!EnforceSpendingLimit, SpendingLimits!LimitsAssumption
    <3> QED
      BY <3>2, <3>3
  <2>2. PICK l \in SpendingLimits!LimitRecord : l = SpendingLimit[u]
    BY <1>1, <1>7 DEF SpendingLimits!EnforceSpendingLimit, LimitsRulesOK
  <2>3. PICK n \in Nat : n = SpendingLimits!Adapted(l, total)
    BY AdaptedType
  <2>4. /\ SpendingLimit' = [SpendingLimit EXCEPT ![u] = [l EXCEPT !.monthly = n,
                                                                 !.current_spending = total]]
        /\ UNCHANGED <<LimitsConfig, ApprovedCategories, ExceptionRule, Whitelist, timestamp>>
    <3>1. /\ SpendingLimit' = [SpendingLimit EXCEPT ![u].monthly = n, ![u].current_spending = total]
          /\ UNCHANGED <<LimitsConfig, SpendingLimits!rules, timestamp>>
      BY <1>7, <2>1, <2>2, <2>3 DEF SpendingLimits!EnforceSpendingLimit
    <3>2. SpendingLimit \in [LimitsUsers -> SpendingLimits!LimitRecord \cup {Unset}]
      BY <1>1 DEF LimitsRulesOK
    <3> QED
      BY <2>2, <3>1, <3>2 DEF SpendingLimits!rules
  <2>5. [l EXCEPT !.monthly = n, !.current_spending = total] \in SpendingLimits!LimitRecord
    <3>1. \A x \in Nat, y \in Int :
            [l EXCEPT !.monthly = x, !.current_spending = y] \in SpendingLimits!LimitRecord
      BY <2>2 DEF SpendingLimits!LimitRecord
    <3>2. n \in Nat /\ total \in Int
      BY <2>1, <2>3
    <3> QED
      BY <3>1, <3>2
  <2> QED
    BY <1>1, <2>4, <2>5 DEF LimitsRulesOK
<1>8. ASSUME NEW c \in LimitsUsers, NEW u \in LimitsUsers,
             SpendingLimits!WhitelistDestination(c, u) \/ SpendingLimits!RemoveFromWhitelist(c, u)
      PROVE  LimitsRulesOK'
  BY <1>1, <1>8 DEF SpendingLimits!WhitelistDestination, SpendingLimits!RemoveFromWhitelist,
                    LimitsRulesOK
<1>9. ASSUME NEW c \in LimitsUsers, NEW k \in LimitsCategories,
             \/ SpendingLimits!AddApprovedCategory(c, k)
             \/ SpendingLimits!RemoveApprovedCategory(c, k)
      PROVE  LimitsRulesOK'
  BY <1>1, <1>9 DEF SpendingLimits!AddApprovedCategory, SpendingLimits!RemoveApprovedCategory,
                    LimitsRulesOK
<1>10. ASSUME NEW c \in LimitsUsers, NEW u \in LimitsUsers, NEW k \in LimitsCategories,
              SpendingLimits!AddException(c, u, k) \/ SpendingLimits!RemoveException(c, u, k)
       PROVE  LimitsRulesOK'
  BY <1>1, <1>10 DEF SpendingLimits!AddException, SpendingLimits!RemoveException, LimitsRulesOK
<1>11. ASSUME SpendingLimits!CloseLedger
       PROVE  LimitsRulesOK'
  BY <1>1, <1>11, LimitsConstants DEF SpendingLimits!CloseLedger, SpendingLimits!rules, LimitsRulesOK
<1> QED
  BY <1>2, <1>3, <1>4, <1>5, <1>6, <1>7, <1>8, <1>9, <1>10, <1>11 DEF SpendingLimits!Next

LEMMA LimitsStep ==
  ASSUME SpendingLimits!LimitsAssumption, LimitsInv, SpendingLimits!Next
  PROVE  LimitsInv'
<1>1. WindowsOK'
  <2>1. CASE UNCHANGED SpendingLimits!windows
    BY <2>1, SameWindows
  <2>2. ASSUME NEW u \in LimitsUsers, NEW a \in Spends, NEW k \in LimitsCategories \cup {NoCategory},
               SpendingLimits!EnforceSpendingLimit(u, a, k)
        PROVE  WindowsOK'
    BY <2>2, SpendCounted
  <2> QED
    BY <2>1, <2>2
       DEF SpendingLimits!Next, SpendingLimits!Initialize, SpendingLimits!SetAdmin,
           SpendingLimits!BatchUpdateSpendingLimits, SpendingLimits!OverrideSpendingLimit,
           SpendingLimits!ApproveEscalatedSpend, SpendingLimits!WhitelistDestination,
           SpendingLimits!RemoveFromWhitelist, SpendingLimits!AddApprovedCategory,
           SpendingLimits!RemoveApprovedCategory, SpendingLimits!AddException,
           SpendingLimits!RemoveException, SpendingLimits!CloseLedger
<1> QED
  BY <1>1, LimitsRulesStep, LimitsParts

------------------------------------------------------------------------------
\* The fee contract: what a payment costs.

StellarBounds == [min : Int, max : Int]
StellarAsset == [rate : Nat, min : Int, max : Int]
StellarRates == [rate : Nat, priority : [Priorities -> Nat]]

\* The settings are records the contract wrote whole, and before it is
\* initialized nothing was collected.
StellarSettings ==
  /\ Admin = Unset <=> FeeConfig = Unset
  /\ Admin # Unset => /\ Admin \in Users /\ FeeConfig \in StellarRates
                      /\ FeeConfig.rate \in 0..StellarFee!BPS
                      /\ FeeConfig.priority = PriorityFeeConfig
  /\ PriorityFeeConfig \in [Priorities -> Nat] /\ StellarFee!Ascending(PriorityFeeConfig)
  /\ FeeBounds # Unset => FeeBounds \in StellarBounds /\ StellarFee!ValidBounds(FeeBounds)
  /\ AssetFeeConfig \in [Assets -> StellarAsset \cup {Unset}]
  /\ \A a \in Assets : AssetFeeConfig[a] # Unset => StellarFee!ValidBounds(AssetFeeConfig[a])
  /\ Admin = Unset => feeTotal = 0

LEMMA StellarConstants ==
  ASSUME StellarFee!StellarFeeAssumption
  PROVE  /\ IsFiniteSet(Users) /\ IsFiniteSet(Assets) /\ Priorities \subseteq Nat
         /\ Unset \notin Users /\ Unset \notin Assets /\ Unset \notin StellarRates
         /\ Unset \notin StellarBounds /\ Unset \notin StellarAsset
         /\ StellarFee!BPS = 10000
<1>1. /\ StellarFee!IsFiniteSet(Users) = IsFiniteSet(Users)
      /\ StellarFee!IsFiniteSet(Assets) = IsFiniteSet(Assets)
  BY DEF StellarFee!IsFiniteSet, IsFiniteSet
<1> QED
  BY <1>1 DEF StellarFee!StellarFeeAssumption, StellarFee!BPS, StellarRates, StellarBounds,
              StellarAsset

\* A larger factor never gives a smaller product.
LEMMA ProductMonotone ==
  ASSUME NEW c \in Nat, NEW x \in Nat, NEW y \in Nat, x <= y
  PROVE  c * x \in Nat /\ c * y \in Nat /\ c * x <= c * y
OBVIOUS

LEMMA PortionType ==
  ASSUME NEW x \in Nat, NEW y \in Nat
  PROVE  (x * y) \div 10000 \in Nat
<1>1. PICK z \in Nat : z = x * y
  OBVIOUS
<1>2. z \div 10000 \in Nat
  OBVIOUS
<1> QED
  BY <1>1, <1>2

\* The fee before the bounds, which does not fall when the priority rises.
LEMMA DefaultFeeFacts ==
  ASSUME StellarFee!StellarFeeAssumption, StellarSettings, FeeConfig # Unset, NEW n \in Nat,
         NEW p \in Priorities, NEW q \in Priorities, p <= q
  PROVE  /\ StellarFee!DefaultFee(n, p) \in Nat /\ StellarFee!DefaultFee(n, q) \in Nat
         /\ StellarFee!DefaultFee(n, p) <= StellarFee!DefaultFee(n, q)
<1>1. PICK r \in Nat, x \in Nat, y \in Nat :
        r = FeeConfig.rate /\ x = FeeConfig.priority[p] /\ y = FeeConfig.priority[q] /\ x <= y
  BY DEF StellarSettings, StellarRates, StellarFee!Ascending
<1>2. PICK a \in Nat, b \in Nat : a = r * x /\ b = r * y /\ a <= b
  BY <1>1, ProductMonotone
<1>3. PICK c \in Nat, d \in Nat : c = a \div 10000 /\ d = b \div 10000 /\ c <= d
  BY <1>2, DivMonotone
<1>4. PICK e \in Nat, f \in Nat : e = n * c /\ f = n * d /\ e <= f
  BY <1>3, ProductMonotone
<1>5. e \div 10000 \in Nat /\ f \div 10000 \in Nat /\ e \div 10000 <= f \div 10000
  BY <1>4, DivMonotone
<1>6. StellarFee!DefaultFee(n, p) = e \div 10000 /\ StellarFee!DefaultFee(n, q) = f \div 10000
  BY <1>1, <1>2, <1>3, <1>4, StellarConstants DEF StellarFee!DefaultFee, StellarFee!PriorityRate
<1> QED
  BY <1>5, <1>6

LEMMA WithinBoundsFacts ==
  ASSUME StellarSettings, NEW x \in Nat, NEW y \in Nat, x <= y
  PROVE  /\ StellarFee!WithinBounds(x) \in Nat /\ StellarFee!WithinBounds(y) \in Nat
         /\ StellarFee!WithinBounds(x) <= StellarFee!WithinBounds(y)
         /\ StellarFee!MinFee \in Nat
<1>1. CASE FeeBounds = Unset
  BY <1>1 DEF StellarFee!WithinBounds, StellarFee!MinFee, StellarFee!AtLeast
<1>2. CASE FeeBounds # Unset
  <2>1. PICK l \in Nat, h \in Nat : l = FeeBounds.min /\ h = FeeBounds.max
    BY <1>2 DEF StellarSettings, StellarBounds, StellarFee!ValidBounds
  <2>2. /\ StellarFee!MinFee = l
        /\ \A z : StellarFee!WithinBounds(z) = StellarFee!AtMost(h, StellarFee!AtLeast(l, z))
    BY <1>2, <2>1 DEF StellarFee!WithinBounds, StellarFee!MinFee
  <2> QED
    BY <2>1, <2>2 DEF StellarFee!AtLeast, StellarFee!AtMost
<1> QED
  BY <1>1, <1>2

LEMMA FallbackFeeFacts ==
  ASSUME StellarFee!StellarFeeAssumption, StellarSettings, FeeConfig # Unset,
         NEW n \in Nat \ {0}, NEW p \in Priorities
  PROVE  /\ StellarFee!FallbackFee(n, p) \in 0..n
         /\ StellarFee!WithinBounds(StellarFee!DefaultFee(n, p)) \in Nat
<1>1. p \in Nat
  BY StellarConstants
<1>2. StellarFee!DefaultFee(n, p) \in Nat
  BY <1>1, DefaultFeeFacts
<1>3. PICK fee \in Nat : fee = StellarFee!WithinBounds(StellarFee!DefaultFee(n, p))
  BY <1>2, WithinBoundsFacts
<1>4. StellarFee!MinFee \in Nat
  BY <1>2, WithinBoundsFacts
<1>5. StellarFee!FallbackFee(n, p) = IF fee <= n THEN fee ELSE StellarFee!AtMost(n, StellarFee!MinFee)
  BY <1>3 DEF StellarFee!FallbackFee
<1> QED
  BY <1>3, <1>4, <1>5 DEF StellarFee!AtMost

LEMMA FallbackHolds ==
  ASSUME StellarFee!StellarFeeAssumption, StellarSettings
  PROVE  StellarFee!FallbackLeavesNet
<1>1. SUFFICES ASSUME FeeConfig # Unset, NEW n \in PaymentAmounts, n > 0, NEW p \in Priorities
               PROVE  /\ StellarFee!FallbackFee(n, p) \in 0..n
                      /\ \A q \in Priorities : p <= q =>
                           StellarFee!WithinBounds(StellarFee!DefaultFee(n, p))
                             <= StellarFee!WithinBounds(StellarFee!DefaultFee(n, q))
  BY DEF StellarFee!FallbackLeavesNet
<1>2. n \in Nat \ {0}
  BY <1>1 DEF StellarFee!StellarFeeAssumption
<1>3. ASSUME NEW q \in Priorities, p <= q
      PROVE  StellarFee!WithinBounds(StellarFee!DefaultFee(n, p))
               <= StellarFee!WithinBounds(StellarFee!DefaultFee(n, q))
  <2>1. PICK x \in Nat, y \in Nat :
          x = StellarFee!DefaultFee(n, p) /\ y = StellarFee!DefaultFee(n, q) /\ x <= y
    BY <1>1, <1>2, <1>3, DefaultFeeFacts
  <2>2. StellarFee!WithinBounds(x) <= StellarFee!WithinBounds(y)
    BY <2>1, WithinBoundsFacts
  <2> QED
    BY <2>1, <2>2
<1>4. StellarFee!FallbackFee(n, p) \in 0..n
  BY <1>1, <1>2, FallbackFeeFacts
<1> QED
  BY <1>3, <1>4

\* What an asset's payment costs, with its own settings or without.
LEMMA AssetFeeFacts ==
  ASSUME StellarFee!StellarFeeAssumption, StellarSettings, FeeConfig # Unset,
         NEW n \in Nat, NEW p \in Priorities, NEW a \in Assets
  PROVE  /\ StellarFee!FeeFor(a, n, p) \in Nat
         /\ StellarFee!AssetFallbackFee(a, n, p) \in Nat
<1>1. p \in Nat
  BY StellarConstants
<1>2. StellarFee!DefaultFee(n, p) \in Nat
  BY <1>1, DefaultFeeFacts
<1>3. ASSUME AssetFeeConfig[a] # Unset
      PROVE  StellarFee!AssetFee(AssetFeeConfig[a], n, p) \in Nat
  <2>1. PICK r \in Nat, l \in Nat, h \in Nat, m \in Nat :
          /\ r = AssetFeeConfig[a].rate /\ l = AssetFeeConfig[a].min /\ h = AssetFeeConfig[a].max
          /\ m = PriorityFeeConfig[p]
    BY <1>3 DEF StellarSettings, StellarAsset, StellarFee!ValidBounds
  <2>2. PICK x \in Nat : x = (r * m) \div 10000
    BY <2>1, PortionType
  <2>3. PICK fee \in Nat : fee = (n * x) \div 10000
    BY <2>2, PortionType
  <2>4. StellarFee!AssetFee(AssetFeeConfig[a], n, p)
          = LET raised == IF l > 0 THEN StellarFee!AtLeast(l, fee) ELSE fee
            IN  IF h > 0 THEN StellarFee!AtMost(h, raised) ELSE raised
    BY <2>1, <2>2, <2>3, StellarConstants DEF StellarFee!AssetFee, StellarFee!PriorityRate
  <2> QED
    BY <2>1, <2>3, <2>4 DEF StellarFee!AtLeast, StellarFee!AtMost
<1> QED
  BY <1>2, <1>3 DEF StellarFee!FeeFor, StellarFee!AssetFallbackFee

------------------------------------------------------------------------------
\* The fee contract: adding the fees up.

FeeOf(charges) == [i \in DOMAIN charges |-> charges[i].fee]
PayerOf(charges) == [i \in DOMAIN charges |-> charges[i].payer]
AssetOf(charges) == [i \in DOMAIN charges |-> charges[i].asset]
UserAssetFees(accrued, a) == [u \in Users |-> accrued[u][a]]

AreCharges(charges) ==
  /\ IsFiniteSet(DOMAIN charges)
  /\ \A i \in DOMAIN charges : charges[i].payer \in Users /\ charges[i].fee \in Nat
HaveAssets(charges) == \A i \in DOMAIN charges : charges[i].asset \in Assets

\* The books add up what was charged.
StellarBooks ==
  /\ feeTotal \in Nat /\ feeUsers \in [Users -> Nat]
  /\ AssetFeesCollected \in [Assets -> Nat]
  /\ UserAssetFeesAccrued \in [Users -> [Assets -> Nat]]
  /\ \A a \in Assets :
       AssetFeesCollected[a] = Total(UserAssetFees(UserAssetFeesAccrued, a), Users)
  /\ Total(AssetFeesCollected, Assets) <= feeTotal
  /\ Total(feeUsers, Users) <= feeTotal
  /\ feeTotal <= Total(AssetFeesCollected, Assets) + Total(feeUsers, Users)

StellarLog ==
  /\ FeeLog \in Seq([id : Nat, payer : Users, gross : Int, fee : Int])
  /\ \A i \in DOMAIN FeeLog : FeeLog[i].id = i

StellarFeeInv == StellarSettings /\ StellarBooks /\ StellarLog

LEMMA OfIsTotal ==
  ASSUME NEW c, NEW I
  PROVE  StellarFee!Of(c, I) = Total(FeeOf(c), I)
BY DEF StellarFee!Of, StellarFee!FoldFunctionOnSet, StellarFee!MapThenFoldSet, FeeOf,
       Total, IsTotal, Choice

LEMMA BookIsTotal ==
  ASSUME NEW f
  PROVE  StellarFee!FoldFunction(+, 0, f) = Total(f, DOMAIN f)
BY DEF StellarFee!FoldFunction, StellarFee!FoldFunctionOnSet, StellarFee!MapThenFoldSet,
       Total, IsTotal, Choice

LEMMA ChargesByKey ==
  ASSUME NEW c
  PROVE  /\ \A u : StellarFee!OfPayer(c, u) = Keyed(DOMAIN c, PayerOf(c), u)
         /\ \A a : StellarFee!OfAsset(c, a) = Keyed(DOMAIN c, AssetOf(c), a)
         /\ \A u, a : StellarFee!OfPayer(c, u) \cap StellarFee!OfAsset(c, a)
                        = Keyed(StellarFee!OfAsset(c, a), PayerOf(c), u)
BY DEF StellarFee!OfPayer, StellarFee!OfAsset, Keyed, PayerOf, AssetOf

\* The fees of any of the charges have no sign.
LEMMA SomeCharges ==
  ASSUME NEW c, AreCharges(c), NEW I \in SUBSET DOMAIN c
  PROVE  IsFiniteSet(I) /\ StellarFee!Of(c, I) \in Nat
<1>1. IsFiniteSet(I)
  BY FS_Subset DEF AreCharges
<1>2. \A x \in I : FeeOf(c)[x] \in Nat
  BY DEF AreCharges, FeeOf
<1>3. Total(FeeOf(c), I) \in Nat
  BY <1>1, <1>2, TotalNat
<1> QED
  BY <1>1, <1>3, OfIsTotal

LEMMA TotalBooked ==
  ASSUME StellarBooks, NEW c, AreCharges(c), StellarFee!AddToTotal(c)
  PROVE  /\ StellarFee!FeeSum(c) \in Nat /\ feeTotal' \in Nat
         /\ feeTotal' = feeTotal + StellarFee!FeeSum(c)
<1>1. StellarFee!FeeSum(c) \in Nat
  BY SomeCharges DEF StellarFee!FeeSum
<1> QED
  BY <1>1 DEF StellarFee!AddToTotal, StellarBooks

\* Adding each payer's charges to its account adds all of them to the accounts.
LEMMA UsersBooked ==
  ASSUME StellarFee!StellarFeeAssumption, StellarBooks, NEW c, AreCharges(c),
         StellarFee!AddToUsers(c)
  PROVE  /\ feeUsers' \in [Users -> Nat]
         /\ Total(feeUsers', Users) = Total(feeUsers, Users) + StellarFee!FeeSum(c)
<1>1. \A u \in Users : StellarFee!Of(c, StellarFee!OfPayer(c, u)) \in Nat
  BY SomeCharges DEF StellarFee!OfPayer
<1>2. /\ \A x \in DOMAIN c : FeeOf(c)[x] \in Int
      /\ \A x \in DOMAIN c : PayerOf(c)[x] \in Users
      /\ \A u \in Users : feeUsers[u] \in Int
  BY DEF AreCharges, FeeOf, PayerOf, StellarBooks
<1>3. IsFiniteSet(DOMAIN c) /\ IsFiniteSet(Users)
  BY StellarConstants DEF AreCharges
<1>4. \A u \in Users :
        feeUsers'[u] = feeUsers[u] + Total(FeeOf(c), Keyed(DOMAIN c, PayerOf(c), u))
  BY OfIsTotal, ChargesByKey DEF StellarFee!AddToUsers
<1>5. Total(feeUsers', Users) = Total(feeUsers, Users) + Total(FeeOf(c), DOMAIN c)
  BY <1>2, <1>3, <1>4, TotalAddedByKey
<1>6. feeUsers' \in [Users -> Nat]
  BY <1>1 DEF StellarFee!AddToUsers, StellarBooks
<1> QED
  BY <1>5, <1>6, OfIsTotal DEF StellarFee!FeeSum

LEMMA AssetsBooked ==
  ASSUME StellarFee!StellarFeeAssumption, StellarBooks, NEW c, AreCharges(c), HaveAssets(c),
         StellarFee!AddToAssets(c)
  PROVE  /\ AssetFeesCollected' \in [Assets -> Nat]
         /\ Total(AssetFeesCollected', Assets)
              = Total(AssetFeesCollected, Assets) + StellarFee!FeeSum(c)
<1>1. \A a \in Assets : StellarFee!Of(c, StellarFee!OfAsset(c, a)) \in Nat
  BY SomeCharges DEF StellarFee!OfAsset
<1>2. /\ \A x \in DOMAIN c : FeeOf(c)[x] \in Int
      /\ \A x \in DOMAIN c : AssetOf(c)[x] \in Assets
      /\ \A a \in Assets : AssetFeesCollected[a] \in Int
  BY DEF AreCharges, HaveAssets, FeeOf, AssetOf, StellarBooks
<1>3. IsFiniteSet(DOMAIN c) /\ IsFiniteSet(Assets)
  BY StellarConstants DEF AreCharges
<1>4. \A a \in Assets : AssetFeesCollected'[a]
                          = AssetFeesCollected[a] + Total(FeeOf(c), Keyed(DOMAIN c, AssetOf(c), a))
  BY OfIsTotal, ChargesByKey DEF StellarFee!AddToAssets
<1>5. Total(AssetFeesCollected', Assets)
        = Total(AssetFeesCollected, Assets) + Total(FeeOf(c), DOMAIN c)
  BY <1>2, <1>3, <1>4, TotalAddedByKey
<1>6. AssetFeesCollected' \in [Assets -> Nat]
  BY <1>1 DEF StellarFee!AddToAssets, StellarBooks
<1> QED
  BY <1>5, <1>6, OfIsTotal DEF StellarFee!FeeSum

\* An asset's account stays the sum of its users' accounts.
LEMMA UserAssetsBooked ==
  ASSUME StellarFee!StellarFeeAssumption, StellarBooks, NEW c, AreCharges(c),
         StellarFee!AddToAssets(c), StellarFee!AddToUserAssets(c)
  PROVE  /\ UserAssetFeesAccrued' \in [Users -> [Assets -> Nat]]
         /\ \A a \in Assets :
              AssetFeesCollected'[a] = Total(UserAssetFees(UserAssetFeesAccrued', a), Users)
<1>1. \A u \in Users, a \in Assets :
        StellarFee!Of(c, StellarFee!OfPayer(c, u) \cap StellarFee!OfAsset(c, a)) \in Nat
  <2> TAKE u \in Users, a \in Assets
  <2>1. StellarFee!OfPayer(c, u) \cap StellarFee!OfAsset(c, a) \in SUBSET DOMAIN c
    BY DEF StellarFee!OfPayer
  <2> QED
    BY <2>1, SomeCharges
<1>2. UserAssetFeesAccrued' \in [Users -> [Assets -> Nat]]
  BY <1>1 DEF StellarFee!AddToUserAssets, StellarBooks
<1>3. ASSUME NEW a \in Assets
      PROVE  AssetFeesCollected'[a] = Total(UserAssetFees(UserAssetFeesAccrued', a), Users)
  <2> DEFINE I == StellarFee!OfAsset(c, a)
             old == UserAssetFees(UserAssetFeesAccrued, a)
             new == UserAssetFees(UserAssetFeesAccrued', a)
  <2>1. I \in SUBSET DOMAIN c
    BY DEF StellarFee!OfAsset
  <2>2. IsFiniteSet(I) /\ IsFiniteSet(Users)
    BY <2>1, SomeCharges, StellarConstants
  <2>3. /\ \A x \in I : FeeOf(c)[x] \in Int
        /\ \A x \in I : PayerOf(c)[x] \in Users
        /\ \A u \in Users : old[u] \in Int
    BY <2>1 DEF AreCharges, FeeOf, PayerOf, StellarBooks, UserAssetFees
  <2>4. \A u \in Users : new[u] = old[u] + Total(FeeOf(c), Keyed(I, PayerOf(c), u))
    BY OfIsTotal, ChargesByKey DEF StellarFee!AddToUserAssets, UserAssetFees
  <2> HIDE DEF I, old, new
  <2>5. Total(new, Users) = Total(old, Users) + Total(FeeOf(c), I)
    BY <2>2, <2>3, <2>4, TotalAddedByKey
  <2>6. AssetFeesCollected[a] = Total(old, Users)
    BY DEF StellarBooks, old
  <2>7. AssetFeesCollected'[a] = AssetFeesCollected[a] + Total(FeeOf(c), I)
    BY OfIsTotal DEF StellarFee!AddToAssets, I
  <2> QED
    BY <2>5, <2>6, <2>7 DEF new
<1> QED
  BY <1>2, <1>3

\* The payments that are charged are charges, and something is charged only once
\* the contract is initialized.
LEMMA OneCharge ==
  ASSUME NEW u \in Users, NEW a, NEW fee \in Nat
  PROVE  LET c == <<[payer |-> u, asset |-> a, fee |-> fee]>>
         IN  AreCharges(c) /\ (a \in Assets => HaveAssets(c))
<1> DEFINE c == <<[payer |-> u, asset |-> a, fee |-> fee]>>
<1>1. DOMAIN c = 1..1 /\ \A i \in DOMAIN c : c[i] = [payer |-> u, asset |-> a, fee |-> fee]
  OBVIOUS
<1>2. IsFiniteSet(1..1)
  <2>1. 1..1 = {1}
    OBVIOUS
  <2> QED
    BY <2>1, FS_Singleton
<1> HIDE DEF c
<1>3. \A i \in DOMAIN c : c[i].payer = u /\ c[i].asset = a /\ c[i].fee = fee
  BY <1>1
<1>4. AreCharges(c) /\ (a \in Assets => HaveAssets(c))
  BY <1>1, <1>2, <1>3 DEF AreCharges, HaveAssets
<1> QED
  BY <1>4 DEF c

\* A charge to users only, to assets only, or to both keeps the books.
LEMMA ChargedToUsers ==
  ASSUME StellarFee!StellarFeeAssumption, StellarBooks, NEW c, AreCharges(c),
         StellarFee!AddToTotal(c), StellarFee!AddToUsers(c),
         UNCHANGED <<AssetFeesCollected, UserAssetFeesAccrued>>
  PROVE  StellarBooks'
<1>1. /\ StellarFee!FeeSum(c) \in Nat /\ feeTotal' \in Nat
      /\ feeTotal' = feeTotal + StellarFee!FeeSum(c)
  BY TotalBooked
<1>2. /\ feeUsers' \in [Users -> Nat]
      /\ Total(feeUsers', Users) = Total(feeUsers, Users) + StellarFee!FeeSum(c)
  BY UsersBooked
<1>3. Total(feeUsers, Users) \in Int /\ Total(AssetFeesCollected, Assets) \in Int
  BY StellarConstants, TotalType DEF StellarBooks
<1> QED
  BY <1>1, <1>2, <1>3 DEF StellarBooks

LEMMA ChargedToAssets ==
  ASSUME StellarFee!StellarFeeAssumption, StellarBooks, NEW c, AreCharges(c), HaveAssets(c),
         StellarFee!AddToTotal(c), StellarFee!AddToAssets(c), StellarFee!AddToUserAssets(c),
         UNCHANGED feeUsers \/ StellarFee!AddToUsers(c)
  PROVE  StellarBooks'
<1>1. /\ StellarFee!FeeSum(c) \in Nat /\ feeTotal' \in Nat
      /\ feeTotal' = feeTotal + StellarFee!FeeSum(c)
  BY TotalBooked
<1>2. /\ feeUsers' \in [Users -> Nat]
      /\ \/ Total(feeUsers', Users) = Total(feeUsers, Users) + StellarFee!FeeSum(c)
         \/ Total(feeUsers', Users) = Total(feeUsers, Users)
  BY UsersBooked DEF StellarBooks
<1>3. /\ AssetFeesCollected' \in [Assets -> Nat]
      /\ Total(AssetFeesCollected', Assets)
           = Total(AssetFeesCollected, Assets) + StellarFee!FeeSum(c)
  BY AssetsBooked
<1>4. /\ UserAssetFeesAccrued' \in [Users -> [Assets -> Nat]]
      /\ \A a \in Assets :
           AssetFeesCollected'[a] = Total(UserAssetFees(UserAssetFeesAccrued', a), Users)
  BY UserAssetsBooked
<1>5. Total(feeUsers, Users) \in Int /\ Total(AssetFeesCollected, Assets) \in Int
  BY StellarConstants, TotalType DEF StellarBooks
<1> QED
  BY <1>1, <1>2, <1>3, <1>4, <1>5 DEF StellarBooks

\* The invariant gives what the runs check.
LEMMA StellarFeeParts ==
  ASSUME StellarFee!StellarFeeAssumption, StellarFeeInv
  PROVE  StellarFee!TypeOK /\ StellarFee!BooksAgree /\ StellarFee!FallbackLeavesNet
<1>1. StellarFee!TypeOK
  BY DEF StellarFeeInv, StellarSettings, StellarBooks, StellarLog, StellarFee!TypeOK, StellarRates
<1>2. StellarFee!BooksAgree
  <2>1. /\ DOMAIN AssetFeesCollected = Assets /\ DOMAIN feeUsers = Users
        /\ \A a : DOMAIN UserAssetFees(UserAssetFeesAccrued, a) = Users
    BY DEF StellarFeeInv, StellarBooks, UserAssetFees
  <2>2. /\ StellarFee!FoldFunction(+, 0, AssetFeesCollected) = Total(AssetFeesCollected, Assets)
        /\ StellarFee!FoldFunction(+, 0, feeUsers) = Total(feeUsers, Users)
        /\ \A a : StellarFee!FoldFunction(+, 0, UserAssetFees(UserAssetFeesAccrued, a))
                    = Total(UserAssetFees(UserAssetFeesAccrued, a), Users)
    BY <2>1, BookIsTotal
  <2> QED
    BY <2>2 DEF StellarFee!BooksAgree, StellarFeeInv, StellarBooks, UserAssetFees
<1>3. StellarFee!FallbackLeavesNet
  BY FallbackHolds DEF StellarFeeInv
<1> QED
  BY <1>1, <1>2, <1>3

LEMMA StellarFeeStart ==
  ASSUME StellarFee!StellarFeeAssumption, StellarFee!Init
  PROVE  StellarFeeInv
<1>1. StellarSettings
  BY DEF StellarSettings, StellarFee!Init, StellarFee!StellarFeeAssumption
<1>2. StellarLog
  BY DEF StellarLog, StellarFee!Init
<1>3. Total(feeUsers, Users) = 0 /\ Total(AssetFeesCollected, Assets) = 0
  BY StellarConstants, TotalOfZeros DEF StellarFee!Init
<1>4. \A a \in Assets : Total(UserAssetFees(UserAssetFeesAccrued, a), Users) = 0
  BY StellarConstants, TotalOfZeros DEF StellarFee!Init, UserAssetFees
<1>5. StellarBooks
  BY <1>3, <1>4 DEF StellarBooks, StellarFee!Init
<1> QED
  BY <1>1, <1>2, <1>5 DEF StellarFeeInv

LEMMA SameSettings ==
  ASSUME StellarSettings, UNCHANGED StellarFee!config, feeTotal' = feeTotal \/ Admin # Unset
  PROVE  StellarSettings'
BY DEF StellarSettings, StellarFee!config, StellarFee!Ascending, StellarFee!ValidBounds

\* The settings are written whole, and only by the administrator.
LEMMA StellarArguments ==
  ASSUME StellarFee!StellarFeeAssumption
  PROVE  /\ Rates \subseteq Nat /\ Multipliers \subseteq [Priorities -> Nat]
         /\ Bounds \subseteq StellarBounds /\ DefaultMultipliers \in [Priorities -> Nat]
         /\ StellarFee!Ascending(DefaultMultipliers) /\ PaymentAmounts \subseteq Int
BY DEF StellarFee!StellarFeeAssumption, StellarBounds

LEMMA AssetSettings ==
  ASSUME NEW n \in Nat, NEW l \in Int, NEW h \in Int
  PROVE  [rate |-> n, min |-> l, max |-> h] \in StellarAsset
BY DEF StellarAsset

LEMMA SettingsWritten ==
  ASSUME StellarFeeInv, StellarSettings', UNCHANGED <<feeTotal, feeUsers, AssetFeesCollected,
         UserAssetFeesAccrued, FeeLog>>
  PROVE  StellarFeeInv'
BY DEF StellarFeeInv, StellarBooks, StellarLog, UserAssetFees

LEMMA StellarSettingsStep ==
  ASSUME StellarFee!StellarFeeAssumption, StellarFeeInv,
         \/ \E u \in Users, r \in Rates :
              StellarFee!Initialize(u, r) \/ StellarFee!SetFeeRate(u, r)
         \/ \E u \in Users, ms \in Multipliers : StellarFee!SetPriorityMultipliers(u, ms)
         \/ \E u \in Users, b \in Bounds : StellarFee!SetFeeBounds(u, b)
         \/ \E u \in Users, a \in Assets, r \in Rates, b \in Bounds :
              StellarFee!SetAssetFeeConfig(u, a, r, b)
  PROVE  StellarFeeInv'
<1>1. ASSUME NEW u \in Users, NEW r \in Rates, StellarFee!Initialize(u, r)
      PROVE  StellarFeeInv'
  <2>1. /\ Admin = Unset /\ Admin' = u /\ PriorityFeeConfig' = DefaultMultipliers
        /\ FeeConfig' = [rate |-> r, priority |-> DefaultMultipliers] /\ feeTotal' = 0
        /\ UNCHANGED <<FeeBounds, AssetFeeConfig, feeUsers, AssetFeesCollected,
                       UserAssetFeesAccrued, FeeLog>>
        /\ r <= 10000
    BY <1>1, StellarConstants DEF StellarFee!Initialize
  <2>2. FeeConfig' \in StellarRates
    BY <2>1, StellarArguments DEF StellarRates
  <2>3. StellarSettings' /\ UNCHANGED feeTotal
    BY <2>1, <2>2, StellarConstants, StellarArguments
       DEF StellarFeeInv, StellarSettings, StellarFee!Ascending,
                      StellarFee!ValidBounds
  <2> QED
    BY <2>1, <2>3, SettingsWritten
<1>2. ASSUME NEW u \in Users, NEW r \in Rates, StellarFee!SetFeeRate(u, r)
      PROVE  StellarFeeInv'
  <2>1. /\ Admin # Unset /\ FeeConfig \in StellarRates
        /\ FeeConfig' = [FeeConfig EXCEPT !.rate = r] /\ r <= 10000
        /\ UNCHANGED <<Admin, PriorityFeeConfig, FeeBounds, AssetFeeConfig, StellarFee!books, FeeLog>>
    BY <1>2, StellarConstants DEF StellarFee!SetFeeRate, StellarFee!RequireAdmin, StellarFeeInv, StellarSettings
  <2>2. /\ FeeConfig' \in StellarRates /\ FeeConfig'.rate = r
        /\ FeeConfig'.priority = FeeConfig.priority
    BY <2>1, StellarArguments DEF StellarRates
  <2>3. StellarSettings'
    BY <2>1, <2>2, StellarConstants, StellarArguments
       DEF StellarFeeInv, StellarSettings, StellarFee!Ascending,
                      StellarFee!ValidBounds
  <2> QED
    BY <2>1, <2>3, SettingsWritten DEF StellarFee!books
<1>3. ASSUME NEW u \in Users, NEW ms \in Multipliers, StellarFee!SetPriorityMultipliers(u, ms)
      PROVE  StellarFeeInv'
  <2>1. /\ Admin # Unset /\ FeeConfig \in StellarRates
        /\ FeeConfig' = [FeeConfig EXCEPT !.priority = ms] /\ PriorityFeeConfig' = ms
        /\ StellarFee!Ascending(ms)
        /\ UNCHANGED <<Admin, FeeBounds, AssetFeeConfig, StellarFee!books, FeeLog>>
    BY <1>3 DEF StellarFee!SetPriorityMultipliers, StellarFee!RequireAdmin, StellarFeeInv,
                StellarSettings
  <2>2. /\ FeeConfig' \in StellarRates /\ FeeConfig'.rate = FeeConfig.rate
        /\ FeeConfig'.priority = ms
    BY <2>1, StellarArguments DEF StellarRates
  <2>3. StellarSettings'
    BY <2>1, <2>2, StellarConstants, StellarArguments
       DEF StellarFeeInv, StellarSettings, StellarFee!Ascending,
                      StellarFee!ValidBounds
  <2> QED
    BY <2>1, <2>3, SettingsWritten DEF StellarFee!books
<1>4. ASSUME NEW u \in Users, NEW b \in Bounds, StellarFee!SetFeeBounds(u, b)
      PROVE  StellarFeeInv'
  <2>1. /\ Admin # Unset /\ FeeBounds' = b /\ StellarFee!ValidBounds(b)
        /\ UNCHANGED <<Admin, FeeConfig, PriorityFeeConfig, AssetFeeConfig, StellarFee!books, FeeLog>>
    BY <1>4 DEF StellarFee!SetFeeBounds, StellarFee!RequireAdmin
  <2>3. StellarSettings'
    BY <2>1, StellarConstants, StellarArguments
       DEF StellarFeeInv, StellarSettings, StellarFee!Ascending, StellarFee!ValidBounds
  <2> QED
    BY <2>1, <2>3, SettingsWritten DEF StellarFee!books
<1>5. ASSUME NEW u \in Users, NEW a \in Assets, NEW r \in Rates, NEW b \in Bounds,
             StellarFee!SetAssetFeeConfig(u, a, r, b)
      PROVE  StellarFeeInv'
  <2>1. /\ Admin # Unset /\ StellarFee!ValidBounds(b)
        /\ AssetFeeConfig' = [AssetFeeConfig EXCEPT ![a] =
                                [rate |-> r, min |-> b.min, max |-> b.max]]
        /\ UNCHANGED <<Admin, FeeConfig, PriorityFeeConfig, FeeBounds, StellarFee!books, FeeLog>>
    BY <1>5 DEF StellarFee!SetAssetFeeConfig, StellarFee!RequireAdmin
  <2>2. PICK n \in Nat, l \in Int, h \in Int : n = r /\ l = b.min /\ h = b.max
    BY StellarArguments DEF StellarBounds
  <2>3. PICK c \in StellarAsset : c = [rate |-> n, min |-> l, max |-> h]
    BY AssetSettings
  <2>4. StellarFee!ValidBounds(c) /\ AssetFeeConfig' = [AssetFeeConfig EXCEPT ![a] = c]
    BY <2>1, <2>2, <2>3 DEF StellarFee!ValidBounds
  <2>5. StellarSettings'
    BY <2>1, <2>4, StellarConstants, StellarArguments
       DEF StellarFeeInv, StellarSettings, StellarFee!Ascending,
                      StellarFee!ValidBounds
  <2> QED
    BY <2>1, <2>5, SettingsWritten DEF StellarFee!books
<1> QED
  BY <1>1, <1>2, <1>3, <1>4, <1>5

\* What is left of an operation once its fee is known.
LEMMA Charged ==
  ASSUME StellarFee!StellarFeeAssumption, StellarFeeInv, Admin # Unset,
         UNCHANGED <<StellarFee!config, FeeLog>>, StellarBooks'
  PROVE  StellarFeeInv'
<1>1. StellarSettings'
  BY SameSettings DEF StellarFeeInv
<1>2. StellarLog'
  BY DEF StellarFeeInv, StellarLog
<1> QED
  BY <1>1, <1>2 DEF StellarFeeInv

LEMMA StellarChargeStep ==
  ASSUME StellarFee!StellarFeeAssumption, StellarFeeInv,
         NEW u \in Users, NEW n \in PaymentAmounts, NEW p \in Priorities,
         \/ StellarFee!DeductFeeWithPriority(u, n, p)
         \/ StellarFee!DeductFeeWithFallback(u, n, p)
         \/ \E a \in Assets : \/ StellarFee!DeductAssetFee(u, a, n, p)
                              \/ StellarFee!DeductAssetFeeWithFallback(u, a, n, p)
  PROVE  StellarFeeInv'
<1>1. StellarFee!CanCharge(n)
  BY DEF StellarFee!DeductFeeWithPriority, StellarFee!DeductFeeWithFallback,
         StellarFee!DeductAssetFee, StellarFee!DeductAssetFeeWithFallback
<1>2. /\ Admin # Unset /\ FeeConfig # Unset /\ n \in Nat \ {0}
      /\ StellarSettings /\ StellarBooks
  BY <1>1 DEF StellarFee!CanCharge, StellarFeeInv, StellarSettings,
              StellarFee!StellarFeeAssumption
<1>3. ASSUME NEW fee \in Nat, StellarFee!DeductFee(u, fee)
      PROVE  StellarFeeInv'
  <2>1. PICK c : /\ c = <<[payer |-> u, asset |-> Unset, fee |-> fee]>>
                 /\ AreCharges(c)
    BY OneCharge
  <2>2. /\ StellarFee!AddToTotal(c) /\ StellarFee!AddToUsers(c)
        /\ UNCHANGED <<StellarFee!config, AssetFeesCollected, UserAssetFeesAccrued, FeeLog>>
    BY <1>3, <2>1 DEF StellarFee!DeductFee
  <2>3. StellarBooks'
    BY <1>2, <2>1, <2>2, ChargedToUsers
  <2> QED
    BY <1>2, <2>2, <2>3, Charged
<1>4. ASSUME NEW fee \in Nat, NEW a \in Assets, StellarFee!DeductFeeOfAsset(u, a, fee)
      PROVE  StellarFeeInv'
  <2>1. PICK c : /\ c = <<[payer |-> u, asset |-> a, fee |-> fee]>>
                 /\ AreCharges(c) /\ HaveAssets(c)
    BY OneCharge
  <2>2. /\ StellarFee!AddToTotal(c) /\ StellarFee!AddToAssets(c)
        /\ StellarFee!AddToUserAssets(c)
        /\ UNCHANGED <<StellarFee!config, feeUsers, FeeLog>>
    BY <1>4, <2>1 DEF StellarFee!DeductFeeOfAsset
  <2>3. StellarBooks'
    BY <1>2, <2>1, <2>2, ChargedToAssets
  <2> QED
    BY <1>2, <2>2, <2>3, Charged
<1>5. /\ StellarFee!WithinBounds(StellarFee!DefaultFee(n, p)) \in Nat
      /\ StellarFee!FallbackFee(n, p) \in Nat
  BY <1>2, FallbackFeeFacts
<1>6. \A a \in Assets : StellarFee!FeeFor(a, n, p) \in Nat
                        /\ StellarFee!AssetFallbackFee(a, n, p) \in Nat
  BY <1>2, AssetFeeFacts
<1>7. CASE StellarFee!DeductFeeWithPriority(u, n, p)
  BY <1>3, <1>5, <1>7 DEF StellarFee!DeductFeeWithPriority
<1>8. CASE StellarFee!DeductFeeWithFallback(u, n, p)
  BY <1>3, <1>5, <1>8 DEF StellarFee!DeductFeeWithFallback
<1>9. ASSUME NEW a \in Assets, \/ StellarFee!DeductAssetFee(u, a, n, p)
                               \/ StellarFee!DeductAssetFeeWithFallback(u, a, n, p)
      PROVE  StellarFeeInv'
  BY <1>4, <1>6, <1>9 DEF StellarFee!DeductAssetFee, StellarFee!DeductAssetFeeWithFallback
<1> QED
  BY <1>7, <1>8, <1>9

LEMMA StellarBatchStep ==
  ASSUME StellarFee!StellarFeeAssumption, StellarFeeInv, NEW batch \in Batches,
         StellarFee!DeductBatchFees(batch)
  PROVE  StellarFeeInv'
<1> DEFINE c == [i \in DOMAIN batch |->
                   [payer |-> batch[i].payer, asset |-> batch[i].asset,
                    fee |-> StellarFee!FeeFor(batch[i].asset, batch[i].amount, batch[i].priority)]]
<1>1. /\ Admin # Unset /\ FeeConfig # Unset /\ StellarSettings /\ StellarBooks
  BY DEF StellarFee!DeductBatchFees, StellarFeeInv, StellarSettings
<1>2. batch \in Seq([payer : Users, asset : Assets, amount : Int, priority : Priorities])
  BY DEF StellarFee!StellarFeeAssumption
<1>3. \A i \in DOMAIN batch : /\ batch[i].payer \in Users /\ batch[i].asset \in Assets
                              /\ batch[i].amount \in Nat /\ batch[i].priority \in Priorities
  <2>1. \A i \in DOMAIN batch : batch[i].amount > 0
    BY DEF StellarFee!DeductBatchFees
  <2>2. \A i \in DOMAIN batch :
          batch[i] \in [payer : Users, asset : Assets, amount : Int, priority : Priorities]
    <3> DEFINE R == [payer : Users, asset : Assets, amount : Int, priority : Priorities]
    <3> SUFFICES ASSUME batch \in Seq(R)
                 PROVE  \A i \in DOMAIN batch : batch[i] \in R
      BY <1>2
    <3> HIDE DEF R, c
    <3> QED
      BY ElementOfSeq
  <2>3. \A i \in DOMAIN batch :
          /\ batch[i].payer \in Users /\ batch[i].asset \in Assets
          /\ batch[i].amount \in Int /\ batch[i].priority \in Priorities
    BY <2>2
  <2> QED
    BY <2>1, <2>3
<1>4. \A i \in DOMAIN batch :
        StellarFee!FeeFor(batch[i].asset, batch[i].amount, batch[i].priority) \in Nat
  BY <1>1, <1>3, AssetFeeFacts
<1>5. IsFiniteSet(DOMAIN c)
  <2>1. Len(batch) \in Nat /\ DOMAIN c = 1..Len(batch)
    BY <1>2
  <2> QED
    BY <2>1, FS_Interval
<1>6. /\ StellarFee!AddToTotal(c) /\ StellarFee!AddToUsers(c)
      /\ StellarFee!AddToAssets(c) /\ StellarFee!AddToUserAssets(c)
      /\ UNCHANGED <<StellarFee!config, FeeLog>>
  BY DEF StellarFee!DeductBatchFees
<1>7. AreCharges(c) /\ HaveAssets(c)
  BY <1>3, <1>4, <1>5 DEF AreCharges, HaveAssets
<1> HIDE DEF c
<1>8. StellarBooks'
  BY <1>1, <1>6, <1>7, ChargedToAssets
<1> QED
  BY <1>1, <1>6, <1>8, Charged

LEMMA StellarFeeStep ==
  ASSUME StellarFee!StellarFeeAssumption, StellarFeeInv, StellarFee!Next
  PROVE  StellarFeeInv'
<1>1. ASSUME NEW u \in Users, NEW n \in PaymentAmounts, StellarFee!RecordFeeRefund(u, n, n)
      PROVE  StellarFeeInv'
  <2>1. /\ UNCHANGED <<StellarFee!config, StellarFee!books>>
        /\ FeeLog' = Append(FeeLog, [id |-> Len(FeeLog) + 1, payer |-> u,
                                     gross |-> n, fee |-> n])
    BY <1>1 DEF StellarFee!RecordFeeRefund
  <2>2. StellarLog'
    <3>1. PICK k \in Nat, m \in Int : k = Len(FeeLog) + 1 /\ m = n
      BY StellarArguments DEF StellarFeeInv, StellarLog
    <3>2. PICK e \in [id : Nat, payer : Users, gross : Int, fee : Int] :
            e = [id |-> k, payer |-> u, gross |-> m, fee |-> m]
      OBVIOUS
    <3>3. e.id = Len(FeeLog) + 1 /\ FeeLog' = Append(FeeLog, e)
      BY <2>1, <3>1, <3>2
    <3> QED
      BY <3>3 DEF StellarFeeInv, StellarLog
  <2>3. StellarSettings' /\ StellarBooks'
    BY <2>1, SameSettings DEF StellarFee!books, StellarFeeInv, StellarBooks, UserAssetFees
  <2> QED
    BY <2>2, <2>3 DEF StellarFeeInv
<1> QED
  BY <1>1, StellarSettingsStep, StellarChargeStep, StellarBatchStep DEF StellarFee!Next

------------------------------------------------------------------------------
\* Verified wallets, links, profiles and delegations.

LinkRecord == [owner : Users, is_verified : BOOLEAN, nonce : 0..MaxNonce]
ChallengeRecord == [expires_at : Nat, is_completed : BOOLEAN]
DelegationRecord == [limit : Int, spent : Int]
GrantRecord == [used : Int, highest : Int]

VerifiedInv ==
  /\ walletAdmin \in Users \cup {Unset}
  /\ LinkedWallet \in [DOMAIN LinkedWallet -> LinkRecord]
  /\ DOMAIN LinkedWallet \subseteq WalletAddresses /\ DOMAIN WalletOwner \subseteq Users
  /\ VerificationStatus = {w \in DOMAIN LinkedWallet : LinkedWallet[w].is_verified}
  /\ VerificationChallenge \in [DOMAIN VerificationChallenge -> ChallengeRecord]
  /\ DOMAIN VerificationChallenge \subseteq WalletAddresses \X (0..sequence)
  /\ sequence \in Nat /\ walletTime \in Nat
  /\ DOMAIN prover = VerificationStatus
  /\ \A w \in VerificationStatus : prover[w] \in {LinkedWallet[w].owner, Unset}

LinksInv ==
  /\ linkOwner \in [DOMAIN linkOwner -> Users] /\ DOMAIN linkOwner \subseteq WalletAddresses
  /\ UserWallets \in [Users -> Seq(WalletAddresses)]
  /\ Wallets!LinksAgree

ProfilesInv ==
  profileAdmin \in Users \cup {Unset} /\ DOMAIN Profile \subseteq Users /\ TotalProfiles \in Nat

\* A delegation's own count is what its grants were used for, and its limit is
\* no more than the highest of them.
DelegationsInv ==
  /\ delegated \in [DOMAIN delegated -> DelegationRecord]
  /\ granted \in [DOMAIN granted -> GrantRecord] /\ DOMAIN granted = DOMAIN delegated
  /\ \A k \in DOMAIN delegated : /\ k[1] # k[2] /\ delegated[k].limit > 0
                                 /\ delegated[k].spent \in 0..I128_MAX
                                 /\ granted[k].used = delegated[k].spent
                                 /\ granted[k].used <= granted[k].highest
                                 /\ delegated[k].limit <= granted[k].highest

WalletsInv == VerifiedInv /\ LinksInv /\ ProfilesInv /\ DelegationsInv

LEMMA WalletsConstants ==
  /\ Unset \notin Users /\ DelegationLimits \subseteq Int /\ DelegatedAmounts \subseteq Int
  /\ I128_MAX \in Nat /\ EXPIRY \in Nat /\ CloseTimes \subseteq Nat
  /\ MaxNonce \in Nat /\ WalletsMaxTime \in Nat
BY ControlsAssumption DEF Wallets!WalletsAssumption

LEMMA WalletsParts ==
  ASSUME WalletsInv
  PROVE  /\ Wallets!TypeOK /\ Wallets!StatusAgrees /\ Wallets!LinksAgree
         /\ Wallets!VerifiedForItsOwner /\ Wallets!WithinGrants
<1>1. VerifiedInv /\ LinksInv /\ ProfilesInv /\ DelegationsInv
  BY DEF WalletsInv
<1>2. \A w \in DOMAIN LinkedWallet :
        LinkedWallet[w].owner \in Users /\ LinkedWallet[w].nonce \in 0..MaxNonce
  BY <1>1 DEF VerifiedInv, LinkRecord
<1>3. Wallets!TypeOK
  BY <1>1, <1>2 DEF VerifiedInv, ProfilesInv, DelegationsInv, Wallets!TypeOK, Wallets!Linked
<1>4. Wallets!StatusAgrees
  BY <1>1 DEF VerifiedInv, Wallets!StatusAgrees, Wallets!MayAct, Wallets!Linked
<1>5. Wallets!VerifiedForItsOwner /\ Wallets!WithinGrants
  BY <1>1 DEF VerifiedInv, DelegationsInv, Wallets!VerifiedForItsOwner, Wallets!WithinGrants,
              Wallets!Linked
<1> QED
  BY <1>1, <1>3, <1>4, <1>5 DEF LinksInv

LEMMA WalletsStart ==
  ASSUME Wallets!Init
  PROVE  WalletsInv
<1>1. PICK empty : empty = << >> /\ DOMAIN empty = {}
  OBVIOUS
<1>2. \A S : empty \in [DOMAIN empty -> S]
  BY <1>1
<1>3. VerifiedInv
  BY <1>1, <1>2 DEF Wallets!Init, VerifiedInv
<1>4. LinksInv
  <2>1. UserWallets \in [Users -> Seq(WalletAddresses)]
    BY DEF Wallets!Init
  <2>2. Wallets!LinksAgree
    BY <1>1 DEF Wallets!Init, Wallets!LinksAgree
  <2> QED
    BY <1>1, <1>2, <2>1, <2>2 DEF Wallets!Init, LinksInv
<1>5. ProfilesInv
  BY <1>1 DEF Wallets!Init, ProfilesInv
<1>6. DelegationsInv
  BY <1>1, <1>2 DEF Wallets!Init, DelegationsInv
<1> QED
  BY <1>3, <1>4, <1>5, <1>6 DEF WalletsInv

\* A link stored anew, and one taken away.
LEMMA LinkStep ==
  ASSUME VerifiedInv, NEW c \in Users, NEW w \in WalletAddresses, NEW o \in Users,
         Wallets!LinkWallet(c, w, o)
  PROVE  VerifiedInv'
<1>1. PICK v : v = [owner |-> o, is_verified |-> FALSE, nonce |-> 0]
  OBVIOUS
<1>2. v \in LinkRecord /\ v.is_verified = FALSE
  BY <1>1, WalletsConstants DEF LinkRecord
<1>3. /\ w \notin DOMAIN LinkedWallet /\ LinkedWallet' = Wallets!Stored(LinkedWallet, w, v)
      /\ WalletOwner' = Wallets!Stored(WalletOwner, o, w)
      /\ UNCHANGED <<walletAdmin, VerificationStatus, VerificationChallenge, prover,
                     sequence, walletTime>>
  BY <1>1 DEF Wallets!LinkWallet, Wallets!Linked, Wallets!clock
<1>4. /\ LinkedWallet' \in [DOMAIN LinkedWallet' -> LinkRecord]
      /\ DOMAIN LinkedWallet' = DOMAIN LinkedWallet \cup {w} /\ LinkedWallet'[w] = v
      /\ \A x \in DOMAIN LinkedWallet : LinkedWallet'[x] = LinkedWallet[x]
  BY <1>2, <1>3 DEF Wallets!Stored, VerifiedInv
<1>5. DOMAIN WalletOwner' \subseteq Users
  BY <1>3 DEF Wallets!Stored, VerifiedInv
<1>6. VerificationStatus' = {x \in DOMAIN LinkedWallet' : LinkedWallet'[x].is_verified}
  BY <1>2, <1>3, <1>4 DEF VerifiedInv
<1> QED
  BY <1>3, <1>4, <1>5, <1>6 DEF VerifiedInv

LEMMA UnlinkStep ==
  ASSUME VerifiedInv, NEW c \in Users, NEW w \in WalletAddresses, Wallets!UnlinkWallet(c, w)
  PROVE  VerifiedInv'
<1>1. /\ LinkedWallet' = Wallets!Without(LinkedWallet, w)
      /\ WalletOwner' = Wallets!Without(WalletOwner, LinkedWallet[w].owner)
      /\ VerificationStatus' = VerificationStatus \ {w}
      /\ prover' = Wallets!Restrict(prover, VerificationStatus \ {w})
      /\ UNCHANGED <<walletAdmin, VerificationChallenge, sequence, walletTime>>
  BY DEF Wallets!UnlinkWallet, Wallets!clock, Wallets!StatusAfterUnlink
<1>2. /\ LinkedWallet' \in [DOMAIN LinkedWallet' -> LinkRecord]
      /\ DOMAIN LinkedWallet' = DOMAIN LinkedWallet \ {w}
      /\ \A x \in DOMAIN LinkedWallet' : LinkedWallet'[x] = LinkedWallet[x]
  BY <1>1 DEF Wallets!Without, VerifiedInv
<1>3. DOMAIN WalletOwner' \subseteq Users
  BY <1>1 DEF Wallets!Without, VerifiedInv
<1>4. VerificationStatus' = {x \in DOMAIN LinkedWallet' : LinkedWallet'[x].is_verified}
  BY <1>1, <1>2 DEF VerifiedInv
<1>5. /\ DOMAIN prover' = VerificationStatus'
      /\ \A x \in VerificationStatus' : prover'[x] \in {LinkedWallet'[x].owner, Unset}
  BY <1>1, <1>2, <1>4 DEF Wallets!Restrict, VerifiedInv
<1> QED
  BY <1>1, <1>2, <1>3, <1>4, <1>5 DEF VerifiedInv

\* What both ways of verifying a wallet do to it and to nothing else.
LEMMA MarkedVerified ==
  ASSUME VerifiedInv, NEW w \in DOMAIN LinkedWallet, NEW n \in 0..MaxNonce, NEW u,
         u \in {LinkedWallet[w].owner, Unset}, Wallets!Verified(w, n, u)
  PROVE  /\ LinkedWallet' \in [DOMAIN LinkedWallet' -> LinkRecord]
         /\ DOMAIN LinkedWallet' = DOMAIN LinkedWallet
         /\ VerificationStatus' = {x \in DOMAIN LinkedWallet' : LinkedWallet'[x].is_verified}
         /\ DOMAIN prover' = VerificationStatus'
         /\ \A x \in VerificationStatus' : prover'[x] \in {LinkedWallet'[x].owner, Unset}
<1>1. PICK v : v = [LinkedWallet[w] EXCEPT !.is_verified = TRUE, !.nonce = n]
  OBVIOUS
<1>2. LinkedWallet[w] \in LinkRecord
  BY DEF VerifiedInv
<1>3. v \in LinkRecord /\ v.is_verified = TRUE /\ v.owner = LinkedWallet[w].owner
  BY <1>1, <1>2 DEF LinkRecord
<1>4. LinkedWallet' = [LinkedWallet EXCEPT ![w] = v]
  BY <1>1 DEF Wallets!Verified, VerifiedInv, LinkRecord
<1>5. /\ VerificationStatus' = VerificationStatus \cup {w}
      /\ prover' = Wallets!Stored(prover, w, u)
  BY DEF Wallets!Verified
<1>6. /\ LinkedWallet' \in [DOMAIN LinkedWallet' -> LinkRecord]
      /\ DOMAIN LinkedWallet' = DOMAIN LinkedWallet /\ LinkedWallet'[w] = v
      /\ \A x \in DOMAIN LinkedWallet : x # w => LinkedWallet'[x] = LinkedWallet[x]
  BY <1>3, <1>4 DEF VerifiedInv
<1>7. VerificationStatus' = {x \in DOMAIN LinkedWallet' : LinkedWallet'[x].is_verified}
  BY <1>3, <1>5, <1>6 DEF VerifiedInv
<1>8. /\ DOMAIN prover' = VerificationStatus' /\ prover'[w] = u
      /\ \A x \in VerificationStatus : x # w => prover'[x] = prover[x]
  BY <1>5 DEF Wallets!Stored, VerifiedInv
<1> QED
  BY <1>3, <1>5, <1>6, <1>7, <1>8 DEF VerifiedInv

LEMMA VerifyStep ==
  ASSUME VerifiedInv, NEW c \in Users, NEW w \in WalletAddresses,
         Wallets!VerifyWalletOwnership(c, w)
  PROVE  VerifiedInv'
<1>1. /\ w \in DOMAIN LinkedWallet /\ LinkedWallet[w].nonce < MaxNonce
      /\ c = LinkedWallet[w].owner /\ Wallets!Verified(w, LinkedWallet[w].nonce + 1, c)
      /\ UNCHANGED <<walletAdmin, WalletOwner, VerificationChallenge, sequence, walletTime>>
  BY DEF Wallets!VerifyWalletOwnership, Wallets!Linked, Wallets!clock
<1>2. LinkedWallet[w].nonce + 1 \in 0..MaxNonce
  BY <1>1, WalletsConstants DEF VerifiedInv, LinkRecord
<1> QED
  BY <1>1, <1>2, MarkedVerified DEF VerifiedInv

LEMMA ChallengeStep ==
  ASSUME VerifiedInv, NEW w \in WalletAddresses, Wallets!CreateVerificationChallenge(w)
  PROVE  VerifiedInv'
<1>1. PICK v : v = [expires_at |-> walletTime + EXPIRY, is_completed |-> FALSE]
  OBVIOUS
<1>2. v \in ChallengeRecord
  BY <1>1, WalletsConstants DEF ChallengeRecord, VerifiedInv
<1>3. /\ VerificationChallenge' = Wallets!Stored(VerificationChallenge, <<w, sequence>>, v)
      /\ UNCHANGED <<walletAdmin, LinkedWallet, WalletOwner, VerificationStatus, prover,
                     sequence, walletTime>>
  BY <1>1 DEF Wallets!CreateVerificationChallenge, Wallets!clock
<1>4. /\ VerificationChallenge' \in [DOMAIN VerificationChallenge' -> ChallengeRecord]
      /\ DOMAIN VerificationChallenge' = DOMAIN VerificationChallenge \cup {<<w, sequence>>}
  BY <1>2, <1>3 DEF Wallets!Stored, VerifiedInv
<1>5. <<w, sequence>> \in WalletAddresses \X (0..sequence)
  BY DEF VerifiedInv
<1> QED
  BY <1>3, <1>4, <1>5 DEF VerifiedInv

LEMMA CompletionStep ==
  ASSUME VerifiedInv, NEW w \in WalletAddresses, NEW n \in 0..WalletsMaxTime,
         Wallets!CompleteVerificationChallenge(w, n)
  PROVE  VerifiedInv'
<1>1. PICK k : k = <<w, n>>
  OBVIOUS
<1>2. /\ k \in DOMAIN VerificationChallenge
      /\ w \in DOMAIN LinkedWallet /\ Wallets!Verified(w, LinkedWallet[w].nonce, Unset)
      /\ VerificationChallenge' = [VerificationChallenge EXCEPT ![k].is_completed = TRUE]
      /\ UNCHANGED <<walletAdmin, WalletOwner, sequence, walletTime>>
  BY <1>1 DEF Wallets!CompleteVerificationChallenge, Wallets!Completable, Wallets!Linked,
              Wallets!clock
<1>3. LinkedWallet[w].nonce \in 0..MaxNonce
  BY <1>2 DEF VerifiedInv, LinkRecord
<1>4. VerificationChallenge' \in [DOMAIN VerificationChallenge -> ChallengeRecord]
  BY <1>2 DEF VerifiedInv, ChallengeRecord
<1> QED
  BY <1>2, <1>3, <1>4, MarkedVerified DEF VerifiedInv

LEMMA VerifyingStep ==
  ASSUME VerifiedInv, Wallets!Verifying
  PROVE  VerifiedInv'
<1>1. ASSUME NEW a \in Users, Wallets!InitializeWalletContract(a)
      PROVE  VerifiedInv'
  BY <1>1 DEF Wallets!InitializeWalletContract, Wallets!clock, VerifiedInv
<1>2. ASSUME Wallets!CloseLedger
      PROVE  VerifiedInv'
  <2>1. PICK seconds \in Nat :
          /\ sequence' = sequence + 1 /\ walletTime' = walletTime + seconds
          /\ UNCHANGED <<walletAdmin, LinkedWallet, WalletOwner, VerificationStatus,
                         VerificationChallenge, prover>>
    BY <1>2, WalletsConstants DEF Wallets!CloseLedger, Wallets!verifiedVars
  <2>2. sequence' \in Nat /\ walletTime' \in Nat /\ 0..sequence \subseteq 0..sequence'
    BY <2>1 DEF VerifiedInv
  <2> QED
    BY <2>1, <2>2 DEF VerifiedInv
<1> QED
  BY <1>1, <1>2, LinkStep, UnlinkStep, VerifyStep, ChallengeStep, CompletionStep
     DEF Wallets!Verifying

LEMMA UnlinkedIsRemoval ==
  ASSUME NEW list, NEW w
  PROVE  Wallets!Removed(list, w) = (CHOOSE g : IsRemoval(g, list, w))[DOMAIN list]
BY DEF Wallets!Removed, Wallets!FoldLeft, Wallets!MapThenFoldSet, Wallets!Max, IsRemoval, Greatest

\* Each user's list names the wallets linked to the user, once.
ListsMatch(lists, owners) ==
  \A u \in Users : /\ Named(lists[u]) = {w \in DOMAIN owners : owners[w] = u}
                   /\ Once(lists[u])

LEMMA LinkedAreListed ==
  /\ Wallets!LinksAgree <=> ListsMatch(UserWallets, linkOwner)
  /\ Wallets!LinksAgree' <=> ListsMatch(UserWallets', linkOwner')
BY DEF Wallets!LinksAgree, ListsMatch, Named, Once

LEMMA OwnLinkStep ==
  ASSUME LinksInv, NEW u \in Users, NEW w \in WalletAddresses, Wallets!LinkOwn(u, w)
  PROVE  LinksInv'
<1>1. /\ w \notin DOMAIN linkOwner /\ linkOwner' = Wallets!Stored(linkOwner, w, u)
      /\ UserWallets' = [UserWallets EXCEPT ![u] = Append(@, w)]
  BY DEF Wallets!LinkOwn
<1>2. /\ linkOwner' \in [DOMAIN linkOwner' -> Users] /\ linkOwner'[w] = u
      /\ DOMAIN linkOwner' = DOMAIN linkOwner \cup {w}
      /\ \A x \in DOMAIN linkOwner : linkOwner'[x] = linkOwner[x]
  BY <1>1 DEF Wallets!Stored, LinksInv
<1>3. PICK old, new :
        old \in Seq(WalletAddresses) /\ old = UserWallets[u] /\ new = Append(old, w)
  BY DEF LinksInv
<1>4. ListsMatch(UserWallets, linkOwner)
  BY LinkedAreListed DEF LinksInv
<1>5. w \notin Named(old)
  BY <1>1, <1>3, <1>4 DEF ListsMatch
<1>6. new \in Seq(WalletAddresses) /\ Named(new) = Named(old) \cup {w} /\ Once(new)
  BY <1>3, <1>4, <1>5, NamedAppend DEF ListsMatch
<1>7. UserWallets' = [UserWallets EXCEPT ![u] = new]
  BY <1>1, <1>3
<1>8. UserWallets' \in [Users -> Seq(WalletAddresses)]
  BY <1>6, <1>7 DEF LinksInv
<1>9. UserWallets'[u] = new /\ \A x \in Users \ {u} : UserWallets'[x] = UserWallets[x]
  BY <1>7 DEF LinksInv
<1>10. {x \in DOMAIN linkOwner' : linkOwner'[x] = u}
         = {x \in DOMAIN linkOwner : linkOwner[x] = u} \cup {w}
  BY <1>1, <1>2
<1>11. \A v \in Users \ {u} :
         {x \in DOMAIN linkOwner' : linkOwner'[x] = v} = {x \in DOMAIN linkOwner : linkOwner[x] = v}
  BY <1>1, <1>2
<1>12. ListsMatch(UserWallets', linkOwner')
  BY <1>3, <1>4, <1>6, <1>9, <1>10, <1>11, Zenon DEF ListsMatch
<1> QED
  BY <1>2, <1>8, <1>12, LinkedAreListed DEF LinksInv

LEMMA OwnUnlinkStep ==
  ASSUME LinksInv, NEW u \in Users, NEW w \in WalletAddresses, Wallets!UnlinkOwn(u, w)
  PROVE  LinksInv'
<1>1. /\ w \in DOMAIN linkOwner /\ linkOwner[w] = u
      /\ linkOwner' = Wallets!Without(linkOwner, w)
      /\ UserWallets' = [UserWallets EXCEPT ![u] = Wallets!Removed(@, w)]
  BY DEF Wallets!UnlinkOwn, Wallets!MayUnlink
<1>2. /\ linkOwner' \in [DOMAIN linkOwner' -> Users] /\ DOMAIN linkOwner' = DOMAIN linkOwner \ {w}
      /\ \A x \in DOMAIN linkOwner' : linkOwner'[x] = linkOwner[x]
  BY <1>1 DEF Wallets!Without, LinksInv
<1>3. PICK old, new :
        old \in Seq(WalletAddresses) /\ old = UserWallets[u] /\ new = Wallets!Removed(old, w)
  BY DEF LinksInv
<1>4. ListsMatch(UserWallets, linkOwner)
  BY LinkedAreListed DEF LinksInv
<1>5. Once(old)
  BY <1>3, <1>4 DEF ListsMatch
<1>6. new \in Seq(WalletAddresses) /\ Named(new) = Named(old) \ {w} /\ Once(new)
  <2>1. new = (CHOOSE g : IsRemoval(g, old, w))[DOMAIN old]
    BY <1>3, UnlinkedIsRemoval
  <2> QED
    BY <1>3, <1>5, <2>1, RemovalNames
<1>7. UserWallets' = [UserWallets EXCEPT ![u] = new]
  BY <1>1, <1>3
<1>8. UserWallets' \in [Users -> Seq(WalletAddresses)]
  BY <1>6, <1>7 DEF LinksInv
<1>9. UserWallets'[u] = new /\ \A x \in Users \ {u} : UserWallets'[x] = UserWallets[x]
  BY <1>7 DEF LinksInv
<1>10. {x \in DOMAIN linkOwner' : linkOwner'[x] = u}
         = {x \in DOMAIN linkOwner : linkOwner[x] = u} \ {w}
  BY <1>1, <1>2
<1>11. \A v \in Users \ {u} :
         {x \in DOMAIN linkOwner' : linkOwner'[x] = v} = {x \in DOMAIN linkOwner : linkOwner[x] = v}
  BY <1>1, <1>2
<1>12. ListsMatch(UserWallets', linkOwner')
  BY <1>3, <1>4, <1>6, <1>9, <1>10, <1>11, Zenon DEF ListsMatch
<1> QED
  BY <1>2, <1>8, <1>12, LinkedAreListed DEF LinksInv

LEMMA ProfilingStep ==
  ASSUME ProfilesInv, Wallets!Profiling
  PROVE  ProfilesInv'
<1>1. ASSUME NEW a \in Users, Wallets!InitializeProfiles(a) PROVE ProfilesInv'
  BY <1>1 DEF ProfilesInv, Wallets!InitializeProfiles
<1>2. ASSUME NEW u \in Users, NEW n \in Nicknames, Wallets!CreateProfile(u, n)
      PROVE  ProfilesInv'
  BY <1>2 DEF ProfilesInv, Wallets!CreateProfile, Wallets!Stored
<1>3. ASSUME NEW u \in Users, NEW n \in Nicknames, Wallets!UpdateNickname(u, n)
      PROVE  ProfilesInv'
  BY <1>3 DEF ProfilesInv, Wallets!UpdateNickname
<1>4. ASSUME NEW c \in Users, NEW a \in Users, Wallets!SetProfileAdmin(c, a)
      PROVE  ProfilesInv'
  BY <1>4 DEF ProfilesInv, Wallets!SetProfileAdmin
<1> QED
  BY <1>1, <1>2, <1>3, <1>4 DEF Wallets!Profiling

LEMMA DelegatingStep ==
  ASSUME DelegationsInv, Wallets!Delegating
  PROVE  DelegationsInv'
<1>1. ASSUME NEW o \in Users, NEW d \in Users, NEW n \in DelegationLimits,
             Wallets!SetDelegation(o, d, n)
      PROVE  DelegationsInv'
  <2>1. PICK k, v, g : /\ k = <<o, d>> /\ v = [limit |-> n, spent |-> Wallets!SpentBefore(k)]
                       /\ g = [used |-> Wallets!Used(k), highest |-> Wallets!Highest(k, n)]
    OBVIOUS
  <2>2. /\ k[1] # k[2] /\ n \in Int /\ n > 0 /\ delegated' = Wallets!Stored(delegated, k, v)
        /\ granted' = Wallets!Stored(granted, k, g)
    BY <1>1, <2>1, WalletsConstants DEF Wallets!SetDelegation
  <2>3. v \in DelegationRecord /\ v.limit = n /\ v.spent \in 0..I128_MAX
    BY <2>1, <2>2, WalletsConstants DEF Wallets!SpentBefore, DelegationsInv, DelegationRecord
  <2>4. g \in GrantRecord /\ g.used = v.spent /\ g.used <= g.highest /\ n <= g.highest
    <3>1. CASE k \in DOMAIN delegated
      <4>1. /\ granted[k] \in GrantRecord /\ granted[k].used = delegated[k].spent
            /\ granted[k].used <= granted[k].highest /\ k \in DOMAIN granted
        BY <3>1 DEF DelegationsInv
      <4>2. g.used = granted[k].used /\ v.spent = delegated[k].spent
        BY <2>1, <3>1, <4>1 DEF Wallets!Used, Wallets!SpentBefore
      <4>3. g.highest \in Int /\ g.highest >= granted[k].highest /\ g.highest >= n
        BY <2>1, <2>2, <4>1 DEF Wallets!Highest, GrantRecord
      <4> QED
        BY <2>1, <4>1, <4>2, <4>3 DEF GrantRecord
    <3>2. CASE k \notin DOMAIN delegated
      <4>1. k \notin DOMAIN granted
        BY <3>2 DEF DelegationsInv
      <4> QED
        BY <2>1, <2>2, <3>2, <4>1 DEF Wallets!Used, Wallets!SpentBefore, Wallets!Highest, GrantRecord
    <3> QED
      BY <3>1, <3>2
  <2>5. /\ delegated' \in [DOMAIN delegated' -> DelegationRecord]
        /\ DOMAIN delegated' = DOMAIN delegated \cup {k} /\ delegated'[k] = v
        /\ \A x \in DOMAIN delegated : x # k => delegated'[x] = delegated[x]
    BY <2>2, <2>3 DEF Wallets!Stored, DelegationsInv
  <2>6. /\ granted' \in [DOMAIN granted' -> GrantRecord]
        /\ DOMAIN granted' = DOMAIN granted \cup {k} /\ granted'[k] = g
        /\ \A x \in DOMAIN granted : x # k => granted'[x] = granted[x]
    BY <2>2, <2>4 DEF Wallets!Stored, DelegationsInv
  <2> QED
    BY <2>2, <2>3, <2>4, <2>5, <2>6 DEF DelegationsInv
<1>2. ASSUME NEW o \in Users, NEW d \in Users, Wallets!RevokeDelegation(o, d)
      PROVE  DelegationsInv'
  <2>1. /\ delegated' \in [DOMAIN delegated' -> DelegationRecord]
        /\ DOMAIN delegated' = DOMAIN delegated \ {<<o, d>>}
        /\ \A x \in DOMAIN delegated' : delegated'[x] = delegated[x]
    BY <1>2 DEF Wallets!RevokeDelegation, Wallets!Without, DelegationsInv
  <2>2. /\ granted' \in [DOMAIN granted' -> GrantRecord]
        /\ DOMAIN granted' = DOMAIN granted \ {<<o, d>>}
        /\ \A x \in DOMAIN granted' : granted'[x] = granted[x]
    BY <1>2 DEF Wallets!RevokeDelegation, Wallets!Without, DelegationsInv
  <2> QED
    BY <2>1, <2>2 DEF DelegationsInv
<1>3. ASSUME NEW o \in Users, NEW d \in Users, NEW a \in DelegatedAmounts,
             Wallets!ConsumeAllowance(o, d, a)
      PROVE  DelegationsInv'
  <2>1. PICK k \in DOMAIN delegated : k = <<o, d>>
    BY <1>3 DEF Wallets!ConsumeAllowance
  <2>2. PICK v, g : /\ v = [delegated[k] EXCEPT !.spent = @ + a]
                    /\ g = [granted[k] EXCEPT !.used = @ + a]
    OBVIOUS
  <2>3. /\ a \in Int /\ a > 0 /\ delegated[k].spent + a <= I128_MAX
        /\ delegated[k].spent + a <= delegated[k].limit
        /\ delegated' = [delegated EXCEPT ![k] = v] /\ granted' = [granted EXCEPT ![k] = g]
    BY <1>3, <2>1, <2>2, WalletsConstants DEF Wallets!ConsumeAllowance
  <2>4. /\ delegated[k] \in DelegationRecord /\ delegated[k].spent \in 0..I128_MAX
        /\ granted[k] \in GrantRecord /\ granted[k].used = delegated[k].spent
        /\ delegated[k].limit <= granted[k].highest
    BY DEF DelegationsInv
  <2>5. /\ v \in DelegationRecord /\ v.limit = delegated[k].limit
        /\ v.spent = delegated[k].spent + a /\ v.spent \in 0..I128_MAX
    BY <2>2, <2>3, <2>4, WalletsConstants DEF DelegationRecord
  <2>6. /\ g \in GrantRecord /\ g.used = v.spent /\ g.used <= g.highest
        /\ v.limit <= g.highest
    BY <2>2, <2>3, <2>4, <2>5 DEF GrantRecord, DelegationRecord
  <2>7. /\ delegated' \in [DOMAIN delegated -> DelegationRecord] /\ delegated'[k] = v
        /\ \A x \in DOMAIN delegated : x # k => delegated'[x] = delegated[x]
    BY <2>3, <2>5 DEF DelegationsInv
  <2>8. /\ granted' \in [DOMAIN delegated -> GrantRecord] /\ granted'[k] = g
        /\ \A x \in DOMAIN granted : x # k => granted'[x] = granted[x]
    BY <2>3, <2>6 DEF DelegationsInv
  <2> QED
    BY <2>3, <2>5, <2>6, <2>7, <2>8 DEF DelegationsInv
<1> QED
  BY <1>1, <1>2, <1>3 DEF Wallets!Delegating

------------------------------------------------------------------------------
\* Categories, category budgets and the rate limit.

CategoryRecord == [user : Users, name : CategoryNames \ ReservedNames]
CategoryBudgetRecord == [limit : Nat, spent : Int]
Key(record) == <<record.user, record.name>>
Ascending(list) == \A i, j \in DOMAIN list : i < j => list[i] < list[j]

\* The parts of NamesAgree: the index by name and the users' lists.
IndexMatches(categories, index) ==
  /\ DOMAIN index = {Key(categories[c]) : c \in DOMAIN categories}
  /\ \A c \in DOMAIN categories : index[Key(categories[c])] = c
OwnedMatches(categories, lists) ==
  \A u \in Users : /\ Named(lists[u]) = {c \in DOMAIN categories : categories[c].user = u}
                   /\ Ascending(lists[u])

\* Numbers start again at zero only before there is a category.
CategoriesInv ==
  /\ categoryAdmin \in Users \cup {Unset} /\ (categoryAdmin = Unset => LastCategoryId = 0)
  /\ LastCategoryId \in Nat /\ TotalCategories = LastCategoryId
  /\ Category \in [1..LastCategoryId -> CategoryRecord]
  /\ UserCategories \in [Users -> Seq(Nat)]
  /\ IndexMatches(Category, CategoryByName) /\ OwnedMatches(Category, UserCategories)

OverdraftInv ==
  /\ overdraftAdmin \in Users \cup {Unset} /\ BudgetUsers \subseteq Users
  /\ CategoryBudget \in [DOMAIN CategoryBudget -> CategoryBudgetRecord]
  /\ DOMAIN CategoryBudget \subseteq BudgetUsers \X CategoryNames

RateTyped ==
  /\ RateConfig \in Records!RateSettings \cup {Unset} /\ rateTime \in 0..RecordsMaxTime
  /\ RateLimitCount \in [DOMAIN RateLimitCount -> Nat]
  /\ DOMAIN RateLimitCount \subseteq Users \X (0..rateTime)
  /\ admitted \in [Users -> Nat]
  /\ admittedBefore \in Seq([Users -> Nat]) /\ Len(admittedBefore) = rateTime + 1
  /\ configured \in Int /\ configured <= rateTime

CountIn(counts, u, s) == IF <<u, s>> \in DOMAIN counts THEN counts[<<u, s>>] ELSE 0
CallsSince(calls, before, u, s) == calls[u] - before[s + 1][u]

\* No window, past or present and of whatever length, counts a call from outside.
CountsWithin(counts, calls, before, now) ==
  \A u \in Users : \A s \in 0..now : CountIn(counts, u, s) <= CallsSince(calls, before, u, s)

\* The window that starts at s counts every call, and no more than max.
CountsAll(counts, calls, before, s, max) ==
  \A u \in Users : /\ CountIn(counts, u, s) = CallsSince(calls, before, u, s)
                   /\ CallsSince(calls, before, u, s) <= max

\* The present window does, unless the settings changed in it.
RateInv ==
  /\ RateTyped /\ CountsWithin(RateLimitCount, admitted, admittedBefore, rateTime)
  /\ Records!Rate.window # 0 /\ configured < Records!Window =>
       CountsAll(RateLimitCount, admitted, admittedBefore, Records!Window, Records!Rate.max_tx)

SpendingRecordsInv == CategoriesInv /\ OverdraftInv /\ RateInv

LEMMA RecordsConstants ==
  /\ Unset \notin Users /\ Unset \notin Records!RateSettings
  /\ BudgetLists \subseteq Seq([name : CategoryNames, limit : Int, spent : Int])
  /\ CategoryLimits \subseteq Int /\ RecordedAmounts \subseteq Int
  /\ RateConfigs \subseteq Records!RateSettings /\ DefaultRate \in Records!RateSettings
  /\ MaxCategories \in Nat /\ MaxSpent \in Nat /\ RecordsMaxTime \in Nat
BY ControlsAssumption DEF Records!RecordsAssumption

LEMMA NamesParts ==
  ASSUME CategoriesInv
  PROVE  Records!NamesAgree
<1>1. PICK n \in Nat : n = LastCategoryId /\ DOMAIN Category = 1..n
  BY DEF CategoriesInv
<1>2. \A S : Records!Cardinality(S) = Cardinality(S)
  BY DEF Records!Cardinality, Cardinality
<1>3. Records!Cardinality(1..n) = n
  BY <1>1, <1>2, FS_Interval
<1>4. TotalCategories = Records!Cardinality(DOMAIN Category)
  BY <1>1, <1>3 DEF CategoriesInv
<1> QED
  BY <1>4, Zenon
     DEF CategoriesInv, IndexMatches, OwnedMatches, Key, Named, Ascending, Records!NamesAgree

LEMMA SpendingRecordsTyped ==
  ASSUME SpendingRecordsInv
  PROVE  Records!TypeOK
<1>1. /\ DOMAIN Category = 1..LastCategoryId /\ TotalCategories \in Nat
      /\ \A c \in DOMAIN Category : /\ Category[c].user \in Users
                                    /\ Category[c].name \in CategoryNames \ ReservedNames
  BY DEF SpendingRecordsInv, CategoriesInv, CategoryRecord
<1>2. /\ DOMAIN CategoryBudget \subseteq BudgetUsers \X CategoryNames
      /\ \A k \in DOMAIN CategoryBudget :
           CategoryBudget[k].limit \in Nat /\ CategoryBudget[k].spent \in Int
  BY DEF SpendingRecordsInv, OverdraftInv, CategoryBudgetRecord
<1>3. \A k \in DOMAIN RateLimitCount : k[1] \in Users /\ k[2] \in 0..RecordsMaxTime
  <2>1. /\ DOMAIN RateLimitCount \subseteq Users \X (0..rateTime)
        /\ rateTime \in 0..RecordsMaxTime /\ RecordsMaxTime \in Nat
    BY RecordsConstants DEF SpendingRecordsInv, RateInv, RateTyped
  <2>2. 0..rateTime \subseteq 0..RecordsMaxTime
    BY <2>1
  <2> QED
    BY <2>1, <2>2
<1>4. {categoryAdmin, overdraftAdmin} \subseteq Users \cup {Unset}
  BY DEF SpendingRecordsInv, CategoriesInv, OverdraftInv
<1> QED
  BY <1>1, <1>2, <1>3, <1>4 DEF Records!TypeOK

\* A window starts no later than it is seen.
LEMMA WindowStarts ==
  ASSUME NEW t \in Nat, NEW w \in Nat \ {0}
  PROVE  \E q \in Int, r \in 0..(w - 1), p \in 0..t :
           r = t % w /\ t = p + r /\ p = w * q /\ p = t - (t % w)
<1>1. \A q \in Int : q <= -1 => w * q \in Int /\ w * q <= -w
  OBVIOUS
<1>2. \A q \in Int : q >= 0 => w * q \in Int /\ w * q >= 0
  OBVIOUS
<1>3. t \div w \in Int /\ t % w \in 0..(w - 1) /\ t = w * (t \div w) + (t % w)
  BY IntDivision
<1>4. PICK q \in Int, r \in 0..(w - 1) : r = t % w /\ t = w * q + r
  BY <1>3
<1>5. PICK p \in Int : p = w * q /\ t = p + r /\ (q <= -1 => p <= -w) /\ (q >= 0 => p >= 0)
  BY <1>1, <1>2, <1>4
<1>6. p \in 0..t /\ p = t - r
  BY <1>5
<1> QED
  BY <1>4, <1>5, <1>6

\* A second later it is the same window, or a new one starts in that second.
LEMMA WindowMoves ==
  ASSUME NEW t \in Nat, NEW w \in Nat \ {0}
  PROVE  \/ (t + 1) - ((t + 1) % w) = t - (t % w)
         \/ (t + 1) - ((t + 1) % w) = t + 1
<1>1. PICK q \in Int, r \in 0..(w - 1), p \in 0..t :
        r = t % w /\ t = p + r /\ p = w * q /\ p = t - (t % w)
  BY WindowStarts
<1>2. PICK b \in Int, s \in 0..(w - 1), a \in 0..(t + 1) :
        s = (t + 1) % w /\ t + 1 = a + s /\ a = w * b /\ a = (t + 1) - ((t + 1) % w)
  <2>1. PICK x \in Nat : x = t + 1
    OBVIOUS
  <2>2. \E b \in Int, s \in 0..(w - 1), a \in 0..x :
          s = x % w /\ x = a + s /\ a = w * b /\ a = x - (x % w)
    BY WindowStarts
  <2> QED
    BY <2>1, <2>2
<1>3. CASE b = q
  BY <1>1, <1>2, <1>3
<1>4. CASE b >= q + 1
  <2>1. PICK d \in Nat \ {0} : b = q + d
    <3>1. b - q \in Nat \ {0} /\ b = q + (b - q)
      BY <1>4
    <3> QED
      BY <3>1
  <2>2. w * d >= w /\ w * b = w * q + w * d /\ w * d \in Int
    BY <2>1
  <2> QED
    BY <1>1, <1>2, <2>2
<1>5. CASE b <= q - 1
  <2>1. PICK d \in Nat \ {0} : q = b + d
    <3>1. q - b \in Nat \ {0} /\ q = b + (q - b)
      BY <1>5
    <3> QED
      BY <3>1
  <2>2. PICK e \in Int : e = w * d /\ e >= w /\ w * q = w * b + e
    BY <2>1
  <2>3. p = a + e
    BY <1>1, <1>2, <2>2
  <2>4. FALSE
    BY <1>1, <1>2, <2>2, <2>3
  <2> QED
    BY <2>4
<1> QED
  BY <1>3, <1>4, <1>5

LEMMA RateType ==
  ASSUME RateTyped
  PROVE  Records!Rate \in Records!RateSettings
BY RecordsConstants DEF Records!Rate, RateTyped

LEMMA WindowType ==
  ASSUME RateTyped, Records!Rate.window # 0
  PROVE  Records!Window \in 0..rateTime
<1>1. PICK w \in Nat \ {0} : w = Records!Rate.window
  BY RateType DEF Records!RateSettings
<1>2. PICK t \in Nat : t = rateTime
  BY RecordsConstants DEF RateTyped
<1> QED
  BY <1>1, <1>2, WindowStarts DEF Records!Window

\* The same of the next state.
LEMMA WindowTypeNext ==
  ASSUME RateTyped', Records!Rate'.window # 0
  PROVE  Records!Window' \in 0..rateTime'
<1>1. Records!Rate' \in Records!RateSettings
  BY RecordsConstants DEF Records!Rate, RateTyped
<1>2. PICK w \in Nat \ {0} : w = Records!Rate'.window
  BY <1>1 DEF Records!RateSettings
<1>3. PICK t \in Nat : t = rateTime'
  BY RecordsConstants DEF RateTyped
<1> QED
  BY <1>2, <1>3, WindowStarts DEF Records!Window

LEMMA SpendingRecordsStart ==
  ASSUME Records!Init
  PROVE  SpendingRecordsInv
<1>1. PICK empty : empty = << >> /\ DOMAIN empty = {}
  OBVIOUS
<1>2. (\A S : empty \in [DOMAIN empty -> S]) /\ empty \in Seq(Nat) /\ 1..0 = {}
  BY <1>1
<1>3. CategoriesInv
  <2>1. IndexMatches(Category, CategoryByName)
    BY <1>1 DEF Records!Init, IndexMatches
  <2>2. OwnedMatches(Category, UserCategories)
    BY <1>1 DEF Records!Init, OwnedMatches, Named, Ascending
  <2> QED
    BY <1>1, <1>2, <2>1, <2>2 DEF Records!Init, CategoriesInv
<1>4. OverdraftInv
  BY <1>1, <1>2 DEF Records!Init, OverdraftInv
<1>5. RateInv
  <2>1. /\ RateConfig = Unset /\ RateLimitCount = << >> /\ rateTime = 0 /\ configured = -1
        /\ admitted = [u \in Users |-> 0] /\ admittedBefore = <<admitted>>
    BY DEF Records!Init
  <2>2. admitted \in [Users -> Nat] /\ \A u \in Users : admitted[u] = 0
    BY <2>1
  <2>3. /\ admittedBefore \in Seq([Users -> Nat]) /\ Len(admittedBefore) = 1
        /\ admittedBefore[1] = admitted
    BY <2>1, <2>2
  <2>4. RateTyped
    BY <1>1, <1>2, <2>1, <2>2, <2>3, RecordsConstants DEF RateTyped
  <2>5. \A u \in Users : /\ CountIn(RateLimitCount, u, 0) = 0
                         /\ CallsSince(admitted, admittedBefore, u, 0) = 0
    BY <1>1, <2>1, <2>2, <2>3 DEF CountIn, CallsSince
  <2>6. CountsWithin(RateLimitCount, admitted, admittedBefore, rateTime)
    BY <2>1, <2>5 DEF CountsWithin
  <2>7. Records!Rate.max_tx \in Nat
    BY <2>4, RateType DEF Records!RateSettings
  <2>8. Records!Rate.window # 0 => Records!Window = 0
    BY <2>4, <2>1, WindowType
  <2>9. CountsAll(RateLimitCount, admitted, admittedBefore, 0, Records!Rate.max_tx)
    BY <2>5, <2>7 DEF CountsAll
  <2> QED
    BY <2>4, <2>6, <2>8, <2>9 DEF RateInv
<1> QED
  BY <1>3, <1>4, <1>5 DEF SpendingRecordsInv

LEMMA AscendingAppend ==
  ASSUME NEW s \in Seq(Nat), NEW x \in Nat, Ascending(s), \A y \in Named(s) : y < x
  PROVE  Ascending(Append(s, x))
<1>1. PICK t : t = Append(s, x)
  OBVIOUS
<1>2. /\ t[Len(s) + 1] = x /\ \A i \in 1..Len(s) : t[i] = s[i]
      /\ DOMAIN s = 1..Len(s) /\ DOMAIN t = 1..(Len(s) + 1) /\ Len(s) \in Nat
  BY <1>1
<1>3. \A i \in 1..Len(s) : s[i] < x
  BY <1>2 DEF Named
<1>4. \A i, j \in 1..(Len(s) + 1) : i < j => t[i] < t[j]
  BY <1>2, <1>3 DEF Ascending
<1> QED
  BY <1>1, <1>2, <1>4 DEF Ascending

LEMMA CreateStep ==
  ASSUME CategoriesInv, NEW caller \in Users, NEW u \in Users, NEW name \in CategoryNames,
         Records!CreateCategory(caller, u, name)
  PROVE  CategoriesInv'
<1>1. PICK n \in Nat : n = LastCategoryId /\ DOMAIN Category = 1..n
  BY DEF CategoriesInv
<1>2. PICK id, v, k : id = n + 1 /\ v = [user |-> u, name |-> name] /\ k = Key(v)
  OBVIOUS
<1>3. /\ id \in Nat /\ v \in CategoryRecord /\ v.user = u /\ k = <<u, name>>
      /\ 1..id = (1..n) \cup {id} /\ id \notin 1..n
  BY <1>2 DEF CategoryRecord, Key, Records!CreateCategory
<1>4. /\ categoryAdmin # Unset /\ k \notin DOMAIN CategoryByName
      /\ Category' = Records!Stored(Category, id, v)
      /\ CategoryByName' = Records!Stored(CategoryByName, k, id)
      /\ UserCategories' = [UserCategories EXCEPT ![u] = Append(@, id)]
      /\ LastCategoryId' = id /\ TotalCategories' = TotalCategories + 1
      /\ UNCHANGED categoryAdmin
  BY <1>1, <1>2, <1>3 DEF Records!CreateCategory
<1>5. /\ Category' \in [1..id -> CategoryRecord] /\ DOMAIN Category' = (1..n) \cup {id}
      /\ Category'[id] = v /\ \A c \in 1..n : Category'[c] = Category[c]
  <2>1. Category \in [1..n -> CategoryRecord]
    BY <1>1 DEF CategoriesInv
  <2> QED
    BY <1>3, <1>4, <2>1 DEF Records!Stored
<1>6. /\ DOMAIN CategoryByName' = DOMAIN CategoryByName \cup {k} /\ CategoryByName'[k] = id
      /\ \A x \in DOMAIN CategoryByName : CategoryByName'[x] = CategoryByName[x]
  BY <1>4 DEF Records!Stored
<1>7. IndexMatches(Category', CategoryByName')
  <2>1. /\ DOMAIN CategoryByName = {Key(Category[c]) : c \in 1..n}
        /\ \A c \in 1..n : CategoryByName[Key(Category[c])] = c
    BY <1>1 DEF CategoriesInv, IndexMatches
  <2>2. Key(Category'[id]) = k /\ \A c \in 1..n : Key(Category'[c]) = Key(Category[c])
    BY <1>2, <1>5
  <2>3. DOMAIN CategoryByName' = {Key(Category'[c]) : c \in (1..n) \cup {id}}
    BY <1>6, <2>1, <2>2
  <2>4. \A c \in (1..n) \cup {id} : CategoryByName'[Key(Category'[c])] = c
    BY <1>6, <2>1, <2>2
  <2> QED
    BY <1>5, <2>3, <2>4 DEF IndexMatches
<1>8. PICK old, new : old \in Seq(Nat) /\ old = UserCategories[u] /\ new = Append(old, id)
  BY DEF CategoriesInv
<1>9. /\ Named(old) = {c \in 1..n : Category[c].user = u} /\ Ascending(old)
      /\ \A w \in Users \ {u} : /\ Named(UserCategories[w]) = {c \in 1..n : Category[c].user = w}
                                /\ Ascending(UserCategories[w])
  BY <1>1, <1>8 DEF CategoriesInv, OwnedMatches
<1>10. \A y \in Named(old) : y < id
  BY <1>2, <1>9
<1>11. new \in Seq(Nat) /\ Named(new) = Named(old) \cup {id} /\ Ascending(new)
  BY <1>3, <1>8, <1>9, <1>10, NamedAppend, AscendingAppend
<1>12. UserCategories' = [UserCategories EXCEPT ![u] = new]
  BY <1>4, <1>8
<1>13. /\ UserCategories' \in [Users -> Seq(Nat)] /\ UserCategories'[u] = new
       /\ \A w \in Users \ {u} : UserCategories'[w] = UserCategories[w]
  BY <1>11, <1>12 DEF CategoriesInv
<1>14. OwnedMatches(Category', UserCategories')
  <2>1. {c \in DOMAIN Category' : Category'[c].user = u}
          = {c \in 1..n : Category[c].user = u} \cup {id}
    BY <1>3, <1>5
  <2>2. \A w \in Users \ {u} : {c \in DOMAIN Category' : Category'[c].user = w}
                                 = {c \in 1..n : Category[c].user = w}
    BY <1>3, <1>5
  <2> QED
    BY <1>9, <1>11, <1>13, <2>1, <2>2, Zenon DEF OwnedMatches
<1>15. LastCategoryId' \in Nat /\ TotalCategories' = LastCategoryId'
  BY <1>1, <1>2, <1>3, <1>4 DEF CategoriesInv
<1> QED
  BY <1>4, <1>5, <1>7, <1>13, <1>14, <1>15 DEF CategoriesInv

LEMMA RenameStep ==
  ASSUME CategoriesInv, NEW caller \in Users, NEW c \in 1..MaxCategories,
         NEW name \in CategoryNames, Records!RenameCategory(caller, c, name)
  PROVE  CategoriesInv'
<1>1. PICK D : D = DOMAIN Category /\ D = 1..LastCategoryId /\ c \in D
  BY DEF CategoriesInv, Records!RenameCategory
<1>2. PICK old, v, new : /\ old = Key(Category[c]) /\ v = [Category[c] EXCEPT !.name = name]
                         /\ new = <<Category[c].user, name>>
  OBVIOUS
<1>3. Category[c] \in CategoryRecord
  BY <1>1 DEF CategoriesInv
<1>4. /\ v \in CategoryRecord /\ Key(v) = new /\ v.user = Category[c].user
      /\ (name = Category[c].name => new = old)
  BY <1>2, <1>3 DEF CategoryRecord, Key, Records!RenameCategory
<1>5. /\ new = old \/ new \notin DOMAIN CategoryByName
      /\ CategoryByName' = Records!Stored([k \in DOMAIN CategoryByName \ {old} |-> CategoryByName[k]],
                                          new, c)
      /\ Category' = [Category EXCEPT ![c] = v]
      /\ UNCHANGED <<categoryAdmin, LastCategoryId, TotalCategories, UserCategories>>
  BY <1>2, <1>4 DEF Records!RenameCategory, Records!Reindexed, Key
<1>6. /\ Category' \in [D -> CategoryRecord] /\ DOMAIN Category' = D /\ Category'[c] = v
      /\ \A x \in D \ {c} : Category'[x] = Category[x]
  BY <1>1, <1>4, <1>5 DEF CategoriesInv
<1>7. /\ DOMAIN CategoryByName' = (DOMAIN CategoryByName \ {old}) \cup {new}
      /\ CategoryByName'[new] = c
      /\ \A k \in DOMAIN CategoryByName \ {old} : k # new => CategoryByName'[k] = CategoryByName[k]
  BY <1>5 DEF Records!Stored
<1>8. IndexMatches(Category', CategoryByName')
  <2>1. /\ DOMAIN CategoryByName = {Key(Category[x]) : x \in D}
        /\ \A x \in D : CategoryByName[Key(Category[x])] = x
    BY <1>1 DEF CategoriesInv, IndexMatches
  <2>2. ASSUME NEW x \in D \ {c}
        PROVE  /\ Key(Category'[x]) = Key(Category[x])
               /\ Key(Category[x]) \in DOMAIN CategoryByName \ {old}
               /\ Key(Category[x]) # new
    <3>1. PICK k : k = Key(Category[x]) /\ k \in DOMAIN CategoryByName /\ CategoryByName[k] = x
      BY <2>1
    <3>2. CategoryByName[old] = c
      BY <1>1, <1>2, <2>1
    <3> QED
      BY <1>5, <1>6, <3>1, <3>2
  <2>3. Key(Category'[c]) = new
    BY <1>4, <1>6
  <2>4. DOMAIN CategoryByName \ {old} = {Key(Category[x]) : x \in D \ {c}}
    BY <1>1, <1>2, <2>1, <2>2
  <2>5. DOMAIN CategoryByName' = {Key(Category'[x]) : x \in D}
    BY <1>1, <1>7, <2>2, <2>3, <2>4
  <2>6. \A x \in D : CategoryByName'[Key(Category'[x])] = x
    BY <1>7, <2>1, <2>2, <2>3
  <2> QED
    BY <1>6, <2>5, <2>6 DEF IndexMatches
<1>9. OwnedMatches(Category', UserCategories')
  <2>1. \A u \in Users : {x \in D : Category'[x].user = u} = {x \in D : Category[x].user = u}
    BY <1>4, <1>6
  <2> QED
    BY <1>1, <1>5, <1>6, <2>1, Zenon DEF CategoriesInv, OwnedMatches
<1> QED
  BY <1>1, <1>5, <1>6, <1>8, <1>9 DEF CategoriesInv

LEMMA CategorizingStep ==
  ASSUME CategoriesInv, Records!Categorizing
  PROVE  CategoriesInv'
<1>1. ASSUME NEW a \in Users, Records!InitializeCategories(a) PROVE CategoriesInv'
  BY <1>1, RecordsConstants DEF Records!InitializeCategories, CategoriesInv
<1>2. ASSUME NEW c \in Users, NEW a \in Users, Records!SetCategoryAdmin(c, a)
      PROVE  CategoriesInv'
  BY <1>2, RecordsConstants DEF Records!SetCategoryAdmin, CategoriesInv
<1> QED
  BY <1>1, <1>2, CreateStep, RenameStep DEF Records!Categorizing

\* Of the entries with a name the one that counts exists.
LEMMA LastEntry ==
  ASSUME NEW S, NEW list \in Seq(S), NEW i \in DOMAIN list
  PROVE  \E m \in DOMAIN list :
           list[m].name = list[i].name
           /\ \A j \in DOMAIN list : list[j].name = list[i].name => j <= m
<1>1. PICK n \in Nat : DOMAIN list = 1..n
  OBVIOUS
<1>2. PICK T : T = {j \in 1..n : list[j].name = list[i].name}
  OBVIOUS
<1>3. T \in SUBSET (1..n) /\ T # {}
  BY <1>1, <1>2
<1>4. Greatest(T) \in T /\ \A y \in T : Greatest(T) >= y
  BY <1>3, GreatestIn
<1>5. PICK m : m = Greatest(T)
  OBVIOUS
<1>6. m \in 1..n /\ list[m].name = list[i].name
  BY <1>2, <1>4, <1>5
<1>7. \A j \in 1..n : list[j].name = list[i].name => j <= m
  BY <1>2, <1>4, <1>5, <1>6
<1> QED
  BY <1>1, <1>6, <1>7

LEMMA UserBudgetStep ==
  ASSUME OverdraftInv, NEW caller \in Users, NEW u \in Users, NEW list \in BudgetLists,
         Records!SetUserBudget(caller, u, list)
  PROVE  OverdraftInv'
<1>1. /\ list \in Seq([name : CategoryNames, limit : Int, spent : Int])
      /\ \A i \in DOMAIN list : list[i] \in [name : CategoryNames, limit : Int, spent : Int]
  <2>1. PICK E : E = [name : CategoryNames, limit : Int, spent : Int]
    OBVIOUS
  <2>2. list \in Seq(E)
    BY <2>1, RecordsConstants
  <2>3. \A i \in DOMAIN list : list[i] \in E
    BY <2>2
  <2> QED
    BY <2>1, <2>2, <2>3
<1> DEFINE Last(n) == CHOOSE i \in DOMAIN list :
                        list[i].name = n /\ \A j \in DOMAIN list : list[j].name = n => j <= i
           named == {<<u, list[i].name>> : i \in DOMAIN list}
           kept == {k \in DOMAIN CategoryBudget : k[1] # u}
           entry(k) == [limit |-> list[Last(k[2])].limit, spent |-> list[Last(k[2])].spent]
<1>2. /\ CategoryBudget' = [k \in kept \cup named |->
                              IF k \in named THEN entry(k) ELSE CategoryBudget[k]]
      /\ BudgetUsers' = BudgetUsers \cup {u} /\ UNCHANGED overdraftAdmin
      /\ \A i \in DOMAIN list : list[i].limit >= 0
  BY DEF Records!SetUserBudget
<1>3. ASSUME NEW k \in named
      PROVE  entry(k) \in CategoryBudgetRecord /\ k \in BudgetUsers' \X CategoryNames
  <2>1. PICK i \in DOMAIN list : k = <<u, list[i].name>>
    OBVIOUS
  <2>2. k[2] = list[i].name /\ Last(k[2]) \in DOMAIN list
    BY <1>1, <2>1, LastEntry
  <2> HIDE DEF Last
  <2>3. PICK m \in DOMAIN list : m = Last(k[2])
    BY <2>2
  <2>4. /\ list[m] \in [name : CategoryNames, limit : Int, spent : Int]
        /\ list[i] \in [name : CategoryNames, limit : Int, spent : Int]
    BY <1>1, <2>3
  <2> QED
    BY <1>2, <2>1, <2>3, <2>4 DEF CategoryBudgetRecord
<1>4. \A k \in kept : CategoryBudget[k] \in CategoryBudgetRecord /\ k \in BudgetUsers \X CategoryNames
  BY DEF OverdraftInv
<1> HIDE DEF named, kept, entry
<1>5. CategoryBudget' \in [kept \cup named -> CategoryBudgetRecord]
  BY <1>2, <1>3, <1>4
<1>6. DOMAIN CategoryBudget' \subseteq BudgetUsers' \X CategoryNames
  BY <1>2, <1>3, <1>4
<1> QED
  BY <1>2, <1>5, <1>6 DEF OverdraftInv

LEMMA SpentStep ==
  ASSUME OverdraftInv, NEW k, NEW a \in Int, Records!Spent(k, a)
  PROVE  OverdraftInv'
<1>1. PICK v : v = [CategoryBudget[k] EXCEPT !.spent = @ + a]
  OBVIOUS
<1>2. /\ k \in DOMAIN CategoryBudget /\ a > 0 /\ CategoryBudget[k].spent + a <= MaxSpent
      /\ CategoryBudget' = [CategoryBudget EXCEPT ![k] = v]
      /\ UNCHANGED <<overdraftAdmin, BudgetUsers>>
  BY <1>1 DEF Records!Spent
<1>3. CategoryBudget[k] \in CategoryBudgetRecord
  BY <1>2 DEF OverdraftInv
<1>4. v \in CategoryBudgetRecord
  BY <1>1, <1>2, <1>3, RecordsConstants DEF CategoryBudgetRecord
<1> QED
  BY <1>2, <1>4 DEF OverdraftInv

LEMMA OverdrawingStep ==
  ASSUME OverdraftInv, Records!Overdrawing
  PROVE  OverdraftInv'
<1>1. ASSUME NEW a \in Users, Records!InitializeOverdraft(a)
      PROVE  OverdraftInv'
  BY <1>1 DEF Records!InitializeOverdraft, OverdraftInv
<1>2. ASSUME NEW c \in Users, NEW u \in Users, NEW n \in CategoryNames, NEW l \in CategoryLimits,
             Records!SetCategoryBudget(c, u, n, l)
      PROVE  OverdraftInv'
  <2>1. PICK k, v : k = <<u, n>> /\ v = [limit |-> l, spent |-> 0]
    OBVIOUS
  <2>2. v \in CategoryBudgetRecord /\ k \in Users \X CategoryNames /\ k[1] = u
    BY <1>2, <2>1, RecordsConstants DEF CategoryBudgetRecord, Records!SetCategoryBudget
  <2>3. /\ CategoryBudget' = Records!Stored(CategoryBudget, k, v)
        /\ BudgetUsers' = BudgetUsers \cup {u} /\ UNCHANGED overdraftAdmin
    BY <1>2, <2>1 DEF Records!SetCategoryBudget
  <2>4. /\ CategoryBudget' \in [DOMAIN CategoryBudget' -> CategoryBudgetRecord]
        /\ DOMAIN CategoryBudget' = DOMAIN CategoryBudget \cup {k}
    BY <2>2, <2>3 DEF Records!Stored, OverdraftInv
  <2>5. k \in BudgetUsers' \X CategoryNames
    BY <2>1, <2>3
  <2> QED
    BY <2>3, <2>4, <2>5 DEF OverdraftInv
<1>3. ASSUME NEW u \in Users, NEW n \in CategoryNames, NEW a \in RecordedAmounts,
             Records!ValidateTransaction(u, n, a)
      PROVE  OverdraftInv'
  BY <1>3, RecordsConstants, SpentStep DEF Records!ValidateTransaction
<1>4. ASSUME NEW c \in Users, NEW u \in Users, NEW n \in CategoryNames, NEW a \in RecordedAmounts,
             Records!RecordSpending(c, u, n, a)
      PROVE  OverdraftInv'
  BY <1>4, RecordsConstants, SpentStep DEF Records!RecordSpending
<1>5. ASSUME NEW c \in Users, NEW u \in Users, Records!ResetSpending(c, u)
      PROVE  OverdraftInv'
  <2>1. \A v \in CategoryBudgetRecord : [v EXCEPT !.spent = 0] \in CategoryBudgetRecord
    BY RecordsConstants DEF CategoryBudgetRecord
  <2>2. /\ CategoryBudget' = [k \in DOMAIN CategoryBudget |->
             IF k[1] = u THEN [CategoryBudget[k] EXCEPT !.spent = 0] ELSE CategoryBudget[k]]
        /\ UNCHANGED <<overdraftAdmin, BudgetUsers>>
    BY <1>5 DEF Records!ResetSpending
  <2>3. CategoryBudget' \in [DOMAIN CategoryBudget -> CategoryBudgetRecord]
    BY <2>1, <2>2 DEF OverdraftInv
  <2> QED
    BY <2>2, <2>3 DEF OverdraftInv
<1> QED
  BY <1>1, <1>2, <1>3, <1>4, <1>5, UserBudgetStep DEF Records!Overdrawing

\* What was admitted before each second is known.
LEMMA AdmittedTyped ==
  ASSUME RateTyped
  PROVE  \A s \in 0..rateTime : admittedBefore[s + 1] \in [Users -> Nat]
<1>1. PICK F, f : F = [Users -> Nat] /\ f = admittedBefore
  OBVIOUS
<1>2. f \in Seq(F) /\ Len(f) = rateTime + 1 /\ rateTime \in Nat
  BY <1>1, RecordsConstants DEF RateTyped
<1>3. \A s \in 0..rateTime : s + 1 \in 1..Len(f)
  BY <1>2
<1>4. \A i \in 1..Len(f) : f[i] \in F
  BY <1>2
<1> QED
  BY <1>1, <1>3, <1>4

\* An admitted call is one more in its window and one more since any second.
LEMMA CheckStep ==
  ASSUME RateInv, NEW u \in Users, Records!CheckAndRecord(u)
  PROVE  RateInv'
<1> DEFINE since(v, s) == CallsSince(admitted, admittedBefore, v, s)
           later(v, s) == CallsSince(admitted', admittedBefore', v, s)
           count(v, s) == CountIn(RateLimitCount, v, s)
           more(v, s) == CountIn(RateLimitCount', v, s)
<1>1. RateTyped /\ CountsWithin(RateLimitCount, admitted, admittedBefore, rateTime)
  BY DEF RateInv
<1>2. PICK n, start : start = Records!Window /\ n = Records!CountAt(<<u, start>>)
  OBVIOUS
<1>3. /\ Records!Rate.window # 0 /\ Records!Admitted(n)
      /\ RateLimitCount' = Records!Stored(RateLimitCount, <<u, start>>, n + 1)
      /\ admitted' = [admitted EXCEPT ![u] = @ + 1]
      /\ UNCHANGED <<RateConfig, rateTime, admittedBefore, configured>>
  BY <1>2 DEF Records!CheckAndRecord
<1>4. n \in Nat /\ n = count(u, start) /\ start \in 0..rateTime /\ rateTime \in Nat
  BY <1>1, <1>2, <1>3, WindowType, RecordsConstants DEF RateTyped, Records!CountAt, CountIn
<1>5. PICK k : k = <<u, start>> /\ k \in Users \X (0..rateTime)
  <2>1. <<u, start>> \in Users \X (0..rateTime)
    BY <1>4
  <2> QED
    BY <2>1, Zenon
<1>6. /\ RateLimitCount' \in [DOMAIN RateLimitCount' -> Nat] /\ RateLimitCount'[k] = n + 1
      /\ DOMAIN RateLimitCount' = DOMAIN RateLimitCount \cup {k}
      /\ \A x \in DOMAIN RateLimitCount : x # k => RateLimitCount'[x] = RateLimitCount[x]
  BY <1>1, <1>3, <1>4, <1>5 DEF Records!Stored, RateTyped
<1>7. /\ admitted' \in [Users -> Nat] /\ admitted'[u] = admitted[u] + 1
      /\ \A v \in Users : v # u => admitted'[v] = admitted[v]
      /\ \A v \in Users : admitted[v] \in Nat
  BY <1>1, <1>3 DEF RateTyped
<1>8. RateTyped'
  <2>1. DOMAIN RateLimitCount' \subseteq Users \X (0..rateTime')
    BY <1>1, <1>3, <1>5, <1>6 DEF RateTyped
  <2> QED
    BY <1>1, <1>3, <1>6, <1>7, <2>1 DEF RateTyped
<1>9. \A v \in Users : \A s \in 0..rateTime :
        /\ since(v, s) \in Int
        /\ later(v, s) = IF v = u THEN since(v, s) + 1 ELSE since(v, s)
  <2>1. \A v \in Users : \A s \in 0..rateTime : admittedBefore[s + 1][v] \in Nat
    BY <1>1, AdmittedTyped
  <2> QED
    BY <1>3, <1>7, <2>1 DEF CallsSince
<1>10. \A v \in Users : \A s \in 0..rateTime :
         /\ count(v, s) \in Nat
         /\ more(v, s) = IF v = u /\ s = start THEN n + 1 ELSE count(v, s)
  <2> SUFFICES ASSUME NEW v \in Users, NEW s \in 0..rateTime
               PROVE  /\ count(v, s) \in Nat
                      /\ more(v, s) = IF v = u /\ s = start THEN n + 1 ELSE count(v, s)
    OBVIOUS
  <2>1. count(v, s) \in Nat
    BY <1>1 DEF CountIn, RateTyped
  <2>2. CASE v = u /\ s = start
    BY <1>5, <1>6, <2>1, <2>2 DEF CountIn
  <2>3. CASE ~(v = u /\ s = start)
    <3>1. <<v, s>> # k
      BY <1>5, <2>3
    <3> QED
      BY <1>6, <2>1, <2>3, <3>1 DEF CountIn
  <2> QED
    BY <2>1, <2>2, <2>3
<1>11. \A v \in Users : \A s \in 0..rateTime : count(v, s) <= since(v, s)
  BY <1>1 DEF CountsWithin
<1> HIDE DEF since, later, count, more
<1>12. \A v \in Users : \A s \in 0..rateTime : more(v, s) <= later(v, s)
  BY <1>4, <1>9, <1>10, <1>11
<1>13. CountsWithin(RateLimitCount', admitted', admittedBefore', rateTime')
  BY <1>3, <1>12 DEF CountsWithin, more, later
<1>14. Records!Rate' = Records!Rate /\ Records!Window' = start
  BY <1>2, <1>3 DEF Records!Rate, Records!Window
<1>15. ASSUME configured < start
       PROVE  CountsAll(RateLimitCount', admitted', admittedBefore', start, Records!Rate.max_tx)
  <2>1. \A v \in Users : count(v, start) = since(v, start) /\ since(v, start) <= Records!Rate.max_tx
    BY <1>2, <1>3, <1>15 DEF RateInv, CountsAll, count, since
  <2>2. n < Records!Rate.max_tx /\ Records!Rate.max_tx \in Nat
    BY <1>1, <1>3, RateType DEF Records!Admitted, Records!RateSettings
  <2>3. \A v \in Users : more(v, start) = later(v, start) /\ later(v, start) <= Records!Rate.max_tx
    BY <1>4, <1>9, <1>10, <2>1, <2>2
  <2> QED
    BY <2>3 DEF CountsAll, more, later
<1> QED
  BY <1>3, <1>8, <1>13, <1>14, <1>15 DEF RateInv

\* A second passes: a window that starts now has no call yet.
LEMMA SecondStep ==
  ASSUME RateInv, Records!CloseLedger
  PROVE  RateInv'
<1> DEFINE since(v, s) == CallsSince(admitted, admittedBefore, v, s)
           later(v, s) == CallsSince(admitted', admittedBefore', v, s)
           count(v, s) == CountIn(RateLimitCount, v, s)
<1>1. RateTyped /\ CountsWithin(RateLimitCount, admitted, admittedBefore, rateTime)
  BY DEF RateInv
<1>2. /\ rateTime < RecordsMaxTime /\ rateTime' = rateTime + 1
      /\ admittedBefore' = Append(admittedBefore, admitted)
      /\ UNCHANGED <<RateConfig, RateLimitCount, admitted, configured>>
  BY DEF Records!CloseLedger
<1>3. PICK t \in Nat : t = rateTime /\ RecordsMaxTime \in Nat
  BY <1>1, RecordsConstants DEF RateTyped
<1>4. /\ admittedBefore' \in Seq([Users -> Nat]) /\ Len(admittedBefore') = t + 2
      /\ admittedBefore'[t + 2] = admitted
      /\ \A i \in 1..(t + 1) : admittedBefore'[i] = admittedBefore[i]
  <2>1. PICK F, f, g, x : /\ F = [Users -> Nat] /\ f = admittedBefore /\ x = admitted
                          /\ g = admittedBefore'
    OBVIOUS
  <2>2. f \in Seq(F) /\ x \in F /\ Len(f) = t + 1 /\ g = Append(f, x)
    BY <1>1, <1>2, <1>3, <2>1 DEF RateTyped
  <2>3. g \in Seq(F) /\ Len(g) = t + 2 /\ g[t + 2] = x /\ \A i \in 1..(t + 1) : g[i] = f[i]
    BY <2>2
  <2> QED
    BY <2>1, <2>3
<1>5. RateTyped'
  <2>1. /\ rateTime' \in 0..RecordsMaxTime /\ 0..rateTime \subseteq 0..rateTime'
        /\ Len(admittedBefore') = rateTime' + 1
        /\ configured' \in Int /\ configured' <= rateTime'
    BY <1>1, <1>2, <1>3, <1>4 DEF RateTyped
  <2>2. DOMAIN RateLimitCount' \subseteq Users \X (0..rateTime')
    BY <1>1, <1>2, <2>1 DEF RateTyped
  <2> QED
    BY <1>1, <1>2, <1>4, <2>1, <2>2 DEF RateTyped
<1>6. \A u \in Users : \A s \in 0..t : later(u, s) = since(u, s)
  <2>1. \A s \in 0..t : s + 1 \in 1..(t + 1)
    BY <1>3
  <2> QED
    BY <1>2, <1>4, <2>1 DEF CallsSince
<1>7. \A u \in Users : later(u, t + 1) = 0 /\ count(u, t + 1) = 0
  <2>1. \A u \in Users : admitted[u] \in Nat
    BY <1>1 DEF RateTyped
  <2>2. (t + 1) + 1 = t + 2 /\ t + 1 \notin 0..t
    BY <1>3
  <2>3. \A u \in Users : <<u, t + 1>> \notin DOMAIN RateLimitCount
    BY <1>1, <1>3, <2>2 DEF RateTyped
  <2>4. \A u \in Users : count(u, t + 1) = 0
    BY <2>3 DEF CountIn
  <2>5. \A u \in Users : later(u, t + 1) = 0
    BY <1>2, <1>4, <2>1, <2>2 DEF CallsSince
  <2> QED
    BY <2>4, <2>5
<1>8. \A u \in Users : \A s \in 0..t : count(u, s) <= since(u, s)
  BY <1>1, <1>3 DEF CountsWithin
<1> HIDE DEF since, later, count
<1>9. \A u \in Users : \A s \in 0..(t + 1) : count(u, s) <= later(u, s)
  <2>1. \A s \in 0..(t + 1) : s = t + 1 \/ s \in 0..t
    BY <1>3
  <2> QED
    BY <1>6, <1>7, <1>8, <2>1
<1>10. CountsWithin(RateLimitCount', admitted', admittedBefore', rateTime')
  BY <1>2, <1>3, <1>9 DEF CountsWithin, count, later
<1>11. Records!Rate' = Records!Rate /\ Records!Rate \in Records!RateSettings
  BY <1>1, <1>2, RateType DEF Records!Rate
<1>12. ASSUME Records!Rate.window # 0, NEW b, b = Records!Window', configured < b
       PROVE  CountsAll(RateLimitCount', admitted', admittedBefore', b, Records!Rate.max_tx)
  <2>1. PICK w \in Nat \ {0} : w = Records!Rate.window
    BY <1>11, <1>12 DEF Records!RateSettings
  <2>2. b = Records!Window \/ b = t + 1
    BY <1>2, <1>3, <1>11, <1>12, <2>1, WindowMoves DEF Records!Window
  <2>3. ASSUME b = t + 1
        PROVE  \A u \in Users : count(u, b) = later(u, b) /\ later(u, b) <= Records!Rate.max_tx
    BY <1>7, <1>11, <2>3 DEF Records!RateSettings
  <2>4. ASSUME b = Records!Window
        PROVE  \A u \in Users : count(u, b) = later(u, b) /\ later(u, b) <= Records!Rate.max_tx
    <3>1. b \in 0..t
      BY <1>1, <1>3, <1>12, <2>4, WindowType
    <3>2. \A u \in Users : count(u, b) = since(u, b) /\ since(u, b) <= Records!Rate.max_tx
      BY <1>12, <2>4 DEF RateInv, CountsAll, count, since
    <3> QED
      BY <1>6, <3>1, <3>2
  <2>5. \A u \in Users : count(u, b) = later(u, b) /\ later(u, b) <= Records!Rate.max_tx
    BY <2>2, <2>3, <2>4
  <2> QED
    BY <1>2, <2>5 DEF CountsAll, count, later
<1> QED
  BY <1>2, <1>5, <1>10, <1>11, <1>12 DEF RateInv

LEMMA RateLimitingStep ==
  ASSUME RateInv, Records!RateLimiting
  PROVE  RateInv'
<1>1. ASSUME NEW c \in RateConfigs, Records!SetConfig(c)
      PROVE  RateInv'
  <2>1. /\ RateConfig' = c /\ configured' = rateTime
        /\ UNCHANGED <<RateLimitCount, rateTime, admitted, admittedBefore>>
    BY <1>1 DEF Records!SetConfig
  <2>2. RateTyped'
    BY <2>1, RecordsConstants DEF RateTyped, RateInv
  <2>3. CountsWithin(RateLimitCount', admitted', admittedBefore', rateTime')
    BY <2>1 DEF RateInv
  <2>4. Records!Rate'.window # 0 => Records!Window' \in 0..rateTime'
    BY <2>2, WindowTypeNext
  <2>5. Records!Rate'.window # 0 => ~(configured' < Records!Window')
    BY <2>1, <2>2, <2>4 DEF RateTyped
  <2> QED
    BY <2>2, <2>3, <2>5 DEF RateInv
<1> QED
  BY <1>1, CheckStep, SecondStep DEF Records!RateLimiting

------------------------------------------------------------------------------
\* The two modules of links and spending records in a step of the group; they share
\* no variable with the others.

LEMMA VerifiedStays ==
  ASSUME VerifiedInv, UNCHANGED <<walletAdmin, LinkedWallet, WalletOwner, VerificationStatus,
                                  VerificationChallenge, prover, sequence, walletTime>>
  PROVE  VerifiedInv'
BY DEF VerifiedInv

LEMMA LinksStay ==
  ASSUME LinksInv, UNCHANGED <<linkOwner, UserWallets>>
  PROVE  LinksInv'
BY DEF LinksInv, Wallets!LinksAgree

LEMMA ProfilesStay ==
  ASSUME ProfilesInv, UNCHANGED <<profileAdmin, Profile, TotalProfiles>>
  PROVE  ProfilesInv'
BY DEF ProfilesInv

LEMMA DelegationsStay ==
  ASSUME DelegationsInv, UNCHANGED <<delegated, granted>>
  PROVE  DelegationsInv'
BY DEF DelegationsInv

LEMMA WalletsStep ==
  ASSUME WalletsInv, [Next]_vars
  PROVE  WalletsInv'
<1>1. VerifiedInv /\ LinksInv /\ ProfilesInv /\ DelegationsInv
  BY DEF WalletsInv
<1>2. CASE UNCHANGED walletVars
  BY <1>1, <1>2, VerifiedStays, LinksStay, ProfilesStay, DelegationsStay DEF walletVars, WalletsInv
<1>3. CASE Wallets!Verifying
  <2>1. UNCHANGED <<linkOwner, UserWallets, profileAdmin, Profile, TotalProfiles, delegated,
                    granted>>
    BY <1>3 DEF Wallets!Verifying, Wallets!linkVars, Wallets!profileVars,
                Wallets!delegationVars
  <2> QED
    BY <1>1, <1>3, <2>1, VerifyingStep, LinksStay, ProfilesStay, DelegationsStay DEF WalletsInv
<1>4. CASE Wallets!Linking
  <2>1. UNCHANGED <<walletAdmin, LinkedWallet, WalletOwner, VerificationStatus,
                    VerificationChallenge, prover, sequence, walletTime, profileAdmin, Profile,
                    TotalProfiles, delegated, granted>>
    BY <1>4 DEF Wallets!Linking, Wallets!verifiedVars, Wallets!profileVars, Wallets!clock,
                Wallets!delegationVars
  <2>2. LinksInv'
    BY <1>1, <1>4, OwnLinkStep, OwnUnlinkStep DEF Wallets!Linking
  <2> QED
    BY <1>1, <2>1, <2>2, VerifiedStays, ProfilesStay, DelegationsStay DEF WalletsInv
<1>5. CASE Wallets!Profiling
  <2>1. UNCHANGED <<walletAdmin, LinkedWallet, WalletOwner, VerificationStatus,
                    VerificationChallenge, prover, sequence, walletTime, linkOwner, UserWallets,
                    delegated, granted>>
    BY <1>5 DEF Wallets!Profiling, Wallets!verifiedVars, Wallets!linkVars, Wallets!clock,
                Wallets!delegationVars
  <2> QED
    BY <1>1, <1>5, <2>1, VerifiedStays, LinksStay, ProfilingStep, DelegationsStay DEF WalletsInv
<1>6. CASE Wallets!Delegating
  <2>1. UNCHANGED <<walletAdmin, LinkedWallet, WalletOwner, VerificationStatus,
                    VerificationChallenge, prover, sequence, walletTime, linkOwner, UserWallets,
                    profileAdmin, Profile, TotalProfiles>>
    BY <1>6 DEF Wallets!Delegating, Wallets!verifiedVars, Wallets!linkVars,
                Wallets!profileVars, Wallets!clock
  <2> QED
    BY <1>1, <1>6, <2>1, VerifiedStays, LinksStay, ProfilesStay, DelegatingStep DEF WalletsInv
<1>7. \/ UNCHANGED walletVars \/ Wallets!Verifying \/ Wallets!Linking \/ Wallets!Profiling
      \/ Wallets!Delegating
  <2>1. CASE UNCHANGED vars
    BY <2>1 DEF vars
  <2>2. CASE Next
    BY <2>2 DEF Next, walletFoci
  <2> QED
    BY <2>1, <2>2
<1> QED
  BY <1>2, <1>3, <1>4, <1>5, <1>6, <1>7

LEMMA CategoriesStay ==
  ASSUME CategoriesInv, UNCHANGED <<categoryAdmin, LastCategoryId, TotalCategories, Category,
                                    CategoryByName, UserCategories>>
  PROVE  CategoriesInv'
BY DEF CategoriesInv, IndexMatches, OwnedMatches

LEMMA OverdraftStays ==
  ASSUME OverdraftInv, UNCHANGED <<overdraftAdmin, CategoryBudget, BudgetUsers>>
  PROVE  OverdraftInv'
BY DEF OverdraftInv

LEMMA RateStays ==
  ASSUME RateInv, UNCHANGED <<RateConfig, RateLimitCount, rateTime, admitted, admittedBefore,
                              configured>>
  PROVE  RateInv'
<1>1. RateTyped'
  BY DEF RateInv, RateTyped
<1>2. Records!Rate' = Records!Rate /\ Records!Window' = Records!Window
  BY DEF Records!Rate, Records!Window
<1> QED
  BY <1>1, <1>2 DEF RateInv

LEMMA SpendingRecordsStep ==
  ASSUME SpendingRecordsInv, [Next]_vars
  PROVE  SpendingRecordsInv'
<1>1. CategoriesInv /\ OverdraftInv /\ RateInv
  BY DEF SpendingRecordsInv
<1>2. CASE UNCHANGED recordVars
  BY <1>1, <1>2, CategoriesStay, OverdraftStays, RateStays DEF recordVars, SpendingRecordsInv
<1>3. CASE Records!Categorizing
  <2>1. UNCHANGED <<overdraftAdmin, CategoryBudget, BudgetUsers, RateConfig, RateLimitCount,
                    rateTime, admitted, admittedBefore, configured>>
    BY <1>3 DEF Records!Categorizing, Records!overdraftVars, Records!rateVars
  <2> QED
    BY <1>1, <1>3, <2>1, CategorizingStep, OverdraftStays, RateStays DEF SpendingRecordsInv
<1>4. CASE Records!Overdrawing
  <2>1. UNCHANGED <<categoryAdmin, LastCategoryId, TotalCategories, Category, CategoryByName,
                    UserCategories, RateConfig, RateLimitCount, rateTime, admitted,
                    admittedBefore, configured>>
    BY <1>4 DEF Records!Overdrawing, Records!categoryVars, Records!rateVars
  <2> QED
    BY <1>1, <1>4, <2>1, CategoriesStay, OverdrawingStep, RateStays DEF SpendingRecordsInv
<1>5. CASE Records!RateLimiting
  <2>1. UNCHANGED <<categoryAdmin, LastCategoryId, TotalCategories, Category, CategoryByName,
                    UserCategories, overdraftAdmin, CategoryBudget, BudgetUsers>>
    BY <1>5 DEF Records!RateLimiting, Records!categoryVars, Records!overdraftVars
  <2> QED
    BY <1>1, <1>5, <2>1, CategoriesStay, OverdraftStays, RateLimitingStep DEF SpendingRecordsInv
<1>6. \/ UNCHANGED recordVars \/ Records!Categorizing \/ Records!Overdrawing
      \/ Records!RateLimiting
  <2>1. CASE UNCHANGED vars
    BY <2>1 DEF vars
  <2>2. CASE Next
    BY <2>2 DEF Next, recordFoci
  <2> QED
    BY <2>1, <2>2
<1> QED
  BY <1>2, <1>3, <1>4, <1>5, <1>6

------------------------------------------------------------------------------
\* The contracts together.  A contract that the behaviour does not exercise keeps
\* its variables.

LEMMA ThrottlingStays ==
  ASSUME ThrottlingInv, UNCHANGED <<timestamp, Admin, throttlingVars>>
  PROVE  ThrottlingInv'
<1>1. UNCHANGED <<WalletThrottleState, ThrottledWallets, ThrottleConfig, Stats, Admin, timestamp>>
  BY DEF throttlingVars
<1>2. Throttling!ListMatches'
  BY <1>1, SameBlocks
<1>3. Throttling!TypeOK'
  BY <1>1 DEF ThrottlingInv, Throttling!TypeOK, Throttling!ValidConfig
<1> QED
  BY <1>1, <1>2, <1>3 DEF ThrottlingInv

LEMMA LimitsStay ==
  ASSUME LimitsInv, UNCHANGED <<timestamp, limitsVars>>
  PROVE  LimitsInv'
<1>1. UNCHANGED <<LimitsConfig, SpendingLimit, HourlySpending, DailySpending, MonthlySpending,
                  ApprovedCategories, ExceptionRule, Whitelist, timestamp>>
  BY DEF limitsVars
<1>2. SpendingLimits!WindowsNest'
  BY <1>1 DEF LimitsInv, SpendingLimits!WindowsNest
<1>3. SpendingLimits!TypeOK'
  BY <1>1 DEF LimitsInv, SpendingLimits!TypeOK
<1> QED
  BY <1>1, <1>2, <1>3 DEF LimitsInv

LEMMA StellarFeeStays ==
  ASSUME StellarFeeInv, UNCHANGED <<Admin, stellarVars>>
  PROVE  StellarFeeInv'
<1>1. UNCHANGED <<FeeConfig, PriorityFeeConfig, FeeBounds, AssetFeeConfig, AssetFeesCollected,
                  UserAssetFeesAccrued, FeeLog, feeTotal, feeUsers, Admin>>
  BY DEF stellarVars
<1>2. StellarSettings'
  BY <1>1, SameSettings DEF StellarFeeInv, StellarFee!config
<1> QED
  BY <1>1, <1>2 DEF StellarFeeInv, StellarBooks, StellarLog, UserAssetFees

RecordsInv ==
  /\ focus = "limits" => LimitsInv
  /\ focus = "throttling" => ThrottlingInv
  /\ focus = "stellar fee" => StellarFeeInv

LEMMA RecordsStep ==
  ASSUME RecordsInv, [Next]_vars
  PROVE  RecordsInv'
<1>1. CASE UNCHANGED vars
  <2>1. UNCHANGED <<focus, timestamp, Admin, limitsVars, throttlingVars, stellarVars>>
    BY <1>1 DEF vars
  <2> QED
    BY <2>1, ThrottlingStays, LimitsStay, StellarFeeStays DEF RecordsInv
<1>2. CASE Next
  <2>1. focus' = focus
    BY <1>2 DEF Next
  <2>2. ASSUME focus = "limits" PROVE LimitsInv'
    <3>1. SpendingLimits!Next /\ LimitsInv
      BY <1>2, <2>2 DEF Next, RecordsInv
    <3> QED
      BY <3>1, LimitsStep, ControlsAssumption
  <2>3. ASSUME focus = "throttling" PROVE ThrottlingInv'
    <3>1. Throttling!Next /\ ThrottlingInv
      BY <1>2, <2>3 DEF Next, RecordsInv
    <3> QED
      BY <3>1, ThrottlingStep, ControlsAssumption
  <2>4. ASSUME focus = "stellar fee" PROVE StellarFeeInv'
    <3>1. StellarFee!Next /\ StellarFeeInv
      BY <1>2, <2>4 DEF Next, RecordsInv
    <3> QED
      BY <3>1, StellarFeeStep, ControlsAssumption
  <2> QED
    BY <2>1, <2>2, <2>3, <2>4 DEF RecordsInv
<1> QED
  BY <1>1, <1>2

\* The records kept twice agree in every state, whatever the calls and the constants:
\* a day's spending is that of its hours and a month's that of its days
\* (`spending_limits.rs`), the list of blocked wallets names the blocked ones once
\* (`throttling.rs`), no fee is in one book and not in the other, and a fallback
\* leaves the payer something that is not negative (`stellarspend-fee`); a wallet's
\* status is that of its link (`wallet.rs`), a linked wallet is listed once, by its
\* owner (`wallet_linking.rs`), and categories are found by exactly the names they
\* have (`spending-categories`).
THEOREM RecordsAgreeAlways == Spec => []RecordsAgree
<1>1. Init => RecordsInv
  BY LimitsStart, ThrottlingStart, StellarFeeStart, ControlsAssumption DEF Init, RecordsInv
<1>2. RecordsInv /\ [Next]_vars => RecordsInv'
  BY RecordsStep
<1>3. Init => WalletsInv /\ SpendingRecordsInv
  BY WalletsStart, SpendingRecordsStart DEF Init
<1>4. WalletsInv /\ SpendingRecordsInv /\ [Next]_vars => (WalletsInv /\ SpendingRecordsInv)'
  BY WalletsStep, SpendingRecordsStep
<1>5. RecordsInv /\ WalletsInv /\ SpendingRecordsInv => RecordsAgree
  <2> SUFFICES ASSUME RecordsInv, WalletsInv, SpendingRecordsInv PROVE RecordsAgree
    OBVIOUS
  <2>1. /\ focus = "limits" => SpendingLimits!WindowsNest
        /\ focus = "throttling" => Throttling!ListMatches
        /\ focus = "stellar fee" => StellarFee!BooksAgree /\ StellarFee!FallbackLeavesNet
    BY StellarFeeParts, ControlsAssumption DEF RecordsInv, LimitsInv, ThrottlingInv
  <2>2. Wallets!StatusAgrees /\ Wallets!LinksAgree /\ Records!NamesAgree
    BY WalletsParts, NamesParts DEF SpendingRecordsInv
  <2> QED
    BY <2>1, <2>2 DEF RecordsAgree
<1> QED
  BY <1>1, <1>2, <1>3, <1>4, <1>5, PTL DEF Spec

\* While another contract is exercised, no wallet was ever throttled.
BlocksInv ==
  IF focus = "throttling" THEN ThrottlingInv
  ELSE WalletThrottleState = [u \in Users |-> Unset]

LEMMA SameStates ==
  ASSUME WalletThrottleState = [u \in Users |-> Unset], UNCHANGED WalletThrottleState,
         NEW u \in Users
  PROVE  BlockKept(u)
BY DEF BlockKept, Throttling!StateOf, Throttling!Fresh

\* Nothing gets through a block before its end, and in a window no wallet gets more
\* through than its limit, unless the administrator intervenes (`throttling.rs`).
THEOREM BlocksHoldAlways == Spec => BlocksHold
<1>1. Init => BlocksInv
  BY ThrottlingStart DEF Init, BlocksInv, Throttling!Init
<1>2. BlocksInv /\ [Next]_vars => BlocksInv'
  <2> SUFFICES ASSUME BlocksInv, [Next]_vars PROVE BlocksInv'
    OBVIOUS
  <2>1. CASE UNCHANGED vars
    <3>1. UNCHANGED <<focus, timestamp, Admin, throttlingVars, WalletThrottleState>>
      BY <2>1 DEF vars, throttlingVars
    <3> QED
      BY <3>1, ThrottlingStays DEF BlocksInv
  <2>2. CASE Next /\ focus = "throttling"
    BY <2>2, ThrottlingStep, ControlsAssumption DEF Next, BlocksInv
  <2>3. CASE Next /\ focus # "throttling"
    BY <2>3 DEF Next, BlocksInv, throttlingVars
  <2> QED
    BY <2>1, <2>2, <2>3
<1>3. BlocksInv /\ [Next]_vars => [\A u \in Users : BlockKept(u)]_Throttling!vars
  <2> SUFFICES ASSUME BlocksInv, Next, NEW u \in Users
               PROVE  BlockKept(u)
    BY DEF vars, Throttling!vars, throttlingVars
  <2>1. CASE focus = "throttling"
    BY <2>1, BlockStep, ControlsAssumption DEF Next, BlocksInv
  <2>2. CASE focus # "throttling"
    BY <2>2, SameStates DEF Next, BlocksInv, throttlingVars
  <2> QED
    BY <2>1, <2>2
<1> QED
  BY <1>1, <1>2, <1>3, PTL DEF Spec, BlocksHold, Throttling!NothingThroughABlock, BlockKept

\* A wallet that is verified is linked, and whoever signed its last verification owns it
\* now (`wallet.rs`); what a delegate used since the last revocation is no more than the
\* highest limit granted since (`delegation.rs`); and a window's count holds only its own
\* calls, and all of them, within the limit, unless the settings changed in the window
\* (`rate_limit.rs`).
THEOREM PermissionsHoldAlways == Spec => []PermissionsHold
<1>1. Init => WalletsInv /\ SpendingRecordsInv
  BY WalletsStart, SpendingRecordsStart DEF Init
<1>2. WalletsInv /\ SpendingRecordsInv /\ [Next]_vars => (WalletsInv /\ SpendingRecordsInv)'
  BY WalletsStep, SpendingRecordsStep
<1>3. WalletsInv /\ SpendingRecordsInv => PermissionsHold
  <2>1. RateInv => Records!WindowsHoldTheirCalls
    <3> SUFFICES ASSUME RateInv, Records!Rate.window # 0, NEW b, b = Records!Window,
                        NEW u \in Users
                 PROVE  /\ Records!CountAt(<<u, b>>) <= Records!AdmittedSince(u, b)
                        /\ configured < b =>
                             /\ Records!CountAt(<<u, b>>) = Records!AdmittedSince(u, b)
                             /\ Records!AdmittedSince(u, b) <= Records!Rate.max_tx
      BY DEF Records!WindowsHoldTheirCalls
    <3>1. b \in 0..rateTime
      BY WindowType DEF RateInv
    <3>2. /\ Records!CountAt(<<u, b>>) = CountIn(RateLimitCount, u, b)
          /\ Records!AdmittedSince(u, b) = CallsSince(admitted, admittedBefore, u, b)
      BY DEF Records!CountAt, CountIn, Records!AdmittedSince, CallsSince
    <3> QED
      BY <3>1, <3>2 DEF RateInv, CountsWithin, CountsAll
  <2> QED
    BY <2>1, WalletsParts DEF PermissionsHold, SpendingRecordsInv
<1> QED
  BY <1>1, <1>2, <1>3, PTL DEF Spec

------------------------------------------------------------------------------
\* The fees contract: settings, and what a payment costs.

FeesSettings == [percentage : Nat, rounding : {"Floor", "Round", "Ceiling"},
                 bounds : StellarBounds \cup {Unset}, priority : [Priorities -> Nat]]
TreasurySettings == [address : Treasuries, percentage : Nat]
Recipient == [address : Recipients, share_bps : Nat]

PartOf(recipients) == [i \in DOMAIN recipients |-> recipients[i].share_bps]

GoodSettings(s) ==
  /\ s \in FeesSettings /\ Fees!Ascending(s.priority) /\ s.percentage <= 10000
  /\ s.bounds # Unset => s.bounds.min >= 0 /\ s.bounds.max >= s.bounds.min

FeesConfigOK ==
  /\ Admin \in FeesUsers \cup {Unset}
  /\ GoodSettings(Settings)
  /\ Treasury # Unset => Treasury \in TreasurySettings /\ Treasury.percentage <= 10000
  /\ FeeDistribution # Unset =>
       /\ FeeDistribution \in Seq(Recipient)
       /\ Total(PartOf(FeeDistribution), DOMAIN FeeDistribution) = 10000
  /\ FeeCategoryMap \in [FeesUsers -> FeeCategories]

\* What every contract's steps keep of the accounts of this one.
FeesNumbers ==
  /\ TotalFeesCollected \in Int /\ TotalTreasuryFees \in Nat
  /\ UserFeesAccrued \in [FeesUsers -> Nat] /\ EscrowedFees \in [FeesUsers -> Nat]
  /\ RecipientFeesAccumulated \in [Recipients -> Int]

FeesAccounts ==
  /\ FeesNumbers
  /\ CategoryFees \in [FeeCategories -> Nat] /\ TreasuryFees \in [Treasuries -> Int]
  /\ TotalTreasuryFees = Total(TreasuryFees, Treasuries)
  /\ Admin = Unset => TotalFeesCollected = 0

FeesInv == FeesConfigOK /\ FeesAccounts

LEMMA FeesConstants ==
  ASSUME Fees!FeesAssumption
  PROVE  /\ IsFiniteSet(FeesUsers) /\ IsFiniteSet(Treasuries) /\ IsFiniteSet(Recipients)
         /\ Unset \notin FeesUsers /\ DEFAULT_CATEGORY \in FeeCategories
         /\ Unset \notin StellarBounds /\ Unset \notin TreasurySettings
         /\ Unset \notin Seq(Recipient)
         /\ Percentages \subseteq Nat /\ Multipliers \subseteq [Priorities -> Nat]
         /\ DefaultMultipliers \in [Priorities -> Nat] /\ Fees!Ascending(DefaultMultipliers)
         /\ FeesBounds \subseteq StellarBounds /\ FeesAmounts \subseteq Int
         /\ Distributions \subseteq Seq(Recipient)
         /\ Fees!BPS = 10000 /\ DEFAULT_CATEGORY \in FeeCategories
<1>1. /\ Fees!IsFiniteSet(FeesUsers) = IsFiniteSet(FeesUsers)
      /\ Fees!IsFiniteSet(Treasuries) = IsFiniteSet(Treasuries)
      /\ Fees!IsFiniteSet(Recipients) = IsFiniteSet(Recipients)
  BY DEF Fees!IsFiniteSet, IsFiniteSet
<1> QED
  BY <1>1 DEF Fees!FeesAssumption, Fees!BPS, StellarBounds, TreasurySettings, Recipient

LEMMA FeesSums ==
  /\ Fees!UserTotal = Total(UserFeesAccrued, DOMAIN UserFeesAccrued)
  /\ Fees!UserTotal' = Total(UserFeesAccrued', DOMAIN UserFeesAccrued')
  /\ Fees!Books = TotalFeesCollected + TotalTreasuryFees + Total(EscrowedFees, DOMAIN EscrowedFees)
                    + Total(RecipientFeesAccumulated, DOMAIN RecipientFeesAccumulated)
  /\ Fees!Books' =
       TotalFeesCollected' + TotalTreasuryFees' + Total(EscrowedFees', DOMAIN EscrowedFees')
         + Total(RecipientFeesAccumulated', DOMAIN RecipientFeesAccumulated')
BY DEF Fees!UserTotal, Fees!Books, Fees!FoldFunction, Fees!FoldFunctionOnSet,
       Fees!MapThenFoldSet, Total, IsTotal, Choice

LEMMA ShareSumIsTotal ==
  ASSUME NEW d
  PROVE  Fees!ShareSum(d) = Total(PartOf(d), DOMAIN d)
BY DEF Fees!ShareSum, PartOf, Fees!FoldFunction, Fees!FoldFunctionOnSet,
       Fees!MapThenFoldSet, Total, IsTotal, Choice

LEMMA GetsIsTotal ==
  ASSUME NEW a
  PROVE  Fees!GetsFrom(a) = Total(Fees!Shares, Fees!SharesOf(a))
BY DEF Fees!GetsFrom, Fees!FoldFunctionOnSet, Fees!MapThenFoldSet, Total, IsTotal, Choice

LEMMA RoundedType ==
  ASSUME FeesConfigOK, Fees!BPS = 10000, NEW raw \in Nat
  PROVE  Fees!Rounded(raw) \in Nat
<1>1. Settings.rounding \in {"Floor", "Round", "Ceiling"}
  BY DEF FeesConfigOK, GoodSettings, FeesSettings
<1>2. /\ raw \div 10000 \in Nat /\ (raw + 10000 \div 2) \div 10000 \in Nat
      /\ (raw + 10000 - 1) \div 10000 \in Nat
  OBVIOUS
<1> QED
  BY <1>1, <1>2 DEF Fees!Rounded

LEMMA FeeAtType ==
  ASSUME FeesConfigOK, Fees!BPS = 10000, NEW n \in Nat, NEW rate \in Nat
  PROVE  Fees!FeeAt(n, rate) \in Nat
<1>1. PICK raw \in Nat : raw = n * rate
  OBVIOUS
<1>2. PICK fee \in Nat : fee = Fees!Rounded(n * rate)
  BY <1>1, RoundedType
<1>3. Settings.bounds # Unset =>
        /\ Settings.bounds.min \in Int /\ Settings.bounds.max \in Int
        /\ Settings.bounds.min >= 0 /\ Settings.bounds.max >= Settings.bounds.min
  BY DEF FeesConfigOK, GoodSettings, FeesSettings, StellarBounds
<1> QED
  BY <1>2, <1>3 DEF Fees!FeeAt

LEMMA FeesCostType ==
  ASSUME Fees!FeesAssumption, FeesConfigOK, NEW n \in Nat
  PROVE  /\ Fees!CalculateFee(n) \in Nat
         /\ \A p \in Priorities : Fees!CalculateFeeWithPriority(n, p) \in Nat
<1>0. Fees!BPS = 10000
  BY DEF Fees!BPS
<1>1. Settings.percentage \in Nat /\ Settings.priority \in [Priorities -> Nat]
  BY DEF FeesConfigOK, GoodSettings, FeesSettings
<1>2. Fees!CalculateFee(n) \in Nat
  <2>1. PICK r \in Nat : r = Settings.percentage
    BY <1>1
  <2>2. Fees!FeeAt(n, r) \in Nat
    BY <1>0, FeeAtType
  <2> QED
    BY <2>1, <2>2 DEF Fees!CalculateFee
<1>3. ASSUME NEW p \in Priorities
      PROVE  Fees!CalculateFeeWithPriority(n, p) \in Nat
  <2>1. PICK m \in Nat : m = Settings.priority[p]
    BY <1>1
  <2>2. (Settings.percentage * m) \div 10000 \in Nat
    BY <1>1, PortionType
  <2>3. PICK r \in Nat : r = (Settings.percentage * Settings.priority[p]) \div Fees!BPS
    BY <1>0, <2>1, <2>2
  <2>4. Fees!FeeAt(n, r) \in Nat
    BY <1>0, FeeAtType
  <2> QED
    BY <2>3, <2>4 DEF Fees!CalculateFeeWithPriority
<1> QED
  BY <1>2, <1>3

\* The treasury's part of a fee is a part of it.
LEMMA TreasuryPart ==
  ASSUME Fees!FeesAssumption, FeesConfigOK, NEW fee \in Nat
  PROVE  /\ Fees!TreasuryPortion(fee) \in Nat /\ Fees!TreasuryPortion(fee) <= fee
         /\ Fees!Remaining(fee) = fee - Fees!TreasuryPortion(fee)
         /\ Fees!TreasuryPortion(fee) # 0 => Treasury # Unset /\ Treasury.address \in Treasuries
<1>1. CASE Treasury = Unset
  BY <1>1 DEF Fees!TreasuryPortion, Fees!Remaining
<1>2. CASE Treasury # Unset
  <2>1. /\ Treasury.address \in Treasuries
        /\ Treasury.percentage \in Nat /\ Treasury.percentage <= 10000
    BY <1>2 DEF FeesConfigOK, TreasurySettings
  <2>2. PICK p \in Nat : p = Treasury.percentage /\ p <= 10000
    BY <2>1
  <2>3. PICK w \in Nat, m \in Nat : w = fee * p /\ m = fee * 10000 /\ w <= m
    BY <2>2, ProductMonotone
  <2>4. w \div 10000 \in Nat /\ w \div 10000 <= m \div 10000
    BY <2>3, DivMonotone
  <2>5. m \div 10000 = fee
    BY <2>3
  <2>6. Fees!TreasuryPortion(fee) = w \div 10000
    BY <1>2, <2>2, <2>3, FeesConstants DEF Fees!TreasuryPortion
  <2> QED
    BY <1>2, <2>1, <2>4, <2>5, <2>6 DEF Fees!Remaining
<1> QED
  BY <1>1, <1>2

------------------------------------------------------------------------------
\* The fees contract: the accounts.

\* What BooksFollowUsers says of a step.
FeesFollow ==
  \/ UNCHANGED Fees!money
  \/ LET lost == (Fees!UserTotal' - Fees!UserTotal) + Fees!Deposited - (Fees!Books' - Fees!Books)
     IN  /\ lost >= 0
         /\ lost > 0 => /\ lost < Len(FeeDistribution) /\ TotalFeesCollected' = 0
                        /\ UNCHANGED <<Fees!charged, EscrowedFees>>

\* What a step puts into escrow, as a sum over the users.
Raised == [u \in FeesUsers |->
  IF EscrowedFees'[u] > EscrowedFees[u] THEN EscrowedFees'[u] - EscrowedFees[u] ELSE 0]

LEMMA DepositedIsTotal == Fees!Deposited = Total(Raised, FeesUsers)
<1>1. DOMAIN Raised = FeesUsers
  BY DEF Raised
<1>2. Fees!Deposited = Total(Raised, DOMAIN Raised)
  BY DEF Fees!Deposited, Raised, Fees!FoldFunction, Fees!FoldFunctionOnSet,
         Fees!MapThenFoldSet, Total, IsTotal, Choice
<1> QED
  BY <1>1, <1>2

LEMMA NothingDeposited ==
  ASSUME Fees!FeesAssumption, FeesNumbers, FeesNumbers',
         \A u \in FeesUsers : EscrowedFees'[u] <= EscrowedFees[u]
  PROVE  Fees!Deposited = 0
<1>1. \A u \in FeesUsers : Raised[u] = 0
  BY DEF Raised, FeesNumbers
<1>2. IsFiniteSet(FeesUsers)
  BY FeesConstants
<1>3. Total(Raised, FeesUsers) = 0
  BY <1>1, <1>2, TotalOfZeros
<1> QED
  BY <1>3, DepositedIsTotal

\* What is zero everywhere but at one point adds up to what it is there.
LEMMA TotalAtOnePoint ==
  ASSUME NEW S, IsFiniteSet(S), NEW f, NEW j \in S, f[j] \in Int,
         \A x \in S : x # j => f[x] = 0
  PROVE  Total(f, S) = f[j]
<1>1. Total(f, S) = f[j] + Total(f, S \ {j})
  <2>1. \A x \in S : f[x] \in Int
    OBVIOUS
  <2> QED
    BY <2>1, TotalTake
<1>2. IsFiniteSet(S \ {j}) /\ \A x \in S \ {j} : f[x] = 0
  BY FS_Subset
<1>3. Total(f, S \ {j}) = 0
  BY <1>2, TotalOfZeros
<1> QED
  BY <1>1, <1>3

LEMMA OneDeposit ==
  ASSUME Fees!FeesAssumption, FeesNumbers, NEW u \in FeesUsers, NEW fee \in Nat,
         EscrowedFees' = [EscrowedFees EXCEPT ![u] = @ + fee]
  PROVE  Fees!Deposited = fee
<1>1. PICK f : f = Raised
  OBVIOUS
<1>2. f[u] = fee /\ \A v \in FeesUsers : v # u => f[v] = 0
  BY <1>1 DEF Raised, FeesNumbers
<1>3. Total(f, FeesUsers) = f[u]
  BY <1>2, FeesConstants, TotalAtOnePoint
<1> QED
  BY <1>1, <1>2, <1>3, DepositedIsTotal

LEMMA FeesStart ==
  ASSUME Fees!FeesAssumption, Fees!Init
  PROVE  FeesInv
<1>1. Total(TreasuryFees, Treasuries) = 0
  BY FeesConstants, TotalOfZeros DEF Fees!Init
<1>2. GoodSettings(Settings)
  BY FeesConstants DEF Fees!Init, FeesSettings, GoodSettings
<1>3. FeesAccounts
  BY <1>1 DEF Fees!Init, FeesAccounts, FeesNumbers
<1>4. FeesConfigOK
  BY <1>2, FeesConstants DEF Fees!Init, FeesConfigOK
<1> QED
  BY <1>3, <1>4 DEF FeesInv

LEMMA FeesParts ==
  ASSUME Fees!FeesAssumption, FeesInv
  PROVE  Fees!TypeOK
<1>1. TotalTreasuryFees = Total(TreasuryFees, DOMAIN TreasuryFees)
  BY DEF FeesInv, FeesAccounts
<1>2. FeeDistribution # Unset => Fees!ShareSum(FeeDistribution) = Fees!BPS
  BY FeesConstants, ShareSumIsTotal DEF FeesInv, FeesConfigOK
<1>3. Settings.percentage \in 0..Fees!BPS /\ Settings.rounding \in Fees!RoundingModes
  BY FeesConstants DEF FeesInv, FeesConfigOK, GoodSettings, FeesSettings, Fees!RoundingModes
<1> QED
  BY <1>1, <1>2, <1>3
     DEF Fees!TypeOK, FeesInv, FeesConfigOK, GoodSettings, FeesAccounts, FeesNumbers, Fees!FoldFunction,
         Fees!FoldFunctionOnSet, Fees!MapThenFoldSet, Total, IsTotal, Choice

\* The totals before and after a step, as sums over users and recipients.
LEMMA FeesTotals ==
  ASSUME Fees!FeesAssumption, FeesNumbers, FeesNumbers'
  PROVE  /\ Total(UserFeesAccrued, FeesUsers) \in Int /\ Total(EscrowedFees, FeesUsers) \in Int
         /\ Total(RecipientFeesAccumulated, Recipients) \in Int
         /\ Total(UserFeesAccrued', FeesUsers) \in Int /\ Total(EscrowedFees', FeesUsers) \in Int
         /\ Total(RecipientFeesAccumulated', Recipients) \in Int
         /\ Fees!UserTotal = Total(UserFeesAccrued, FeesUsers)
         /\ Fees!UserTotal' = Total(UserFeesAccrued', FeesUsers)
         /\ Fees!Books = TotalFeesCollected + TotalTreasuryFees + Total(EscrowedFees, FeesUsers)
                           + Total(RecipientFeesAccumulated, Recipients)
         /\ Fees!Books' = TotalFeesCollected' + TotalTreasuryFees' + Total(EscrowedFees', FeesUsers)
                            + Total(RecipientFeesAccumulated', Recipients)
<1>1. /\ DOMAIN UserFeesAccrued = FeesUsers /\ DOMAIN UserFeesAccrued' = FeesUsers
      /\ DOMAIN EscrowedFees = FeesUsers /\ DOMAIN EscrowedFees' = FeesUsers
      /\ DOMAIN RecipientFeesAccumulated = Recipients
      /\ DOMAIN RecipientFeesAccumulated' = Recipients
  BY DEF FeesNumbers
<1>2. /\ \A u \in FeesUsers : UserFeesAccrued[u] \in Int /\ UserFeesAccrued'[u] \in Int
      /\ \A u \in FeesUsers : EscrowedFees[u] \in Int /\ EscrowedFees'[u] \in Int
      /\ \A r \in Recipients :
           RecipientFeesAccumulated[r] \in Int /\ RecipientFeesAccumulated'[r] \in Int
  BY DEF FeesNumbers
<1>3. IsFiniteSet(FeesUsers) /\ IsFiniteSet(Recipients)
  BY FeesConstants
<1>4. /\ Total(UserFeesAccrued, FeesUsers) \in Int /\ Total(UserFeesAccrued', FeesUsers) \in Int
      /\ Total(EscrowedFees, FeesUsers) \in Int /\ Total(EscrowedFees', FeesUsers) \in Int
      /\ Total(RecipientFeesAccumulated, Recipients) \in Int
      /\ Total(RecipientFeesAccumulated', Recipients) \in Int
  BY <1>2, <1>3, TotalType
<1>5. /\ Fees!UserTotal = Total(UserFeesAccrued, FeesUsers)
      /\ Fees!UserTotal' = Total(UserFeesAccrued', FeesUsers)
  BY <1>1, FeesSums
<1>6. /\ Fees!Books = TotalFeesCollected + TotalTreasuryFees + Total(EscrowedFees, FeesUsers)
                        + Total(RecipientFeesAccumulated, Recipients)
      /\ Fees!Books' = TotalFeesCollected' + TotalTreasuryFees' + Total(EscrowedFees', FeesUsers)
                         + Total(RecipientFeesAccumulated', Recipients)
  BY <1>1, FeesSums
<1> QED
  BY <1>4, <1>5, <1>6

\* A step that leaves the accounts alone.
LEMMA FeesAccountsStay ==
  ASSUME Fees!FeesAssumption, FeesNumbers,
         UNCHANGED <<TotalFeesCollected, TotalTreasuryFees, UserFeesAccrued, EscrowedFees,
                     RecipientFeesAccumulated>>
  PROVE  FeesNumbers' /\ FeesFollow
<1>1. FeesNumbers'
  BY DEF FeesNumbers
<1>2. /\ Fees!UserTotal \in Int /\ Fees!UserTotal' = Fees!UserTotal
      /\ Fees!Books \in Int /\ Fees!Books' = Fees!Books
  BY <1>1, FeesTotals DEF FeesNumbers
<1>3. \A u \in FeesUsers : EscrowedFees'[u] <= EscrowedFees[u]
  BY <1>1 DEF FeesNumbers
<1>4. Fees!Deposited = 0
  BY <1>1, <1>3, NothingDeposited
<1> QED
  BY <1>1, <1>2, <1>4 DEF FeesFollow

FeesSetting ==
  \/ \E u \in FeesUsers, n \in Percentages : Fees!Initialize(u, n) \/ Fees!SetPercentage(u, n)
  \/ \E u \in FeesUsers, m \in Fees!RoundingModes : Fees!SetRoundingMode(u, m)
  \/ \E u \in FeesUsers, b \in FeesBounds : Fees!SetFeeBounds(u, b)
  \/ \E u \in FeesUsers, ms \in Multipliers : Fees!SetPriorityMultipliers(u, ms)
  \/ \E u \in FeesUsers, t \in Treasuries, n \in Percentages : Fees!SetTreasury(u, t, n)
  \/ \E c, u \in FeesUsers, k \in FeeCategories : Fees!SetUserFeeCategory(c, u, k)
  \/ \E u \in FeesUsers, d \in Distributions : Fees!SetDistribution(u, d)

LEMMA FeesSettingAccounts ==
  ASSUME FeesInv, FeesSetting
  PROVE  UNCHANGED <<TotalFeesCollected, TotalTreasuryFees, UserFeesAccrued, EscrowedFees,
                     RecipientFeesAccumulated, CategoryFees, TreasuryFees>>
BY DEF FeesSetting, FeesInv, FeesAccounts, Fees!Initialize, Fees!SetPercentage,
       Fees!SetRoundingMode, Fees!SetFeeBounds, Fees!SetPriorityMultipliers, Fees!SetTreasury,
       Fees!SetUserFeeCategory, Fees!SetDistribution, Fees!Configure, Fees!charged

\* New settings that are well formed.
LEMMA FeesConfigured ==
  ASSUME FeesConfigOK, GoodSettings(Settings'), Admin' \in FeesUsers,
         UNCHANGED <<Treasury, FeeDistribution, FeeCategoryMap>>
  PROVE  FeesConfigOK'
<1>1. Total(PartOf(FeeDistribution), DOMAIN FeeDistribution)'
        = Total(PartOf(FeeDistribution), DOMAIN FeeDistribution)
  BY DEF PartOf
<1>2. GoodSettings(Settings)'
  BY DEF GoodSettings, Fees!Ascending
<1> QED
  BY <1>1, <1>2 DEF FeesConfigOK

\* Replacing one of the settings keeps them well formed.
LEMMA NewPercentage ==
  ASSUME NEW s, GoodSettings(s), NEW n \in Nat, n <= 10000
  PROVE  GoodSettings([s EXCEPT !.percentage = n])
BY DEF GoodSettings, FeesSettings

LEMMA NewRounding ==
  ASSUME NEW s, GoodSettings(s), NEW m \in {"Floor", "Round", "Ceiling"}
  PROVE  GoodSettings([s EXCEPT !.rounding = m])
BY DEF GoodSettings, FeesSettings

LEMMA NewBounds ==
  ASSUME NEW s, GoodSettings(s), NEW b \in StellarBounds, b.min >= 0, b.max >= b.min
  PROVE  GoodSettings([s EXCEPT !.bounds = b])
BY DEF GoodSettings, FeesSettings

LEMMA NewPriority ==
  ASSUME NEW s, GoodSettings(s), NEW ms \in [Priorities -> Nat], Fees!Ascending(ms)
  PROVE  GoodSettings([s EXCEPT !.priority = ms])
BY DEF GoodSettings, FeesSettings

LEMMA NewTreasury ==
  ASSUME NEW t \in Treasuries, NEW p \in Nat
  PROVE  \E r \in TreasurySettings : r = [address |-> t, percentage |-> p] /\ r.percentage = p
<1> DEFINE r == [address |-> t, percentage |-> p]
<1>1. r \in TreasurySettings
  BY DEF TreasurySettings
<1>2. r.percentage = p
  OBVIOUS
<1> QED
  BY <1>1, <1>2

LEMMA FeesSettingConfig ==
  ASSUME Fees!FeesAssumption, FeesInv, FeesSetting
  PROVE  FeesConfigOK' /\ Admin' # Unset
<1>1. FeesConfigOK /\ GoodSettings(Settings)
  BY DEF FeesInv, FeesConfigOK
<1>2. ASSUME NEW u \in FeesUsers, NEW s, Fees!Configure(u, s), GoodSettings(s)
      PROVE  FeesConfigOK' /\ Admin' # Unset
  <2>1. /\ Settings' = s /\ Admin' \in FeesUsers /\ Admin' # Unset
        /\ UNCHANGED <<Treasury, FeeDistribution, FeeCategoryMap>>
    BY <1>2, FeesConstants DEF Fees!Configure, Fees!RequireAdmin
  <2>2. GoodSettings(Settings')
    BY <1>2, <2>1
  <2> QED
    BY <1>1, <2>1, <2>2, FeesConfigured
<1>3. ASSUME NEW u \in FeesUsers, NEW n \in Percentages, Fees!Initialize(u, n)
      PROVE  FeesConfigOK' /\ Admin' # Unset
  <2>1. n \in Nat /\ n <= 10000
    BY <1>3, FeesConstants DEF Fees!Initialize
  <2>2. GoodSettings([Settings EXCEPT !.percentage = n])
    BY <1>1, <2>1, NewPercentage
  <2>3. /\ GoodSettings(Settings') /\ Admin' \in FeesUsers /\ Admin' # Unset
        /\ UNCHANGED <<Treasury, FeeDistribution, FeeCategoryMap>>
    BY <1>3, <2>2, FeesConstants DEF Fees!Initialize
  <2> QED
    BY <1>1, <2>3, FeesConfigured
<1>4. ASSUME NEW u \in FeesUsers, NEW n \in Percentages, Fees!SetPercentage(u, n)
      PROVE  FeesConfigOK' /\ Admin' # Unset
  <2>1. n \in Nat /\ n <= 10000 /\ Fees!Configure(u, [Settings EXCEPT !.percentage = n])
    BY <1>4, FeesConstants DEF Fees!SetPercentage
  <2>2. GoodSettings([Settings EXCEPT !.percentage = n])
    BY <1>1, <2>1, NewPercentage
  <2> QED
    BY <1>2, <2>1, <2>2
<1>5. ASSUME NEW u \in FeesUsers, NEW m \in Fees!RoundingModes, Fees!SetRoundingMode(u, m)
      PROVE  FeesConfigOK' /\ Admin' # Unset
  <2>1. GoodSettings([Settings EXCEPT !.rounding = m])
    BY <1>1, NewRounding DEF Fees!RoundingModes
  <2> QED
    BY <1>2, <1>5, <2>1 DEF Fees!SetRoundingMode
<1>6. ASSUME NEW u \in FeesUsers, NEW b \in FeesBounds, Fees!SetFeeBounds(u, b)
      PROVE  FeesConfigOK' /\ Admin' # Unset
  <2>1. b \in StellarBounds /\ b.min >= 0 /\ b.max >= b.min
    BY <1>6, FeesConstants DEF Fees!SetFeeBounds
  <2>2. GoodSettings([Settings EXCEPT !.bounds = b])
    BY <1>1, <2>1, NewBounds
  <2> QED
    BY <1>2, <1>6, <2>2 DEF Fees!SetFeeBounds
<1>7. ASSUME NEW u \in FeesUsers, NEW ms \in Multipliers, Fees!SetPriorityMultipliers(u, ms)
      PROVE  FeesConfigOK' /\ Admin' # Unset
  <2>1. ms \in [Priorities -> Nat] /\ Fees!Ascending(ms)
    BY <1>7, FeesConstants DEF Fees!SetPriorityMultipliers
  <2>2. GoodSettings([Settings EXCEPT !.priority = ms])
    BY <1>1, <2>1, NewPriority
  <2> QED
    BY <1>2, <1>7, <2>2 DEF Fees!SetPriorityMultipliers
<1>8. ASSUME NEW u \in FeesUsers, NEW t \in Treasuries, NEW n \in Percentages,
             Fees!SetTreasury(u, t, n)
      PROVE  FeesConfigOK' /\ Admin' # Unset
  <2>1. PICK p \in Nat : p = n /\ p <= 10000
    BY <1>8, FeesConstants DEF Fees!SetTreasury
  <2>2. PICK r \in TreasurySettings : r = [address |-> t, percentage |-> p] /\ r.percentage = p
    BY NewTreasury
  <2>3. /\ Treasury' = r /\ Admin' = Admin /\ Admin # Unset
        /\ UNCHANGED <<Settings, FeeDistribution, FeeCategoryMap>>
    BY <1>8, <2>1, <2>2 DEF Fees!SetTreasury, Fees!RequireAdmin
  <2> QED
    BY <1>1, <2>1, <2>2, <2>3 DEF FeesConfigOK, GoodSettings, Fees!Ascending, PartOf
<1>9. ASSUME NEW c \in FeesUsers, NEW u \in FeesUsers, NEW k \in FeeCategories,
             Fees!SetUserFeeCategory(c, u, k)
      PROVE  FeesConfigOK' /\ Admin' # Unset
  <2>1. /\ FeeCategoryMap' = [FeeCategoryMap EXCEPT ![u] = k] /\ Admin' = Admin /\ Admin # Unset
        /\ UNCHANGED <<Settings, FeeDistribution, Treasury>>
    BY <1>9 DEF Fees!SetUserFeeCategory, Fees!RequireAdmin
  <2> QED
    BY <1>1, <2>1 DEF FeesConfigOK, GoodSettings, Fees!Ascending, PartOf
<1>10. ASSUME NEW u \in FeesUsers, NEW d \in Distributions, Fees!SetDistribution(u, d)
       PROVE  FeesConfigOK' /\ Admin' # Unset
  <2>1. /\ FeeDistribution' = d /\ Admin' = Admin /\ Admin # Unset
        /\ Fees!ShareSum(d) = 10000
        /\ UNCHANGED <<Settings, FeeCategoryMap, Treasury>>
    BY <1>10, FeesConstants DEF Fees!SetDistribution, Fees!RequireAdmin
  <2>2. d \in Seq(Recipient) /\ Total(PartOf(d), DOMAIN d) = 10000
    BY <2>1, FeesConstants, ShareSumIsTotal
  <2>3. Total(PartOf(FeeDistribution), DOMAIN FeeDistribution)' = Total(PartOf(d), DOMAIN d)
    BY <2>1 DEF PartOf
  <2> QED
    BY <1>1, <2>1, <2>2, <2>3 DEF FeesConfigOK, GoodSettings, Fees!Ascending
<1> QED
  BY <1>3, <1>4, <1>5, <1>6, <1>7, <1>8, <1>9, <1>10 DEF FeesSetting

LEMMA FeesConfigStays ==
  ASSUME FeesConfigOK, UNCHANGED Fees!config
  PROVE  FeesConfigOK'
BY DEF FeesConfigOK, GoodSettings, Fees!config, Fees!Ascending, PartOf

LEMMA FeesSettingStep ==
  ASSUME Fees!FeesAssumption, FeesInv, FeesSetting
  PROVE  FeesInv' /\ FeesFollow
<1>1. FeesConfigOK' /\ Admin' # Unset
  BY FeesSettingConfig
<1>2. UNCHANGED <<TotalFeesCollected, TotalTreasuryFees, UserFeesAccrued, EscrowedFees,
                  RecipientFeesAccumulated, CategoryFees, TreasuryFees>>
  BY FeesSettingAccounts
<1>3. FeesNumbers' /\ FeesFollow
  BY <1>2, FeesAccountsStay DEF FeesInv, FeesAccounts
<1> QED
  BY <1>1, <1>2, <1>3 DEF FeesInv, FeesAccounts

LEMMA FeesSnapshotStep ==
  ASSUME Fees!FeesAssumption, FeesInv, NEW u \in FeesUsers, NEW p \in Periods,
         Fees!CreateFeeSnapshot(u, p)
  PROVE  FeesInv' /\ FeesFollow
<1>1. UNCHANGED <<TotalFeesCollected, TotalTreasuryFees, UserFeesAccrued, EscrowedFees,
                  RecipientFeesAccumulated, CategoryFees, TreasuryFees, Fees!config, Admin>>
  BY DEF Fees!CreateFeeSnapshot, Fees!charged, Fees!config
<1>2. FeesNumbers' /\ FeesFollow
  BY <1>1, FeesAccountsStay DEF FeesInv, FeesAccounts
<1> QED
  BY <1>1, <1>2, FeesConfigStays DEF FeesInv, FeesAccounts

\* g is f with another number for j.
Rebooked(f, g, S, j, n) == f \in [S -> Int] /\ j \in S /\ n \in Int /\ g = [f EXCEPT ![j] = n]

LEMMA TotalRebooked ==
  ASSUME NEW S, IsFiniteSet(S), NEW f, NEW g, NEW j, NEW n, Rebooked(f, g, S, j, n)
  PROVE  /\ Total(g, S) = Total(f, S) + n - f[j] /\ Total(f, S) \in Int
         /\ f[j] \in Int /\ g \in [S -> Int]
<1>1. f \in [S -> Int] /\ j \in S /\ n \in Int /\ g = [f EXCEPT ![j] = n]
  BY DEF Rebooked
<1>2. /\ Total([f EXCEPT ![j] = n], S) = Total(f, S) + n - f[j]
      /\ Total(f, S) \in Int
  BY <1>1, TotalExcept
<1> QED
  BY <1>1, <1>2

\* A fee is split between the treasury and the total, and refunds come out of both
\* the payer's account and the total.
LEMMA FeesDeductStep ==
  ASSUME Fees!FeesAssumption, FeesInv, Admin # Unset, NEW u \in FeesUsers, NEW fee \in Nat,
         Fees!Deduct(u, fee)
  PROVE  FeesInv' /\ FeesFollow
<1>1. PICK part \in Nat : part = Fees!TreasuryPortion(fee) /\ part <= fee
  BY TreasuryPart DEF FeesInv
<1>2. /\ TotalTreasuryFees' = TotalTreasuryFees + part
      /\ TotalFeesCollected' = TotalFeesCollected + (fee - part)
      /\ UserFeesAccrued' = [UserFeesAccrued EXCEPT ![u] = @ + fee]
      /\ CategoryFees' = [CategoryFees EXCEPT ![FeeCategoryMap[u]] = @ + fee]
      /\ TreasuryFees' = IF part = 0 THEN TreasuryFees
                         ELSE [TreasuryFees EXCEPT ![Treasury.address] = @ + part]
      /\ UNCHANGED <<Fees!config, Admin, EscrowedFees, RecipientFeesAccumulated>>
  BY <1>1, TreasuryPart DEF Fees!Deduct, FeesInv, Fees!config
<1>3. FeesNumbers
  BY DEF FeesInv, FeesAccounts
<1>4. FeesNumbers'
  BY <1>1, <1>2, <1>3 DEF FeesNumbers
<1>5. FeesConfigOK'
  BY <1>2, FeesConfigStays DEF FeesInv
<1>6. /\ CategoryFees' \in [FeeCategories -> Nat] /\ TreasuryFees' \in [Treasuries -> Int]
      /\ TotalTreasuryFees' = Total(TreasuryFees', Treasuries)
  <2>1. /\ CategoryFees \in [FeeCategories -> Nat] /\ TreasuryFees \in [Treasuries -> Int]
        /\ TotalTreasuryFees = Total(TreasuryFees, Treasuries) /\ TotalTreasuryFees \in Nat
        /\ FeeCategoryMap[u] \in FeeCategories
    BY DEF FeesInv, FeesAccounts, FeesNumbers, FeesConfigOK
  <2>2. CASE part = 0
    BY <1>2, <2>1, <2>2
  <2>3. CASE part # 0
    <3>1. PICK t \in Treasuries : t = Treasury.address
      BY <1>1, <2>3, TreasuryPart DEF FeesInv
    <3>2. PICK n \in Int : n = TreasuryFees[t] + part
      BY <2>1
    <3>3. Rebooked(TreasuryFees, TreasuryFees', Treasuries, t, n)
      BY <1>2, <2>1, <2>3, <3>1, <3>2 DEF Rebooked
    <3>4. IsFiniteSet(Treasuries)
      BY FeesConstants
    <3>5. /\ Total(TreasuryFees', Treasuries) = Total(TreasuryFees, Treasuries) + n - TreasuryFees[t]
          /\ TreasuryFees[t] \in Int /\ TreasuryFees' \in [Treasuries -> Int]
      BY <3>3, <3>4, TotalRebooked
    <3>6. CategoryFees' \in [FeeCategories -> Nat]
      BY <1>2, <2>1
    <3>7. TotalTreasuryFees' = Total(TreasuryFees', Treasuries)
      <4>1. PICK a \in Int, b \in Int, k \in Int :
              /\ a = TotalTreasuryFees /\ b = Total(TreasuryFees', Treasuries)
              /\ k = TreasuryFees[t] /\ n = k + part /\ b = a + n - k
        BY <2>1, <3>2, <3>5
      <4> QED
        BY <1>2, <4>1
    <3> QED
      BY <3>5, <3>6, <3>7
  <2> QED
    BY <2>2, <2>3
<1>7. Total(UserFeesAccrued', FeesUsers) = Total(UserFeesAccrued, FeesUsers) + fee
  <2>1. PICK n \in Int : n = UserFeesAccrued[u] + fee
    BY <1>3 DEF FeesNumbers
  <2>2. UserFeesAccrued \in [FeesUsers -> Int]
    BY <1>3 DEF FeesNumbers
  <2>3. Rebooked(UserFeesAccrued, UserFeesAccrued', FeesUsers, u, n)
    BY <1>2, <2>1, <2>2 DEF Rebooked
  <2>4. IsFiniteSet(FeesUsers)
    BY FeesConstants
  <2>5. /\ Total(UserFeesAccrued', FeesUsers) = Total(UserFeesAccrued, FeesUsers) + n - UserFeesAccrued[u]
        /\ Total(UserFeesAccrued, FeesUsers) \in Int /\ UserFeesAccrued[u] \in Int
    BY <2>3, <2>4, TotalRebooked
  <2> QED
    BY <2>1, <2>5
<1>8. (Fees!UserTotal' - Fees!UserTotal) + 0 - (Fees!Books' - Fees!Books) = 0
  <2>1. TotalFeesCollected \in Int /\ TotalTreasuryFees \in Int
    BY <1>3 DEF FeesNumbers
  <2>2. /\ Total(EscrowedFees', FeesUsers) = Total(EscrowedFees, FeesUsers)
        /\ Total(RecipientFeesAccumulated', Recipients) = Total(RecipientFeesAccumulated, Recipients)
    BY <1>2
  <2> QED
    BY <1>1, <1>2, <1>3, <1>4, <1>7, <2>1, <2>2, FeesTotals
<1>9. Fees!Deposited = 0
  BY <1>2, <1>3, <1>4, NothingDeposited DEF FeesNumbers
<1>10. FeesFollow
  BY <1>8, <1>9 DEF FeesFollow
<1> QED
  BY <1>2, <1>4, <1>5, <1>6, <1>10 DEF FeesInv, FeesAccounts

LEMMA FeesEscrowStep ==
  ASSUME Fees!FeesAssumption, FeesInv, NEW u \in FeesUsers, NEW n \in FeesAmounts,
         Fees!DeductFeeToEscrow(u, n)
  PROVE  FeesInv' /\ FeesFollow
<1>0. n \in Nat
  <2>1. Fees!CanCharge(n)
    BY Zenon DEF Fees!DeductFeeToEscrow
  <2> QED
    BY <2>1, FeesConstants DEF Fees!CanCharge
<1>1. /\ n \in Nat /\ Admin # Unset
      /\ EscrowedFees' = [EscrowedFees EXCEPT ![u] = @ + Fees!CalculateFee(n)]
      /\ UNCHANGED <<Fees!config, Admin, TotalFeesCollected, UserFeesAccrued, CategoryFees,
                     TotalTreasuryFees, TreasuryFees, RecipientFeesAccumulated>>
  BY <1>0 DEF Fees!DeductFeeToEscrow, Fees!CanCharge, Fees!config, Fees!charged
<1>2. PICK fee \in Nat : fee = Fees!CalculateFee(n)
  BY <1>1, FeesCostType DEF FeesInv
<1>3. EscrowedFees \in [FeesUsers -> Nat] /\ FeesNumbers
  BY DEF FeesInv, FeesAccounts, FeesNumbers
<1>4. EscrowedFees' \in [FeesUsers -> Nat] /\ EscrowedFees'[u] = EscrowedFees[u] + fee
  BY <1>1, <1>2, <1>3
<1>5. FeesNumbers'
  BY <1>1, <1>3, <1>4 DEF FeesNumbers
<1>6. FeesInv'
  BY <1>1, <1>5, FeesConfigStays DEF FeesInv, FeesAccounts
<1>7. Fees!Deposited = fee
  BY <1>1, <1>2, <1>3, OneDeposit
<1>8. Total(EscrowedFees', FeesUsers) = Total(EscrowedFees, FeesUsers) + fee
  <2>1. PICK m \in Int : m = EscrowedFees[u] + fee
    BY <1>3
  <2>2. Rebooked(EscrowedFees, EscrowedFees', FeesUsers, u, m)
    BY <1>1, <1>2, <1>3, <2>1 DEF Rebooked
  <2>3. IsFiniteSet(FeesUsers)
    BY FeesConstants
  <2>4. /\ Total(EscrowedFees', FeesUsers) = Total(EscrowedFees, FeesUsers) + m - EscrowedFees[u]
        /\ Total(EscrowedFees, FeesUsers) \in Int /\ EscrowedFees[u] \in Int
    BY <2>2, <2>3, TotalRebooked
  <2> QED
    BY <2>1, <2>4
<1>9. (Fees!UserTotal' - Fees!UserTotal) + fee - (Fees!Books' - Fees!Books) = 0
  <2>1. TotalFeesCollected \in Int /\ TotalTreasuryFees \in Int
    BY <1>3 DEF FeesNumbers
  <2>2. /\ Total(UserFeesAccrued', FeesUsers) = Total(UserFeesAccrued, FeesUsers)
        /\ Total(RecipientFeesAccumulated', Recipients) = Total(RecipientFeesAccumulated, Recipients)
    BY <1>1
  <2> QED
    BY <1>1, <1>3, <1>5, <1>8, <2>1, <2>2, FeesTotals
<1> QED
  BY <1>6, <1>7, <1>9 DEF FeesFollow

LEMMA FeesReleaseStep ==
  ASSUME Fees!FeesAssumption, FeesInv, NEW c \in FeesUsers, NEW u \in FeesUsers,
         Fees!ReleaseEscrow(c, u)
  PROVE  FeesInv' /\ FeesFollow
<1>1. /\ Admin # Unset /\ TotalFeesCollected' = TotalFeesCollected + EscrowedFees[u]
      /\ EscrowedFees' = [EscrowedFees EXCEPT ![u] = 0]
      /\ UNCHANGED <<Fees!config, Admin, UserFeesAccrued, CategoryFees,
                     TotalTreasuryFees, TreasuryFees, RecipientFeesAccumulated>>
  BY DEF Fees!ReleaseEscrow, Fees!RequireAdmin, Fees!config, Fees!charged
<1>2. /\ FeesNumbers /\ EscrowedFees \in [FeesUsers -> Int] /\ EscrowedFees[u] \in Int
      /\ TotalFeesCollected \in Int /\ TotalTreasuryFees \in Int
  BY DEF FeesInv, FeesAccounts, FeesNumbers
<1>3. FeesNumbers'
  BY <1>1, <1>2 DEF FeesNumbers
<1>4. FeesInv'
  BY <1>1, <1>3, FeesConfigStays DEF FeesInv, FeesAccounts
<1>5. Total(EscrowedFees', FeesUsers) = Total(EscrowedFees, FeesUsers) + 0 - EscrowedFees[u]
  <2>1. Rebooked(EscrowedFees, EscrowedFees', FeesUsers, u, 0)
    BY <1>1, <1>2 DEF Rebooked
  <2>2. IsFiniteSet(FeesUsers)
    BY FeesConstants
  <2> QED
    BY <2>1, <2>2, TotalRebooked
<1>6. (Fees!UserTotal' - Fees!UserTotal) + 0 - (Fees!Books' - Fees!Books) = 0
  <2>1. /\ Total(UserFeesAccrued', FeesUsers) = Total(UserFeesAccrued, FeesUsers)
        /\ Total(RecipientFeesAccumulated', Recipients) = Total(RecipientFeesAccumulated, Recipients)
    BY <1>1
  <2> QED
    BY <1>1, <1>2, <1>3, <1>5, <2>1, FeesTotals
<1>7. Fees!Deposited = 0
  <2>1. \A v \in FeesUsers : EscrowedFees'[v] <= EscrowedFees[v]
    BY <1>1, <1>2 DEF FeesNumbers
  <2> QED
    BY <1>2, <1>3, <2>1, NothingDeposited
<1> QED
  BY <1>4, <1>6, <1>7 DEF FeesFollow

LEMMA FeesRefundStep ==
  ASSUME Fees!FeesAssumption, FeesInv, NEW c \in FeesUsers, NEW u \in FeesUsers,
         NEW n \in FeesAmounts, Fees!RefundFee(c, u, n)
  PROVE  FeesInv' /\ FeesFollow
<1>1. /\ Admin # Unset /\ TotalFeesCollected' = TotalFeesCollected - n
      /\ UserFeesAccrued' = [UserFeesAccrued EXCEPT ![u] = @ - n]
      /\ n \in Nat /\ UserFeesAccrued[u] >= n
      /\ UNCHANGED <<Fees!config, Admin, EscrowedFees, CategoryFees,
                     TotalTreasuryFees, TreasuryFees, RecipientFeesAccumulated>>
  BY FeesConstants DEF Fees!RefundFee, Fees!RequireAdmin, Fees!config
<1>2. /\ FeesNumbers /\ UserFeesAccrued \in [FeesUsers -> Nat]
      /\ TotalFeesCollected \in Int /\ TotalTreasuryFees \in Int
  BY DEF FeesInv, FeesAccounts, FeesNumbers
<1>3. PICK m \in Nat : m = UserFeesAccrued[u] - n
  BY <1>1, <1>2
<1>4. UserFeesAccrued' = [UserFeesAccrued EXCEPT ![u] = m]
  BY <1>1, <1>3
<1>5. FeesNumbers'
  BY <1>1, <1>2, <1>4 DEF FeesNumbers
<1>6. FeesInv'
  BY <1>1, <1>5, FeesConfigStays DEF FeesInv, FeesAccounts
<1>7. Total(UserFeesAccrued', FeesUsers) = Total(UserFeesAccrued, FeesUsers) - n
  <2>1. Rebooked(UserFeesAccrued, UserFeesAccrued', FeesUsers, u, m)
    BY <1>2, <1>4 DEF Rebooked
  <2>2. IsFiniteSet(FeesUsers)
    BY FeesConstants
  <2>3. /\ Total(UserFeesAccrued', FeesUsers) = Total(UserFeesAccrued, FeesUsers) + m - UserFeesAccrued[u]
        /\ Total(UserFeesAccrued, FeesUsers) \in Int /\ UserFeesAccrued[u] \in Int
    BY <2>1, <2>2, TotalRebooked
  <2> QED
    BY <1>1, <1>3, <2>3
<1>8. (Fees!UserTotal' - Fees!UserTotal) + 0 - (Fees!Books' - Fees!Books) = 0
  <2>1. /\ Total(EscrowedFees', FeesUsers) = Total(EscrowedFees, FeesUsers)
        /\ Total(RecipientFeesAccumulated', Recipients) = Total(RecipientFeesAccumulated, Recipients)
    BY <1>1
  <2> QED
    BY <1>1, <1>2, <1>5, <1>7, <2>1, FeesTotals
<1>9. Fees!Deposited = 0
  <2>1. \A v \in FeesUsers : EscrowedFees'[v] <= EscrowedFees[v]
    BY <1>1, <1>2 DEF FeesNumbers
  <2> QED
    BY <1>2, <1>5, <2>1, NothingDeposited
<1> QED
  BY <1>6, <1>8, <1>9 DEF FeesFollow

\* Distributing loses what rounding leaves over, less than one unit for each share.
LEMMA FeesDistributeStep ==
  ASSUME Fees!FeesAssumption, FeesInv, NEW u \in FeesUsers, Fees!DistributeFees(u)
  PROVE  FeesInv' /\ FeesFollow
<1>1. /\ Admin # Unset /\ FeeDistribution # Unset /\ TotalFeesCollected > 0
      /\ RecipientFeesAccumulated' =
           [a \in Recipients |-> RecipientFeesAccumulated[a] + Fees!GetsFrom(a)]
      /\ TotalFeesCollected' = 0
      /\ UNCHANGED <<Fees!config, Admin, UserFeesAccrued, CategoryFees,
                     TotalTreasuryFees, TreasuryFees, EscrowedFees>>
  BY DEF Fees!DistributeFees, Fees!RequireAdmin, Fees!config, Fees!charged
<1> DEFINE I == DOMAIN FeeDistribution
           part == PartOf(FeeDistribution)
           share == Fees!Shares
           owner == [i \in I |-> FeeDistribution[i].address]
<1>2. FeeDistribution \in Seq(Recipient) /\ Total(part, I) = 10000
  BY <1>1 DEF FeesInv, FeesConfigOK
<1>3. /\ Len(FeeDistribution) \in Nat /\ I = 1..Len(FeeDistribution)
      /\ IsFiniteSet(I) /\ Cardinality(I) = Len(FeeDistribution)
  <2>1. PICK n \in Nat : n = Len(FeeDistribution) /\ I = 1..n
    BY <1>2
  <2>2. IsFiniteSet(1..n) /\ Cardinality(1..n) = n
    BY FS_Interval
  <2> QED
    BY <2>1, <2>2
<1>4. \A i \in I : FeeDistribution[i] \in Recipient
  BY <1>2, <1>3, ElementOfSeq
<1>5. \A i \in I : part[i] \in Nat /\ owner[i] \in Recipients
  BY <1>4 DEF PartOf, Recipient
<1>6. PICK t \in Nat : t = TotalFeesCollected
  BY <1>1 DEF FeesInv, FeesAccounts, FeesNumbers
<1>7. \A i \in I : share[i] = (t * part[i]) \div 10000
  BY <1>6, FeesConstants DEF Fees!Shares, PartOf
<1>8. \A a : Fees!GetsFrom(a) = Total(share, Keyed(I, owner, a))
  BY GetsIsTotal DEF Fees!SharesOf, Keyed
<1> HIDE DEF I, part, share, owner
<1>9. /\ \A i \in I : share[i] \in Nat
      /\ Total(share, I) \in Nat /\ Total(share, I) <= t
      /\ t - Total(share, I) < Cardinality(I)
  <2>1. PICK S, f, g : S = I /\ f = part /\ g = share
    OBVIOUS
  <2>2. /\ IsFiniteSet(S) /\ \A i \in S : f[i] \in Nat
        /\ Total(f, S) = 10000 /\ \A i \in S : g[i] = (t * f[i]) \div 10000
    BY <1>2, <1>3, <1>5, <1>7, <2>1
  <2>3. /\ \A i \in S : g[i] \in Nat
        /\ Total(g, S) \in Nat /\ Total(g, S) <= t /\ t - Total(g, S) < Cardinality(S)
    BY <2>2, SharesOfAll
  <2> QED
    BY <2>1, <2>3
<1>10. \A a \in Recipients : Total(share, Keyed(I, owner, a)) \in Int
  <2> TAKE a \in Recipients
  <2>1. IsFiniteSet(Keyed(I, owner, a)) /\ \A i \in Keyed(I, owner, a) : share[i] \in Int
    BY <1>3, <1>9, FS_Subset DEF Keyed
  <2> QED
    BY <2>1, TotalType
<1>11. FeesNumbers /\ TotalTreasuryFees \in Int
       /\ RecipientFeesAccumulated \in [Recipients -> Int]
  BY DEF FeesInv, FeesAccounts, FeesNumbers
<1>12. RecipientFeesAccumulated' \in [Recipients -> Int]
  BY <1>1, <1>8, <1>10, <1>11
<1>13. FeesNumbers'
  BY <1>1, <1>11, <1>12 DEF FeesNumbers
<1>14. FeesInv'
  BY <1>1, <1>13, FeesConfigStays DEF FeesInv, FeesAccounts
<1>15. Total(RecipientFeesAccumulated', Recipients)
         = Total(RecipientFeesAccumulated, Recipients) + Total(share, I)
  <2>1. IsFiniteSet(Recipients)
    BY FeesConstants
  <2>2. /\ \A i \in I : share[i] \in Int /\ owner[i] \in Recipients
        /\ \A a \in Recipients : RecipientFeesAccumulated[a] \in Int
        /\ \A a \in Recipients : RecipientFeesAccumulated'[a]
             = RecipientFeesAccumulated[a] + Total(share, Keyed(I, owner, a))
    BY <1>1, <1>5, <1>8, <1>9, <1>11
  <2>3. PICK f, key, old, new : /\ f = share /\ key = owner /\ old = RecipientFeesAccumulated
                                /\ new = RecipientFeesAccumulated'
    OBVIOUS
  <2>4. /\ IsFiniteSet(I)
        /\ \A i \in I : f[i] \in Int
        /\ \A i \in I : key[i] \in Recipients
        /\ \A a \in Recipients : old[a] \in Int
        /\ \A a \in Recipients : new[a] = old[a] + Total(f, Keyed(I, key, a))
    BY <1>3, <2>2, <2>3
  <2>5. Total(new, Recipients) = Total(old, Recipients) + Total(f, I)
    BY <2>1, <2>4, TotalAddedByKey
  <2> QED
    BY <2>3, <2>5
<1>16. (Fees!UserTotal' - Fees!UserTotal) + 0 - (Fees!Books' - Fees!Books) = t - Total(share, I)
  <2>1. /\ Total(UserFeesAccrued', FeesUsers) = Total(UserFeesAccrued, FeesUsers)
        /\ Total(EscrowedFees', FeesUsers) = Total(EscrowedFees, FeesUsers)
    BY <1>1
  <2> QED
    BY <1>1, <1>6, <1>9, <1>11, <1>13, <1>15, <2>1, FeesTotals
<1>17. Fees!Deposited = 0
  <2>1. \A v \in FeesUsers : EscrowedFees'[v] <= EscrowedFees[v]
    BY <1>1, <1>11 DEF FeesNumbers
  <2> QED
    BY <1>11, <1>13, <2>1, NothingDeposited
<1>18. FeesFollow
  BY <1>1, <1>3, <1>6, <1>9, <1>16, <1>17 DEF FeesFollow, Fees!charged
<1> QED
  BY <1>14, <1>18

LEMMA FeesStep ==
  ASSUME Fees!FeesAssumption, FeesInv, Fees!Next
  PROVE  FeesInv' /\ FeesFollow
<1>1. ASSUME NEW u \in FeesUsers, NEW n \in FeesAmounts, Fees!CanCharge(n)
      PROVE  /\ Admin # Unset /\ Fees!CalculateFee(n) \in Nat
             /\ \A p \in Priorities : Fees!CalculateFeeWithPriority(n, p) \in Nat
  BY <1>1, FeesConstants, FeesCostType DEF Fees!CanCharge, FeesInv
<1>2. ASSUME NEW u \in FeesUsers, NEW n \in FeesAmounts, Fees!DeductFee(u, n)
      PROVE  FeesInv' /\ FeesFollow
  BY <1>1, <1>2, FeesDeductStep DEF Fees!DeductFee
<1>3. ASSUME NEW u \in FeesUsers, NEW n \in FeesAmounts, NEW p \in Priorities,
             Fees!DeductFeeWithPriority(u, n, p)
      PROVE  FeesInv' /\ FeesFollow
  BY <1>1, <1>3, FeesDeductStep DEF Fees!DeductFeeWithPriority
<1>4. FeesSetting => FeesInv' /\ FeesFollow
  BY FeesSettingStep
<1>5. ASSUME ~FeesSetting PROVE FeesInv' /\ FeesFollow
  BY <1>2, <1>3, <1>5, FeesEscrowStep, FeesReleaseStep, FeesRefundStep, FeesDistributeStep,
     FeesSnapshotStep DEF Fees!Next, FeesSetting
<1> QED
  BY <1>4, <1>5

------------------------------------------------------------------------------
\* The budget contract: what its records hold.

BudgetLimits == [limits : [BudgetCategories -> Nat \cup {Unset}], last_updated : Nat]
Heirs == [address : Users, percentage : Nat]
PercentOf(list) == [i \in DOMAIN list |-> list[i].percentage]

BudgetAllocations ==
  /\ TotalAllocated \in Int
  /\ Budget \in [Users -> Budgets!BudgetRecord \cup {Unset}]
  /\ BudgetAsset \in [Users -> [BudgetAssets -> Nat \cup {Unset}]]
BudgetUserLimits == UserBudget \in [Users -> BudgetLimits \cup {Unset}]
BudgetHeirs ==
  /\ Beneficiaries \in [Users -> Seq(Heirs)]
  /\ \A u \in Users : Beneficiaries[u] # << >> =>
       Total(PercentOf(Beneficiaries[u]), DOMAIN Beneficiaries[u]) = 100
BudgetClock ==
  /\ budgetTime \in Nat /\ budgetTime >= 1 /\ budgetTime <= BudgetMaxTime
  /\ LastActivity \in [Users -> Nat]
  /\ \A u \in Users : LastActivity[u] <= budgetTime

BudgetInv ==
  Admin \in Users \cup {Unset} /\ BudgetAllocations /\ BudgetUserLimits /\ BudgetHeirs /\ BudgetClock

LEMMA BudgetConstants ==
  ASSUME Budgets!BudgetAssumption
  PROVE  /\ IsFiniteSet(Users) /\ Owners \subseteq Users /\ IsFiniteSet(BudgetAssets)
         /\ Unset \notin Users /\ Unset \notin Int
         /\ Unset \notin Budgets!BudgetRecord /\ Unset \notin BudgetLimits
         /\ BudgetAmounts \subseteq Int /\ Expirations \subseteq Nat \cup {Unset}
         /\ BeneficiaryLists \subseteq Seq(Heirs)
         /\ BudgetMaxTime \in Nat \ {0}
<1>1. /\ Budgets!IsFiniteSet(Users) = IsFiniteSet(Users)
      /\ Budgets!IsFiniteSet(BudgetAssets) = IsFiniteSet(BudgetAssets)
  BY DEF Budgets!IsFiniteSet, IsFiniteSet
<1>2. Unset \notin BudgetLimits
  <2>1. BudgetLimits \subseteq [limits : [BudgetCategories -> Int \cup {Unset}], last_updated : Nat]
    BY DEF BudgetLimits
  <2> QED
    BY <2>1 DEF Budgets!BudgetAssumption
<1> QED
  BY <1>1, <1>2 DEF Budgets!BudgetAssumption, Heirs

LEMMA PercentagesAreTotal ==
  ASSUME NEW list
  PROVE  Budgets!PercentageSum(list) = Total(PercentOf(list), DOMAIN list)
BY DEF Budgets!PercentageSum, PercentOf, Budgets!FoldFunction, Budgets!FoldFunctionOnSet,
       Budgets!MapThenFoldSet, Total, IsTotal, Choice

LEMMA BudgetLimitsOf ==
  ASSUME Budgets!BudgetAssumption, BudgetUserLimits, NEW u \in Users
  PROVE  Budgets!LimitsOf(u) \in [BudgetCategories -> Nat \cup {Unset}]
<1>1. CASE UserBudget[u] = Unset
  BY <1>1 DEF Budgets!LimitsOf, Budgets!NoLimits
<1>2. CASE UserBudget[u] # Unset
  BY <1>2 DEF Budgets!LimitsOf, BudgetUserLimits, BudgetLimits
<1> QED
  BY <1>1, <1>2

LEMMA BudgetStart ==
  ASSUME Budgets!BudgetAssumption, Budgets!Init
  PROVE  BudgetInv
<1>1. /\ Admin = Unset /\ TotalAllocated = 0
      /\ Budget = [u \in Users |-> Unset]
      /\ BudgetAsset = [u \in Users |-> Budgets!NoAssets]
      /\ UserBudget = [u \in Users |-> Unset]
      /\ LastActivity = [u \in Users |-> 0]
      /\ Beneficiaries = [u \in Users |-> << >>]
      /\ budgetTime = 1
  BY DEF Budgets!Init
<1>2. BudgetAllocations
  BY <1>1 DEF BudgetAllocations, Budgets!NoAssets
<1>3. BudgetUserLimits
  BY <1>1 DEF BudgetUserLimits
<1>4. BudgetHeirs
  BY <1>1 DEF BudgetHeirs
<1>5. BudgetClock
  BY <1>1, BudgetConstants DEF BudgetClock
<1> QED
  BY <1>1, <1>2, <1>3, <1>4, <1>5 DEF BudgetInv

LEMMA BudgetParts ==
  ASSUME Budgets!BudgetAssumption, BudgetInv
  PROVE  Budgets!TypeOK
<1>1. ASSUME NEW u \in Users
      PROVE  /\ Budget[u] # Unset => Budget[u] \in Budgets!BudgetRecord
             /\ \A a \in BudgetAssets : BudgetAsset[u][a] # Unset => BudgetAsset[u][a] \in Nat
             /\ \A c \in BudgetCategories :
                  Budgets!LimitsOf(u)[c] # Unset => Budgets!LimitsOf(u)[c] \in Nat
             /\ Beneficiaries[u] # << >> => Budgets!PercentageSum(Beneficiaries[u]) = 100
             /\ LastActivity[u] \in 0..budgetTime
  <2>1. Budget[u] # Unset => Budget[u] \in Budgets!BudgetRecord
    BY DEF BudgetInv, BudgetAllocations
  <2>2. \A a \in BudgetAssets : BudgetAsset[u][a] # Unset => BudgetAsset[u][a] \in Nat
    BY DEF BudgetInv, BudgetAllocations
  <2>3. Budgets!LimitsOf(u) \in [BudgetCategories -> Nat \cup {Unset}]
    BY BudgetLimitsOf DEF BudgetInv
  <2>4. Beneficiaries[u] # << >> => Budgets!PercentageSum(Beneficiaries[u]) = 100
    BY PercentagesAreTotal DEF BudgetInv, BudgetHeirs
  <2>5. LastActivity[u] \in 0..budgetTime
    BY DEF BudgetInv, BudgetClock
  <2> QED
    BY <2>1, <2>2, <2>3, <2>4, <2>5
<1>2. budgetTime \in 1..BudgetMaxTime
  BY BudgetConstants DEF BudgetInv, BudgetClock
<1> QED
  BY <1>1, <1>2 DEF Budgets!TypeOK, BudgetInv, BudgetAllocations

\* The arguments of the calls.
LEMMA BudgetArguments ==
  ASSUME Budgets!BudgetAssumption, NEW u \in Owners
  PROVE  u \in Users /\ \A n \in BudgetAmounts : n \in Int
BY BudgetConstants

LEMMA AmountOfType ==
  ASSUME BudgetAllocations, NEW u \in Users
  PROVE  Budgets!AmountOf(u) \in Nat
<1>1. Budget[u] # Unset => Budget[u] \in Budgets!BudgetRecord
  BY DEF BudgetAllocations
<1> QED
  BY <1>1 DEF Budgets!AmountOf, Budgets!BudgetRecord

LEMMA FreshRecordType ==
  ASSUME BudgetClock, NEW n \in Nat
  PROVE  Budgets!FreshRecord(n) \in Budgets!BudgetRecord
BY DEF Budgets!FreshRecord, Budgets!BudgetRecord, BudgetClock

LEMMA RecordChanged ==
  ASSUME NEW r \in Budgets!BudgetRecord, NEW n \in Nat, NEW t \in Nat, NEW b \in BOOLEAN,
         NEW e \in Nat \cup {Unset}
  PROVE  /\ [r EXCEPT !.amount = n, !.last_updated = t] \in Budgets!BudgetRecord
         /\ [r EXCEPT !.is_active = b] \in Budgets!BudgetRecord
         /\ [r EXCEPT !.expires_at = e] \in Budgets!BudgetRecord
BY DEF Budgets!BudgetRecord

LEMMA NewRecordType ==
  ASSUME BudgetAllocations, BudgetClock, NEW u \in Users, NEW n \in Nat
  PROVE  Budgets!NewRecord(u, n) \in Budgets!BudgetRecord
<1>1. CASE Budget[u] = Unset
  BY <1>1, FreshRecordType DEF Budgets!NewRecord
<1>2. CASE Budget[u] # Unset
  <2>1. PICK r \in Budgets!BudgetRecord : r = Budget[u]
    BY <1>2 DEF BudgetAllocations
  <2>2. [r EXCEPT !.amount = n, !.last_updated = budgetTime] \in Budgets!BudgetRecord
    BY RecordChanged DEF BudgetClock
  <2> QED
    BY <1>2, <2>1, <2>2 DEF Budgets!NewRecord
<1> QED
  BY <1>1, <1>2

\* A user's budget is replaced by another one, or by none.
LEMMA BudgetReplaced ==
  ASSUME BudgetAllocations, NEW u \in Users, NEW r \in Budgets!BudgetRecord \cup {Unset}
  PROVE  [Budget EXCEPT ![u] = r] \in [Users -> Budgets!BudgetRecord \cup {Unset}]
BY DEF BudgetAllocations

LEMMA ActivatedType ==
  ASSUME BudgetAllocations, NEW u \in Users, NEW b \in BOOLEAN
  PROVE  Budgets!Activated(u, b) \in [Users -> Budgets!BudgetRecord \cup {Unset}]
<1>1. CASE Budget[u] = Unset
  BY <1>1 DEF Budgets!Activated, BudgetAllocations
<1>2. CASE Budget[u] # Unset
  <2>1. PICK r \in Budgets!BudgetRecord : r = Budget[u]
    BY <1>2 DEF BudgetAllocations
  <2>2. [r EXCEPT !.is_active = b] \in Budgets!BudgetRecord
    BY <2>1 DEF Budgets!BudgetRecord
  <2>3. Budgets!Activated(u, b) = [Budget EXCEPT ![u] = [r EXCEPT !.is_active = b]]
    BY <1>2, <2>1 DEF Budgets!Activated
  <2> QED
    BY <2>2, <2>3, BudgetReplaced
<1> QED
  BY <1>1, <1>2

LEMMA AutoResumeType ==
  ASSUME BudgetAllocations, NEW u \in Users, Budgets!AutoResume(u)
  PROVE  Budget' \in [Users -> Budgets!BudgetRecord \cup {Unset}]
BY ActivatedType DEF Budgets!AutoResume, BudgetAllocations

LEMMA TouchedType ==
  ASSUME BudgetClock, NEW u \in Users, LastActivity' = Budgets!Touched(u), budgetTime' = budgetTime
  PROVE  BudgetClock' /\ LastActivity'[u] = budgetTime /\ LastActivity'[u] # 0
<1>1. LastActivity' = [LastActivity EXCEPT ![u] = budgetTime]
  BY DEF Budgets!Touched
<1>2. LastActivity \in [Users -> Nat] /\ budgetTime \in Nat /\ budgetTime >= 1
  BY DEF BudgetClock
<1>3. LastActivity' \in [Users -> Nat] /\ LastActivity'[u] = budgetTime
  BY <1>1, <1>2
<1>4. \A v \in Users : LastActivity'[v] <= budgetTime
  BY <1>1, <1>2 DEF BudgetClock
<1> QED
  BY <1>2, <1>3, <1>4 DEF BudgetClock

\* What a step has to show of what it changes.
LEMMA BudgetRest ==
  ASSUME BudgetInv, Admin' \in Users \cup {Unset}, BudgetAllocations',
         BudgetUserLimits' \/ UserBudget' = UserBudget,
         BudgetClock' \/ UNCHANGED <<LastActivity, budgetTime>>,
         Beneficiaries' = Beneficiaries
  PROVE  BudgetInv'
<1>1. BudgetUserLimits'
  BY DEF BudgetInv, BudgetUserLimits
<1>2. BudgetClock'
  BY DEF BudgetInv, BudgetClock
<1>3. BudgetHeirs'
  BY DEF BudgetInv, BudgetHeirs, PercentOf
<1> QED
  BY <1>1, <1>2, <1>3 DEF BudgetInv

LEMMA BudgetAllocationsStay ==
  ASSUME BudgetAllocations, UNCHANGED <<TotalAllocated, Budget, BudgetAsset>>
  PROVE  BudgetAllocations'
BY DEF BudgetAllocations

LEMMA BudgetAllocationsNew ==
  ASSUME BudgetAllocations, TotalAllocated' \in Int,
         Budget' \in [Users -> Budgets!BudgetRecord \cup {Unset}],
         BudgetAsset' \in [Users -> [BudgetAssets -> Nat \cup {Unset}]]
  PROVE  BudgetAllocations'
BY DEF BudgetAllocations

LEMMA AllocatingStep ==
  ASSUME Budgets!BudgetAssumption, BudgetInv, Budgets!Allocating
  PROVE  BudgetInv' /\ Beneficiaries' = Beneficiaries
<1>1. ASSUME NEW u \in Users, Budgets!Initialize(u)
      PROVE  BudgetInv' /\ Beneficiaries' = Beneficiaries
  <2>1. /\ Admin' = u /\ TotalAllocated' = 0
        /\ UNCHANGED <<Budget, BudgetAsset, UserBudget, LastActivity, Beneficiaries, budgetTime>>
    BY <1>1 DEF Budgets!Initialize, Budgets!heirs
  <2>2. BudgetAllocations'
    BY <2>1 DEF BudgetInv, BudgetAllocations
  <2> QED
    BY <2>1, <2>2, BudgetRest
<1>2. ASSUME NEW c \in Users, NEW u \in Owners, NEW n \in BudgetAmounts,
             NEW a \in BudgetAssets \cup {Unset}, Budgets!UpdateBudget(c, u, n, a)
      PROVE  BudgetInv' /\ Beneficiaries' = Beneficiaries
  <2>1. /\ n > 0 /\ n \in Int /\ u \in Users
        /\ TotalAllocated' = Budgets!Reallocated(u, n)
        /\ UNCHANGED <<Admin, UserBudget, Beneficiaries, budgetTime>>
        /\ LastActivity' = Budgets!Touched(u)
    BY <1>2, BudgetArguments DEF Budgets!UpdateBudget, Budgets!heirs
  <2>2. PICK m \in Nat : m = n
    BY <2>1
  <2>3. TotalAllocated' \in Int
    BY <2>1, AmountOfType DEF Budgets!Reallocated, BudgetInv, BudgetAllocations
  <2>4. Budget' \in [Users -> Budgets!BudgetRecord \cup {Unset}]
    <3>1. Budgets!NewRecord(u, m) \in Budgets!BudgetRecord
      BY <2>1, NewRecordType DEF BudgetInv
    <3>2. [Budget EXCEPT ![u] = Budgets!NewRecord(u, m)] \in [Users -> Budgets!BudgetRecord \cup {Unset}]
      BY <2>1, <3>1, BudgetReplaced DEF BudgetInv
    <3> QED
      BY <1>2, <2>2, <3>2 DEF Budgets!UpdateBudget, BudgetInv, BudgetAllocations
  <2>5. BudgetAsset' \in [Users -> [BudgetAssets -> Nat \cup {Unset}]]
    <3>1. BudgetAsset \in [Users -> [BudgetAssets -> Nat \cup {Unset}]]
      BY DEF BudgetInv, BudgetAllocations
    <3>2. CASE a = Unset
      BY <1>2, <3>1, <3>2 DEF Budgets!UpdateBudget
    <3>3. CASE a # Unset
      BY <1>2, <2>1, <2>2, <3>1, <3>3 DEF Budgets!UpdateBudget
    <3> QED
      BY <3>2, <3>3
  <2>6. BudgetAllocations'
    BY <2>3, <2>4, <2>5, BudgetAllocationsNew DEF BudgetInv
  <2>7. BudgetClock'
    BY <2>1, TouchedType DEF BudgetInv
  <2> QED
    BY <2>1, <2>6, <2>7, BudgetRest DEF BudgetInv
<1> QED
  BY <1>1, <1>2 DEF Budgets!Allocating

LEMMA RulingStep ==
  ASSUME Budgets!BudgetAssumption, BudgetInv, Budgets!Ruling
  PROVE  BudgetInv' /\ Beneficiaries' = Beneficiaries
<1>1. ASSUME NEW m \in Users, NEW u \in Owners, NEW k \in BudgetAmounts,
             Budgets!DelegatedUpdateBudget(m, u, k)
      PROVE  BudgetInv' /\ Beneficiaries' = Beneficiaries
  <2>1. /\ k > 0 /\ k \in Int /\ u \in Users
        /\ TotalAllocated' = Budgets!Reallocated(u, k)
        /\ Budget' = [Budget EXCEPT ![u] = Budgets!NewRecord(u, k)]
        /\ UNCHANGED <<Admin, BudgetAsset, UserBudget, LastActivity, Beneficiaries, budgetTime>>
    BY <1>1, BudgetArguments DEF Budgets!DelegatedUpdateBudget, Budgets!heirs
  <2>2. PICK n \in Nat : n = k
    BY <2>1
  <2>3. TotalAllocated' \in Int
    BY <2>1, AmountOfType DEF Budgets!Reallocated, BudgetInv, BudgetAllocations
  <2>4. Budget' \in [Users -> Budgets!BudgetRecord \cup {Unset}]
    <3>1. Budgets!NewRecord(u, n) \in Budgets!BudgetRecord
      BY <2>1, NewRecordType DEF BudgetInv
    <3> QED
      BY <2>1, <2>2, <3>1, BudgetReplaced DEF BudgetInv
  <2>5. BudgetAllocations'
    BY <2>1, <2>3, <2>4, BudgetAllocationsNew DEF BudgetInv, BudgetAllocations
  <2> QED
    BY <2>1, <2>5, BudgetRest DEF BudgetInv
<1>2. ASSUME UNCHANGED <<Admin, Budgets!amounts, UserBudget, LastActivity, Budgets!heirs, budgetTime>>
      PROVE  BudgetInv' /\ Beneficiaries' = Beneficiaries
  <2>1. UNCHANGED <<Admin, TotalAllocated, Budget, BudgetAsset, UserBudget, LastActivity,
                    Beneficiaries, budgetTime>>
    BY <1>2 DEF Budgets!amounts, Budgets!heirs
  <2> QED
    BY <2>1, BudgetAllocationsStay, BudgetRest DEF BudgetInv
<1> QED
  BY <1>1, <1>2 DEF Budgets!Ruling, Budgets!DelegateManager, Budgets!RevokeManager,
                    Budgets!AddGlobalRule, Budgets!AddUserRule

\* New limits of one user.
LEMMA NewLimits ==
  ASSUME BudgetUserLimits, BudgetClock, NEW u \in Users,
         NEW limits \in [BudgetCategories -> Nat \cup {Unset}],
         UserBudget' = [UserBudget EXCEPT ![u] = Budgets!WithLimits(limits)]
  PROVE  BudgetUserLimits'
<1>1. Budgets!WithLimits(limits) \in BudgetLimits
  BY DEF Budgets!WithLimits, BudgetLimits, BudgetClock
<1> QED
  BY <1>1 DEF BudgetUserLimits

LEMMA LimitingStep ==
  ASSUME Budgets!BudgetAssumption, BudgetInv, Budgets!Limiting
  PROVE  BudgetInv' /\ Beneficiaries' = Beneficiaries
<1>1. PICK c \in Users, u \in Owners, k \in BudgetCategories, n \in BudgetAmounts :
        Budgets!SetCategoryBudget(c, u, k, n)
  BY DEF Budgets!Limiting
<1>2. /\ n >= 0 /\ n \in Int /\ u \in Users
      /\ UserBudget' = [UserBudget EXCEPT ![u] =
                          Budgets!WithLimits([Budgets!LimitsOf(u) EXCEPT ![k] = n])]
      /\ UNCHANGED <<Admin, TotalAllocated, Budget, BudgetAsset, Beneficiaries, budgetTime>>
      /\ LastActivity' = Budgets!Touched(u)
  BY <1>1, BudgetArguments DEF Budgets!SetCategoryBudget, Budgets!amounts, Budgets!heirs
<1>3. [Budgets!LimitsOf(u) EXCEPT ![k] = n] \in [BudgetCategories -> Nat \cup {Unset}]
  BY <1>2, BudgetLimitsOf DEF BudgetInv
<1>4. BudgetUserLimits'
  BY <1>2, <1>3, NewLimits DEF BudgetInv
<1>5. BudgetClock'
  BY <1>2, TouchedType DEF BudgetInv
<1>6. BudgetAllocations'
  BY <1>2, BudgetAllocationsStay DEF BudgetInv
<1> QED
  BY <1>2, <1>4, <1>5, <1>6, BudgetRest DEF BudgetInv

LEMMA SuspendingStep ==
  ASSUME Budgets!BudgetAssumption, BudgetInv, Budgets!Suspending
  PROVE  BudgetInv' /\ Beneficiaries' = Beneficiaries
<1>1. /\ UNCHANGED <<Admin, TotalAllocated, BudgetAsset, UserBudget, LastActivity, Beneficiaries, budgetTime>>
      /\ \E u \in Users : \/ Budgets!AutoResume(u)
                          \/ Budget' = Budgets!Activated(u, TRUE)
                          \/ Budget' = Budgets!Activated(u, FALSE)
  BY BudgetArguments DEF Budgets!Suspending, Budgets!SuspendBudget, Budgets!ResumeBudget,
     Budgets!AskSuspended, Budgets!heirs
<1>2. PICK u \in Users : \/ Budgets!AutoResume(u)
                         \/ Budget' = Budgets!Activated(u, TRUE)
                         \/ Budget' = Budgets!Activated(u, FALSE)
  BY <1>1
<1>3. Budget' \in [Users -> Budgets!BudgetRecord \cup {Unset}]
  BY <1>2, ActivatedType, AutoResumeType DEF BudgetInv
<1>4. BudgetAllocations'
  BY <1>1, <1>3, BudgetAllocationsNew DEF BudgetInv, BudgetAllocations
<1> QED
  BY <1>1, <1>4, BudgetRest DEF BudgetInv

LEMMA TransferringStep ==
  ASSUME Budgets!BudgetAssumption, BudgetInv, Budgets!Transferring
  PROVE  BudgetInv' /\ Beneficiaries' = Beneficiaries
<1>1. PICK u \in Owners, from \in BudgetCategories, to \in BudgetCategories, n \in BudgetAmounts :
        Budgets!TransferBetweenCategories(u, from, to, n)
  BY DEF Budgets!Transferring
<1>2. PICK limits \in [BudgetCategories -> Nat \cup {Unset}] : limits = Budgets!LimitsOf(u)
  BY BudgetLimitsOf, BudgetArguments DEF BudgetInv
<1>3. /\ n > 0 /\ n \in Int /\ u \in Users
      /\ limits[from] # Unset /\ limits[to] # Unset /\ n <= limits[from] /\ from # to
      /\ UserBudget' = [UserBudget EXCEPT ![u] =
           Budgets!WithLimits([limits EXCEPT ![from] = @ - n, ![to] = @ + n])]
      /\ Budgets!AutoResume(u)
      /\ UNCHANGED <<Admin, TotalAllocated, BudgetAsset, Beneficiaries, budgetTime>>
      /\ LastActivity' = Budgets!Touched(u)
  BY <1>1, <1>2, BudgetArguments DEF Budgets!TransferBetweenCategories, Budgets!heirs
<1>4. [limits EXCEPT ![from] = @ - n, ![to] = @ + n] \in [BudgetCategories -> Nat \cup {Unset}]
  <2>1. PICK x \in Nat, y \in Nat : x = limits[from] - n /\ y = limits[to] + n
    BY <1>3
  <2>2. [limits EXCEPT ![from] = @ - n, ![to] = @ + n] = [[limits EXCEPT ![from] = x] EXCEPT ![to] = y]
    BY <1>3, <2>1
  <2> QED
    BY <2>2
<1>5. BudgetUserLimits'
  BY <1>3, <1>4, NewLimits DEF BudgetInv
<1>6. BudgetClock'
  BY <1>3, TouchedType DEF BudgetInv
<1>7. BudgetAllocations'
  BY <1>3, AutoResumeType, BudgetAllocationsNew DEF BudgetInv, BudgetAllocations
<1> QED
  BY <1>3, <1>5, <1>6, <1>7, BudgetRest DEF BudgetInv

NumbersOf(f) == [x \in DOMAIN f |-> Budgets!NumberOf(f[x])]

LEMMA SumOfIsTotal ==
  ASSUME NEW f
  PROVE  Budgets!SumOf(f) = Total(NumbersOf(f), DOMAIN f)
BY DEF Budgets!SumOf, NumbersOf, Budgets!FoldFunction, Budgets!FoldFunctionOnSet,
       Budgets!MapThenFoldSet, Total, IsTotal, Choice

LEMMA ExpiringStep ==
  ASSUME Budgets!BudgetAssumption, BudgetInv, Budgets!Expiring
  PROVE  BudgetInv' /\ Beneficiaries' = Beneficiaries
<1>1. ASSUME UNCHANGED <<Admin, TotalAllocated, BudgetAsset, UserBudget, LastActivity,
                         Beneficiaries, budgetTime>>,
             Budget' \in [Users -> Budgets!BudgetRecord \cup {Unset}]
      PROVE  BudgetInv' /\ Beneficiaries' = Beneficiaries
  <2>1. BudgetAllocations'
    BY <1>1, BudgetAllocationsNew DEF BudgetInv, BudgetAllocations
  <2> QED
    BY <1>1, <2>1, BudgetRest DEF BudgetInv
<1>2. ASSUME NEW c \in Users, NEW u \in Owners, NEW t \in Expirations,
             Budgets!ConfigureExpiration(c, u, t)
      PROVE  BudgetInv' /\ Beneficiaries' = Beneficiaries
  <2>1. /\ UNCHANGED <<Admin, TotalAllocated, BudgetAsset, UserBudget, LastActivity,
                       Beneficiaries, budgetTime>>
        /\ Budget[u] # Unset /\ Budget' = [Budget EXCEPT ![u].expires_at = t] /\ u \in Users
    BY <1>2, BudgetArguments DEF Budgets!ConfigureExpiration, Budgets!heirs
  <2>2. PICK r \in Budgets!BudgetRecord : r = Budget[u]
    BY <2>1 DEF BudgetInv, BudgetAllocations
  <2>3. PICK e \in Nat \cup {Unset} : e = t
    BY BudgetConstants
  <2>4. [r EXCEPT !.expires_at = e] \in Budgets!BudgetRecord
    BY DEF Budgets!BudgetRecord
  <2>5. Budget' = [Budget EXCEPT ![u] = [r EXCEPT !.expires_at = e]]
    BY <2>1, <2>2, <2>3
  <2>6. Budget' \in [Users -> Budgets!BudgetRecord \cup {Unset}]
    BY <2>1, <2>4, <2>5, BudgetReplaced DEF BudgetInv
  <2> QED
    BY <1>1, <2>1, <2>6
<1>3. ASSUME NEW u \in Owners,
             Budgets!DeactivateIfExpired(u) \/ \E c \in Users : Budgets!MarkInactive(c, u)
      PROVE  BudgetInv' /\ Beneficiaries' = Beneficiaries
  <2>1. /\ UNCHANGED <<Admin, TotalAllocated, BudgetAsset, UserBudget, LastActivity,
                       Beneficiaries, budgetTime>>
        /\ Budget' = Budgets!Activated(u, FALSE) /\ u \in Users
    BY <1>3, BudgetArguments DEF Budgets!MarkInactive, Budgets!DeactivateIfExpired, Budgets!heirs
  <2> QED
    BY <1>1, <2>1, ActivatedType DEF BudgetInv
<1>4. ASSUME NEW c \in Users, NEW u \in Owners,
             Budgets!ScheduleDeletion(c, u) \/ Budgets!CancelDeletion(c, u)
      PROVE  BudgetInv' /\ Beneficiaries' = Beneficiaries
  <2>1. UNCHANGED <<Admin, TotalAllocated, Budget, BudgetAsset, UserBudget, LastActivity,
                    Beneficiaries, budgetTime>>
    BY <1>4 DEF Budgets!ScheduleDeletion, Budgets!CancelDeletion, Budgets!heirs, Budgets!amounts
  <2> QED
    BY <1>1, <2>1 DEF BudgetInv, BudgetAllocations
<1>5. ASSUME NEW c \in Users, NEW u \in Owners, Budgets!ExecuteDeletion(c, u)
      PROVE  BudgetInv' /\ Beneficiaries' = Beneficiaries
  <2>1. /\ TotalAllocated' = TotalAllocated - Budgets!AmountOf(u) - Budgets!SumOf(BudgetAsset[u])
        /\ Budget' = [Budget EXCEPT ![u] = Unset]
        /\ BudgetAsset' = [BudgetAsset EXCEPT ![u] = Budgets!NoAssets]
        /\ UNCHANGED <<Admin, UserBudget, LastActivity, Beneficiaries, budgetTime>>
        /\ u \in Users
    BY <1>5, BudgetArguments DEF Budgets!ExecuteDeletion, Budgets!heirs
  <2>2. Budgets!SumOf(BudgetAsset[u]) \in Int
    <3>1. PICK f \in [BudgetAssets -> Nat \cup {Unset}] : f = BudgetAsset[u]
      BY <2>1 DEF BudgetInv, BudgetAllocations
    <3>2. \A a \in BudgetAssets : NumbersOf(f)[a] \in Int
      BY DEF NumbersOf, Budgets!NumberOf
    <3>3. Total(NumbersOf(f), BudgetAssets) \in Int
      BY <3>2, BudgetConstants, TotalType
    <3> QED
      BY <3>1, <3>3, SumOfIsTotal
  <2>3. TotalAllocated' \in Int
    BY <2>1, <2>2, AmountOfType DEF BudgetInv, BudgetAllocations
  <2>4. Budget' \in [Users -> Budgets!BudgetRecord \cup {Unset}]
    BY <2>1, BudgetReplaced DEF BudgetInv
  <2>5. BudgetAsset' \in [Users -> [BudgetAssets -> Nat \cup {Unset}]]
    BY <2>1 DEF Budgets!NoAssets, BudgetInv, BudgetAllocations
  <2>6. BudgetAllocations'
    BY <2>3, <2>4, <2>5, BudgetAllocationsNew DEF BudgetInv
  <2> QED
    BY <2>1, <2>6, BudgetRest DEF BudgetInv
<1> QED
  BY <1>2, <1>3, <1>4, <1>5 DEF Budgets!Expiring

LEMMA ClosingStep ==
  ASSUME Budgets!BudgetAssumption, BudgetInv, Budgets!CloseLedger
  PROVE  BudgetInv' /\ Beneficiaries' = Beneficiaries
<1>1. /\ budgetTime < BudgetMaxTime /\ budgetTime' = budgetTime + 1
      /\ UNCHANGED <<Admin, TotalAllocated, Budget, BudgetAsset, UserBudget, LastActivity, Beneficiaries>>
  BY DEF Budgets!CloseLedger, Budgets!amounts, Budgets!heirs
<1>2. BudgetClock'
  BY <1>1, BudgetConstants DEF BudgetInv, BudgetClock
<1>3. BudgetAllocations'
  BY <1>1, BudgetAllocationsStay DEF BudgetInv
<1> QED
  BY <1>1, <1>2, <1>3, BudgetRest DEF BudgetInv

LEMMA TimeoutStep ==
  ASSUME Budgets!BudgetAssumption, BudgetInv, NEW u \in Owners, NEW t \in Timeouts,
         Budgets!SetInactivityTimeout(u, t)
  PROVE  BudgetInv' /\ Beneficiaries' = Beneficiaries
<1>1. /\ UNCHANGED <<Admin, TotalAllocated, Budget, BudgetAsset, UserBudget, Beneficiaries, budgetTime>>
      /\ LastActivity' = Budgets!Touched(u) /\ u \in Users
  BY BudgetArguments DEF Budgets!SetInactivityTimeout, Budgets!amounts
<1>2. BudgetClock'
  BY <1>1, TouchedType DEF BudgetInv
<1>3. BudgetAllocations'
  BY <1>1, BudgetAllocationsStay DEF BudgetInv
<1> QED
  BY <1>1, <1>2, <1>3, BudgetRest DEF BudgetInv

LEMMA RegisteringStep ==
  ASSUME Budgets!BudgetAssumption, BudgetInv, NEW u \in Owners, NEW list \in BeneficiaryLists,
         Budgets!RegisterBeneficiaries(u, list)
  PROVE  BudgetInv' /\ \A v \in Users : Beneficiaries[v] # << >> /\ Beneficiaries'[v] = << >>
                                          => LastActivity'[v] # 0
<1>1. /\ UNCHANGED <<Admin, TotalAllocated, Budget, BudgetAsset, UserBudget, budgetTime>>
      /\ LastActivity' = Budgets!Touched(u) /\ u \in Users /\ list \in Seq(Heirs)
      /\ Beneficiaries' = [Beneficiaries EXCEPT ![u] = list]
      /\ list # << >> => Budgets!PercentageSum(list) = 100
  BY BudgetArguments, BudgetConstants DEF Budgets!RegisterBeneficiaries, Budgets!amounts
<1>2. BudgetClock' /\ LastActivity'[u] # 0
  BY <1>1, TouchedType DEF BudgetInv
<1>3. BudgetAllocations'
  BY <1>1, BudgetAllocationsStay DEF BudgetInv
<1>4. BudgetHeirs'
  <2>1. Beneficiaries' \in [Users -> Seq(Heirs)]
    BY <1>1 DEF BudgetInv, BudgetHeirs
  <2>2. ASSUME NEW v \in Users, Beneficiaries'[v] # << >>
        PROVE  Total(PercentOf(Beneficiaries'[v]), DOMAIN Beneficiaries'[v]) = 100
    <3>1. CASE v = u
      <4>1. Beneficiaries'[v] = list /\ list # << >>
        BY <1>1, <2>2, <3>1 DEF BudgetInv, BudgetHeirs
      <4> QED
        BY <1>1, <4>1, PercentagesAreTotal
    <3>2. CASE v # u
      BY <1>1, <2>2, <3>2 DEF BudgetInv, BudgetHeirs
    <3> QED
      BY <3>1, <3>2
  <2> QED
    BY <2>1, <2>2 DEF BudgetHeirs, PercentOf
<1>5. BudgetUserLimits'
  BY <1>1 DEF BudgetInv, BudgetUserLimits
<1>6. \A v \in Users : Beneficiaries[v] # << >> /\ Beneficiaries'[v] = << >> => LastActivity'[v] # 0
  BY <1>1, <1>2 DEF BudgetInv, BudgetHeirs
<1> QED
  BY <1>1, <1>2, <1>3, <1>4, <1>5, <1>6 DEF BudgetInv

------------------------------------------------------------------------------
\* Distribution: what the beneficiaries get of a number.

HeirOf(list) == [i \in DOMAIN list |-> list[i].address]

\* A list of beneficiaries whose parts are all of the budget.
WholeList(list) ==
  /\ list \in Seq(Heirs) /\ Total(PercentOf(list), DOMAIN list) = 100

LEMMA HeirsListed ==
  ASSUME NEW list, WholeList(list)
  PROVE  /\ IsFiniteSet(DOMAIN list) /\ DOMAIN list = 1..Len(list) /\ Len(list) \in Nat
         /\ \A i \in DOMAIN list :
              /\ list[i].address \in Users /\ list[i].percentage \in Nat
              /\ HeirOf(list)[i] = list[i].address /\ PercentOf(list)[i] = list[i].percentage
<1>1. list \in Seq(Heirs)
  BY DEF WholeList
<1>2. DOMAIN list = 1..Len(list) /\ Len(list) \in Nat
  BY <1>1
<1>3. \A i \in DOMAIN list : list[i] \in Heirs
  BY <1>1
<1>4. IsFiniteSet(DOMAIN list)
  BY <1>2, FS_Interval
<1> QED
  BY <1>2, <1>3, <1>4 DEF Heirs, HeirOf, PercentOf

LEMMA HeirEntries ==
  ASSUME NEW list, NEW u
  PROVE  Budgets!Entries(list, u) = Keyed(DOMAIN list, HeirOf(list), u)
BY DEF Budgets!Entries, Keyed, HeirOf

LEMMA BudgetGetsIsTotal ==
  ASSUME NEW o, NEW u, NEW n
  PROVE  /\ Budgets!Gets(o, u, n) =
              Total(Budgets!Shares(Beneficiaries[o], n), Budgets!Entries(Beneficiaries[o], u))
         /\ Budgets!GetsOfAsset(o, u, n) =
              Total(Budgets!SharesOfHeld(Beneficiaries[o], o, n), Budgets!Entries(Beneficiaries[o], u))
BY DEF Budgets!Gets, Budgets!GetsOfAsset, Budgets!FoldFunctionOnSet,
       Budgets!MapThenFoldSet, Total, IsTotal, Choice

\* The shares of a number are together no more than it.
LEMMA SharesFit ==
  ASSUME NEW list, WholeList(list), NEW n \in Nat, NEW share, share = Budgets!Shares(list, n)
  PROVE  /\ \A i \in DOMAIN list : share[i] \in Nat
         /\ Total(share, DOMAIN list) \in Nat /\ Total(share, DOMAIN list) <= n
<1>1. PICK part, I : part = PercentOf(list) /\ I = DOMAIN list
  OBVIOUS
<1>2. IsFiniteSet(I) /\ \A i \in I : part[i] \in Nat /\ list[i].percentage = part[i]
  BY <1>1, HeirsListed
<1>3. Total(part, I) = 100
  BY <1>1 DEF WholeList
<1>4. \A i \in I : share[i] = (n * part[i]) \div 100
  BY <1>1, <1>2 DEF Budgets!Shares, Budgets!Share
<1>5. PICK d \in Nat \ {0} : d = 100
  OBVIOUS
<1>6. /\ Total(part, I) = d
      /\ \A i \in I : share[i] = (n * part[i]) \div d
  BY <1>3, <1>4, <1>5
<1>7. /\ \A i \in I : share[i] \in Nat
      /\ Total(share, I) \in Nat /\ Total(share, I) <= n
  BY <1>2, <1>6, SharesOfAll
<1> QED
  BY <1>1, <1>7

\* What one user gets is a natural number, and nothing without an entry.
LEMMA HeirsShare ==
  ASSUME NEW list, WholeList(list), NEW u, NEW share, \A i \in DOMAIN list : share[i] \in Nat
  PROVE  /\ Total(share, Budgets!Entries(list, u)) \in Nat
         /\ u \notin Budgets!Names(list) => Total(share, Budgets!Entries(list, u)) = 0
<1>1. PICK E : E = Budgets!Entries(list, u)
  OBVIOUS
<1>2. E \subseteq DOMAIN list
  BY <1>1 DEF Budgets!Entries
<1>3. IsFiniteSet(E)
  BY <1>2, HeirsListed, FS_Subset
<1>4. Total(share, E) \in Nat
  BY <1>2, <1>3, TotalNat
<1>5. u \notin Budgets!Names(list) => E = {}
  BY <1>1 DEF Budgets!Names, Budgets!Entries
<1> QED
  BY <1>1, <1>4, <1>5, TotalEmpty

------------------------------------------------------------------------------
\* Distribution: of an asset, the owner's own shares come back to it, and the
\* entries after them share what it then has.

\* held is the function the recursion in HeldAfter describes.
IsHeld(held, list, o, n) ==
  held = [i \in 0..Len(list) |->
            IF i = 0 THEN n
            ELSE held[i - 1] + (IF list[i].address = o
                                THEN Budgets!Share(held[i - 1], list[i].percentage) ELSE 0)]

LEMMA ShareType ==
  ASSUME NEW n \in Nat, NEW p \in Nat
  PROVE  Budgets!Share(n, p) \in Nat /\ 100 * Budgets!Share(n, p) <= n * p
<1>1. PICK w \in Nat : w = n * p
  OBVIOUS
<1>2. w \div 100 \in Nat /\ 100 * (w \div 100) <= w
  BY <1>1
<1> QED
  BY <1>1, <1>2 DEF Budgets!Share

LEMMA HeldExists ==
  ASSUME NEW list, WholeList(list), NEW o, NEW n \in Nat
  PROVE  \E held : IsHeld(held, list, o, n)
<1>1. PICK k \in Nat : k = Len(list) /\ DOMAIN list = 1..k
  BY HeirsListed
<1>2. PICK back : back = [m \in Nat |-> [i \in 1..k |->
                            m + (IF list[i].address = o
                                 THEN Budgets!Share(m, list[i].percentage) ELSE 0)]]
  OBVIOUS
<1>3. back \in [Nat -> [1..k -> Nat]]
  <2>1. ASSUME NEW m \in Nat, NEW i \in 1..k
        PROVE  m + (IF list[i].address = o
                    THEN Budgets!Share(m, list[i].percentage) ELSE 0) \in Nat
    <3>1. list[i].percentage \in Nat
      BY <1>1, HeirsListed
    <3>2. PICK s \in Nat : s = Budgets!Share(m, list[i].percentage)
      BY <3>1, ShareType
    <3> QED
      BY <3>2
  <2> QED
    BY <1>2, <2>1
<1>4. PICK g : g \in [SUBSET (1..k) -> Nat] /\ IsLeftFold(g, k, n, back)
  BY <1>3, LeftFoldExists
<1>5. g[1..0] = n /\ \A i \in 1..k : g[1..i] = back[g[1..(i - 1)]][i]
  BY <1>4, LeftFoldSteps
<1>6. PICK held : held = [i \in 0..k |-> g[1..i]]
  OBVIOUS
<1>7. ASSUME NEW i \in 0..k
      PROVE  held[i] = IF i = 0 THEN n
                       ELSE held[i - 1] + (IF list[i].address = o
                                           THEN Budgets!Share(held[i - 1], list[i].percentage) ELSE 0)
  <2>1. CASE i = 0
    BY <1>5, <1>6, <2>1
  <2>2. CASE i # 0
    <3>1. i \in 1..k /\ i - 1 \in 0..k
      BY <2>2
    <3>2. 1..(i - 1) \in SUBSET (1..k)
      BY <3>1
    <3>3. PICK m \in Nat : m = g[1..(i - 1)]
      BY <1>4, <3>2
    <3>4. held[i] = back[m][i] /\ held[i - 1] = m
      BY <1>5, <1>6, <3>1, <3>3
    <3>5. back[m][i] = m + (IF list[i].address = o
                            THEN Budgets!Share(m, list[i].percentage) ELSE 0)
      BY <1>2, <3>1
    <3> QED
      BY <2>2, <3>4, <3>5
  <2> QED
    BY <2>1, <2>2
<1>8. IsHeld(held, list, o, n)
  BY <1>1, <1>6, <1>7 DEF IsHeld
<1> QED
  BY <1>8

LEMMA HeldIs ==
  ASSUME NEW list, WholeList(list), NEW o, NEW n \in Nat
  PROVE  IsHeld(Budgets!HeldAfter(list, o, n), list, o, n)
<1>1. \E held : IsHeld(held, list, o, n)
  BY HeldExists
<1>2. PICK h : h = CHOOSE held : IsHeld(held, list, o, n)
  OBVIOUS
<1>3. IsHeld(h, list, o, n)
  BY <1>1, <1>2
<1>4. Budgets!HeldAfter(list, o, n) = h
  BY <1>2 DEF Budgets!HeldAfter, IsHeld
<1> QED
  BY <1>3, <1>4

LEMMA HeldSteps ==
  ASSUME NEW list, WholeList(list), NEW o, NEW n \in Nat,
         NEW held, held = Budgets!HeldAfter(list, o, n)
  PROVE  /\ held[0] = n
         /\ \A i \in 0..Len(list) : held[i] \in Nat
         /\ \A i \in 1..Len(list) :
              held[i] = held[i - 1] + (IF list[i].address = o
                                       THEN Budgets!Share(held[i - 1], list[i].percentage) ELSE 0)
<1>1. PICK k \in Nat : k = Len(list) /\ DOMAIN list = 1..k
  BY HeirsListed
<1>2. IsHeld(held, list, o, n)
  BY HeldIs
<1>3. held[0] = n
  BY <1>1, <1>2 DEF IsHeld
<1>4. ASSUME NEW i \in 1..k
      PROVE  held[i] = held[i - 1] + (IF list[i].address = o
                                      THEN Budgets!Share(held[i - 1], list[i].percentage) ELSE 0)
  <2>1. i \in 0..k /\ i # 0
    OBVIOUS
  <2> QED
    BY <1>1, <1>2, <2>1 DEF IsHeld
<1>5. \A i \in 0..k : held[i] \in Nat
  <2> DEFINE P == {i \in Nat : i <= k => held[i] \in Nat}
  <2>1. 0 \in P
    BY <1>3
  <2>2. ASSUME NEW i \in Nat, i \in P PROVE i + 1 \in P
    <3>1. SUFFICES ASSUME i + 1 <= k PROVE held[i + 1] \in Nat
      OBVIOUS
    <3>2. i + 1 \in 1..k /\ (i + 1) - 1 = i
      BY <3>1
    <3>3. PICK m \in Nat : m = held[i]
      BY <2>2, <3>1
    <3>4. list[i + 1].percentage \in Nat
      BY <1>1, <3>2, HeirsListed
    <3>5. PICK s \in Nat : s = Budgets!Share(m, list[i + 1].percentage)
      BY <3>4, ShareType
    <3> QED
      BY <1>4, <3>2, <3>3, <3>5
  <2> HIDE DEF P
  <2>3. \A i \in Nat : i \in P
    BY <2>1, <2>2, NatSetInduction
  <2> QED
    BY <2>3 DEF P
<1> QED
  BY <1>1, <1>3, <1>4, <1>5

\* One entry, with g given away before, h held, r parts left of 100, p of them for
\* this entry and s its share of what is held.
LEMMA HeldEntry ==
  ASSUME NEW g \in Nat, NEW h \in Nat, NEW r \in Nat, NEW p \in Nat, NEW s \in Nat, NEW n \in Nat,
         p <= r, r <= 100, 100 * s <= h * p, 100 * g + h * r <= 100 * n
  PROVE  /\ 100 * (g + s) + h * (r - p) <= 100 * n
         /\ 100 * g + (h + s) * (r - p) <= 100 * n
<1>1. PICK x \in Nat, y \in Nat : x = h * r /\ y = h * p
  OBVIOUS
<1>2. h * (r - p) = x - y
  BY <1>1
<1>3. PICK q \in Nat : q = r - p /\ q <= 100
  OBVIOUS
<1>4. s * q <= s * 100
  BY <1>3
<1>5. (h + s) * q = h * q + s * q
  BY <1>3
<1>6. 100 * (g + s) = 100 * g + 100 * s
  OBVIOUS
<1>7. PICK z \in Nat : z = s * q /\ z <= 100 * s
  BY <1>3, <1>4
<1> QED
  BY <1>1, <1>2, <1>3, <1>5, <1>6, <1>7

\* What the owner gives away of an asset is no more than it has.
LEMMA HeldSharesFit ==
  ASSUME NEW list, WholeList(list), NEW o, NEW n \in Nat,
         NEW share, share = Budgets!SharesOfHeld(list, o, n)
  PROVE  /\ \A i \in DOMAIN list : share[i] \in Nat
         /\ Total(share, (DOMAIN list) \ Keyed(DOMAIN list, HeirOf(list), o)) <= n
<1>1. PICK k \in Nat : k = Len(list) /\ DOMAIN list = 1..k
  BY HeirsListed
<1>2. PICK held, part : held = Budgets!HeldAfter(list, o, n) /\ part = PercentOf(list)
  OBVIOUS
<1>3. \A i \in 1..k : part[i] \in Nat /\ list[i].percentage = part[i]
  BY <1>1, <1>2, HeirsListed
<1>4. Total(part, 1..k) = 100
  BY <1>1, <1>2 DEF WholeList
<1>5. /\ held[0] = n
      /\ \A i \in 0..k : held[i] \in Nat
      /\ \A i \in 1..k :
           held[i] = held[i - 1] + (IF list[i].address = o
                                    THEN Budgets!Share(held[i - 1], part[i]) ELSE 0)
  BY <1>1, <1>2, <1>3, HeldSteps
<1>6. \A i \in 1..k : share[i] = Budgets!Share(held[i - 1], part[i])
  BY <1>1, <1>2, <1>3 DEF Budgets!SharesOfHeld
<1>7. ASSUME NEW i \in 1..k
      PROVE  share[i] \in Nat /\ 100 * share[i] <= held[i - 1] * part[i]
  <2>1. i - 1 \in 0..k
    OBVIOUS
  <2>2. PICK h \in Nat, p \in Nat : h = held[i - 1] /\ p = part[i]
    BY <1>3, <1>5, <2>1
  <2> QED
    BY <1>6, <2>2, ShareType
<1>8. PICK given : given = [i \in 1..k |-> IF list[i].address = o THEN 0 ELSE share[i]]
  OBVIOUS
<1>9. \A i \in 1..k : given[i] \in Nat /\ given[i] \in Int /\ part[i] \in Int
  BY <1>3, <1>7, <1>8
<1>10. /\ Total(given, 1..0) = 0 /\ Total(part, 1..0) = 0
       /\ \A i \in 1..k : Total(given, 1..i) = Total(given, 1..(i - 1)) + given[i]
       /\ \A i \in 1..k : Total(part, 1..i) = Total(part, 1..(i - 1)) + part[i]
  BY <1>9, TotalOfPrefix
<1>11. ASSUME NEW i \in 0..k
       PROVE  /\ Total(given, 1..i) \in Nat /\ Total(part, 1..i) \in Nat
              /\ Total(part, 1..i) <= 100
  <2>1. PICK I, K : I = 1..k /\ K = 1..i
    OBVIOUS
  <2>2. /\ IsFiniteSet(I) /\ K \in SUBSET I
        /\ \A j \in I : given[j] \in Nat /\ part[j] \in Nat
    BY <1>3, <1>9, <2>1, FS_Interval
  <2>3. Total(given, K) \in Nat /\ Total(part, K) \in Nat /\ Total(part, K) <= Total(part, I)
    BY <2>2, TotalOfPart
  <2> QED
    BY <1>4, <2>1, <2>3
<1>12. 100 * Total(given, 1..k) + held[k] * (100 - Total(part, 1..k)) <= 100 * n
  <2> DEFINE P == {i \in Nat : i <= k =>
                     100 * Total(given, 1..i) + held[i] * (100 - Total(part, 1..i)) <= 100 * n}
  <2>1. 0 \in P
    BY <1>5, <1>10
  <2>2. ASSUME NEW i \in Nat, i \in P PROVE i + 1 \in P
    <3>1. SUFFICES ASSUME i + 1 <= k
                   PROVE  100 * Total(given, 1..(i + 1))
                            + held[i + 1] * (100 - Total(part, 1..(i + 1))) <= 100 * n
      OBVIOUS
    <3>2. PICK j \in 1..k : j = i + 1
      BY <3>1
    <3>3. i \in 0..k /\ j \in 0..k /\ j - 1 = i
      BY <3>2
    <3>4. PICK g \in Nat, h \in Nat, u \in Nat, p \in Nat, s \in Nat :
            /\ g = Total(given, 1..i) /\ h = held[i] /\ u = Total(part, 1..i)
            /\ p = part[j] /\ s = share[j]
      BY <1>3, <1>5, <1>7, <1>11, <3>3
    <3>5. /\ Total(given, 1..j) = g + given[j]
          /\ Total(part, 1..j) = u + p /\ u + p <= 100
      BY <1>10, <1>11, <3>2, <3>3, <3>4
    <3>6. PICK r \in Nat : r = 100 - u /\ p <= r /\ r <= 100
      BY <3>4, <3>5
    <3>7. 100 * s <= h * p
      BY <1>7, <3>3, <3>4
    <3>8. 100 * g + h * r <= 100 * n
      BY <2>2, <3>1, <3>4, <3>6
    <3>9. /\ 100 * (g + s) + h * (r - p) <= 100 * n
          /\ 100 * g + (h + s) * (r - p) <= 100 * n
      BY <3>6, <3>7, <3>8, HeldEntry
    <3>10. 100 - Total(part, 1..j) = r - p
      <4>1. PICK v \in Nat : v = Total(part, 1..j) /\ v = u + p
        BY <3>5
      <4>2. 100 - v = r - p
        BY <3>6, <4>1
      <4> QED
        BY <4>1, <4>2
    <3>11. CASE list[j].address = o
      <4>1. given[j] = 0 /\ held[j] = h + s
        BY <1>5, <1>6, <1>8, <3>3, <3>4, <3>11
      <4>2. Total(given, 1..j) = g
        BY <3>5, <4>1
      <4> QED
        BY <3>2, <3>9, <3>10, <4>1, <4>2
    <3>12. CASE list[j].address # o
      <4>1. given[j] = s /\ held[j] = h
        BY <1>5, <1>8, <3>3, <3>4, <3>12
      <4>2. Total(given, 1..j) = g + s
        BY <3>5, <4>1
      <4> QED
        BY <3>2, <3>9, <3>10, <4>1, <4>2
    <3> QED
      BY <3>11, <3>12
  <2> HIDE DEF P
  <2>3. k \in P
    BY <2>1, <2>2, NatSetInduction
  <2> QED
    BY <2>3 DEF P
<1>13. Total(given, 1..k) <= n
  <2>1. PICK g \in Nat, h \in Nat : g = Total(given, 1..k) /\ h = held[k]
    BY <1>5, <1>11
  <2> QED
    BY <1>4, <1>12, <2>1
<1>14. Total(share, (1..k) \ Keyed(1..k, HeirOf(list), o)) <= Total(given, 1..k)
  <2>1. PICK I, J : I = 1..k /\ J = (1..k) \ Keyed(1..k, HeirOf(list), o)
    OBVIOUS
  <2>2. IsFiniteSet(I) /\ J \in SUBSET I /\ IsFiniteSet(J)
    BY <2>1, FS_Interval, FS_Subset
  <2>3. \A i \in J : share[i] \in Int /\ share[i] = given[i]
    BY <1>1, <1>7, <1>8, <2>1 DEF Keyed, HeirOf
  <2>4. Total(share, J) = Total(given, J)
    BY <2>2, <2>3, TotalCongruence
  <2>5. \A i \in I : given[i] \in Nat
    BY <1>9, <2>1
  <2>6. Total(given, J) <= Total(given, I)
    BY <2>2, <2>5, TotalOfPart
  <2> QED
    BY <2>1, <2>4, <2>6
<1>15. PICK m \in Nat, x \in Int :
         m = Total(given, 1..k) /\ x = Total(share, (1..k) \ Keyed(1..k, HeirOf(list), o))
  <2>1. Total(given, 1..k) \in Nat
    BY <1>11
  <2>2. PICK J : J = (1..k) \ Keyed(1..k, HeirOf(list), o)
    OBVIOUS
  <2>3. J \subseteq 1..k /\ IsFiniteSet(1..k)
    BY <2>2, FS_Interval
  <2>4. IsFiniteSet(J)
    BY <2>3, FS_Subset
  <2>5. \A i \in J : share[i] \in Int
    BY <1>7, <2>3
  <2>6. Total(share, J) \in Int
    BY <2>4, <2>5, TotalType
  <2> QED
    BY <2>1, <2>2, <2>6
<1>16. x <= n
  BY <1>13, <1>14, <1>15
<1> QED
  BY <1>1, <1>7, <1>15, <1>16

------------------------------------------------------------------------------
\* Distribution: the totals over the users.

LEMMA AllAmountsIsTotal ==
  /\ Budgets!AllAmounts = Total(NumbersOf([u \in Users |-> Budgets!AmountOf(u)]), Users)
  /\ Budgets!AllAmounts' = Total(NumbersOf([u \in Users |-> Budgets!AmountOf(u)']), Users)
BY DEF Budgets!AllAmounts, Budgets!SumOf, NumbersOf, Budgets!FoldFunction,
       Budgets!FoldFunctionOnSet, Budgets!MapThenFoldSet, Total, IsTotal, Choice

LEMMA AllOfIsTotal ==
  ASSUME NEW a \in BudgetAssets
  PROVE  /\ Budgets!AllOf(a) = Total(NumbersOf([u \in Users |-> BudgetAsset[u][a]]), Users)
         /\ Budgets!AllOf(a)' = Total(NumbersOf([u \in Users |-> BudgetAsset'[u][a]]), Users)
BY DEF Budgets!AllOf, Budgets!SumOf, NumbersOf, Budgets!FoldFunction,
       Budgets!FoldFunctionOnSet, Budgets!MapThenFoldSet, Total, IsTotal, Choice

LEMMA AllLimitsIsTotal ==
  ASSUME NEW c \in BudgetCategories
  PROVE  /\ Budgets!AllLimits(c) = Total(NumbersOf([u \in Users |-> Budgets!LimitsOf(u)[c]]), Users)
         /\ Budgets!AllLimits(c)' = Total(NumbersOf([u \in Users |-> Budgets!LimitsOf(u)'[c]]), Users)
BY DEF Budgets!AllLimits, Budgets!SumOf, NumbersOf, Budgets!FoldFunction,
       Budgets!FoldFunctionOnSet, Budgets!MapThenFoldSet, Total, IsTotal, Choice

LEMMA PlusNumber ==
  ASSUME Unset \notin Int, NEW n \in Nat \cup {Unset}, NEW s \in Nat
  PROVE  /\ Budgets!Plus(n, s) \in Nat \cup {Unset}
         /\ Budgets!NumberOf(n) \in Nat
         /\ Budgets!NumberOf(Budgets!Plus(n, s)) = Budgets!NumberOf(n) + s
BY DEF Budgets!Plus, Budgets!NumberOf

\* The owner gives its number up and the beneficiaries get shares of it.
LEMMA NumbersHandedOut ==
  ASSUME IsFiniteSet(Users), NEW list, WholeList(list), NEW o \in Users,
         NEW share, \A i \in DOMAIN list : share[i] \in Nat,
         NEW old, \A u \in Users : Budgets!NumberOf(old[u]) \in Nat,
         Total(share, (DOMAIN list) \ Keyed(DOMAIN list, HeirOf(list), o)) <= Budgets!NumberOf(old[o]),
         NEW new, Budgets!NumberOf(new[o]) = 0,
         \A u \in Users \ {o} : Budgets!NumberOf(new[u])
                                  = Budgets!NumberOf(old[u]) + Total(share, Budgets!Entries(list, u)),
         DOMAIN old = Users, DOMAIN new = Users
  PROVE  Total(NumbersOf(new), Users) <= Total(NumbersOf(old), Users)
<1>1. PICK I, key, f, g : I = DOMAIN list /\ key = HeirOf(list)
                          /\ f = NumbersOf(old) /\ g = NumbersOf(new)
  OBVIOUS
<1>2. IsFiniteSet(I) /\ \A i \in I : key[i] \in Users /\ share[i] \in Nat
  BY <1>1, HeirsListed
<1>3. \A u \in Users : f[u] = Budgets!NumberOf(old[u]) /\ g[u] = Budgets!NumberOf(new[u])
  BY <1>1 DEF NumbersOf
<1>4. \A u \in Users : f[u] \in Int
  BY <1>3
<1>5. Total(share, I \ Keyed(I, key, o)) <= f[o] /\ g[o] = 0
  BY <1>1, <1>3
<1>6. \A u \in Users \ {o} : g[u] = f[u] + Total(share, Keyed(I, key, u))
  BY <1>1, <1>3, HeirEntries
<1>7. Total(g, Users) <= Total(f, Users)
  BY <1>2, <1>4, <1>5, <1>6, TotalHandedOut
<1> QED
  BY <1>1, <1>7

\* The others' shares of a number, too, are no more than it.
LEMMA OthersSharesFit ==
  ASSUME NEW list, WholeList(list), NEW n \in Nat, NEW o,
         NEW share, share = Budgets!Shares(list, n)
  PROVE  /\ \A i \in DOMAIN list : share[i] \in Nat
         /\ Total(share, (DOMAIN list) \ Keyed(DOMAIN list, HeirOf(list), o)) <= n
<1>1. PICK I, J : I = DOMAIN list /\ J = (DOMAIN list) \ Keyed(DOMAIN list, HeirOf(list), o)
  OBVIOUS
<1>2. /\ \A i \in I : share[i] \in Nat
      /\ Total(share, I) \in Nat /\ Total(share, I) <= n
  BY <1>1, SharesFit
<1>3. IsFiniteSet(I) /\ J \in SUBSET I
  BY <1>1, HeirsListed
<1>4. Total(share, J) \in Nat /\ Total(share, J) <= Total(share, I)
  BY <1>2, <1>3, TotalOfPart
<1>5. Total(share, J) <= n
  BY <1>2, <1>4
<1> QED
  BY <1>1, <1>2, <1>5

\* One heir's record after the distribution.
LEMMA HeirsRecord ==
  ASSUME Budgets!BudgetAssumption, BudgetInv, NEW o \in Users, NEW u \in Users, u # o,
         NEW s \in Nat, s = Budgets!Gets(o, u, Budgets!AmountOf(o)),
         NEW after, after = Budgets!BudgetAfter(o, u)
  PROVE  /\ after \in Budgets!BudgetRecord \cup {Unset}
         /\ (IF after = Unset THEN 0 ELSE after.amount) = Budgets!AmountOf(u) + s
<1>1. Unset \notin Budgets!BudgetRecord
  BY BudgetConstants
<1>2. Budget[u] # Unset => Budget[u] \in Budgets!BudgetRecord
  BY DEF BudgetInv, BudgetAllocations
<1>3. CASE s = 0
  <2>1. after = Budget[u]
    BY <1>3 DEF Budgets!BudgetAfter
  <2>2. Budgets!AmountOf(u) \in Nat
    BY AmountOfType DEF BudgetInv
  <2> QED
    BY <1>2, <1>3, <2>1, <2>2 DEF Budgets!AmountOf
<1>4. CASE s > 0 /\ Budget[u] = Unset
  <2>1. after = Budgets!FreshRecord(s)
    BY <1>4 DEF Budgets!BudgetAfter
  <2>2. after \in Budgets!BudgetRecord
    BY <2>1, FreshRecordType DEF BudgetInv
  <2>3. after.amount = s
    BY <2>1 DEF Budgets!FreshRecord
  <2> QED
    BY <1>1, <1>4, <2>2, <2>3 DEF Budgets!AmountOf
<1>5. CASE s > 0 /\ Budget[u] # Unset
  <2>1. PICK r \in Budgets!BudgetRecord : r = Budget[u]
    BY <1>2, <1>5
  <2>2. r.amount \in Nat
    BY DEF Budgets!BudgetRecord
  <2>3. PICK n \in Nat : n = r.amount + s
    BY <2>2
  <2>4. after = [r EXCEPT !.amount = n, !.last_updated = budgetTime]
    BY <1>5, <2>1, <2>3 DEF Budgets!BudgetAfter
  <2>5. after \in Budgets!BudgetRecord /\ after.amount = n
    BY <2>4 DEF BudgetInv, BudgetClock, Budgets!BudgetRecord
  <2> QED
    BY <1>1, <1>5, <2>1, <2>3, <2>5 DEF Budgets!AmountOf
<1> QED
  BY <1>3, <1>4, <1>5

LEMMA AmountsDistributed ==
  ASSUME Budgets!BudgetAssumption, BudgetInv, NEW o \in Users, WholeList(Beneficiaries[o]),
         Budget' = [u \in Users |-> Budgets!BudgetAfter(o, u)]
  PROVE  /\ Budget' \in [Users -> Budgets!BudgetRecord \cup {Unset}]
         /\ Budgets!AmountOf(o)' = 0
         /\ Budgets!AllAmounts' <= Budgets!AllAmounts
<1>1. PICK list : list = Beneficiaries[o]
  OBVIOUS
<1>2. PICK n \in Nat : n = Budgets!AmountOf(o)
  BY AmountOfType DEF BudgetInv
<1>3. PICK share : share = Budgets!Shares(list, n)
  OBVIOUS
<1>4. /\ \A i \in DOMAIN list : share[i] \in Nat
      /\ Total(share, (DOMAIN list) \ Keyed(DOMAIN list, HeirOf(list), o)) <= n
  BY <1>1, <1>3, OthersSharesFit
<1>5. ASSUME NEW u \in Users \ {o}
      PROVE  /\ Budget'[u] \in Budgets!BudgetRecord \cup {Unset}
             /\ Budgets!AmountOf(u)' = Budgets!AmountOf(u) + Total(share, Budgets!Entries(list, u))
  <2>1. PICK s \in Nat : s = Total(share, Budgets!Entries(list, u))
    BY <1>1, <1>4, HeirsShare
  <2>2. s = Budgets!Gets(o, u, Budgets!AmountOf(o))
    BY <1>1, <1>2, <1>3, <2>1, BudgetGetsIsTotal
  <2>3. PICK after : after = Budgets!BudgetAfter(o, u)
    OBVIOUS
  <2>4. /\ after \in Budgets!BudgetRecord \cup {Unset}
        /\ (IF after = Unset THEN 0 ELSE after.amount) = Budgets!AmountOf(u) + s
    BY <2>2, <2>3, HeirsRecord
  <2>5. Budget'[u] = after
    BY <2>3
  <2>6. Budgets!AmountOf(u)' = IF after = Unset THEN 0 ELSE after.amount
    BY <2>5 DEF Budgets!AmountOf
  <2> QED
    BY <2>1, <2>4, <2>5, <2>6
<1>6. Budget'[o] = Unset
  BY DEF Budgets!BudgetAfter
<1>7. Budget' \in [Users -> Budgets!BudgetRecord \cup {Unset}]
  BY <1>5, <1>6
<1>8. Budgets!AmountOf(o)' = 0
  BY <1>6 DEF Budgets!AmountOf
<1>9. PICK old, new : /\ old = [u \in Users |-> Budgets!AmountOf(u)]
                      /\ new = [u \in Users |-> Budgets!AmountOf(u)']
  OBVIOUS
<1>10. ASSUME NEW u \in Users
       PROVE  /\ Budgets!NumberOf(old[u]) \in Nat
              /\ Budgets!NumberOf(old[u]) = Budgets!AmountOf(u)
              /\ Budgets!NumberOf(new[u]) = Budgets!AmountOf(u)'
  <2>1. Budgets!AmountOf(u) \in Nat
    BY AmountOfType DEF BudgetInv
  <2>2. Budgets!AmountOf(u)' \in Nat
    <3>1. CASE u = o
      BY <1>8, <3>1
    <3>2. CASE u # o
      <4>1. Total(share, Budgets!Entries(list, u)) \in Nat
        BY <1>1, <1>4, HeirsShare
      <4> QED
        BY <1>5, <2>1, <3>2, <4>1
    <3> QED
      BY <3>1, <3>2
  <2>3. Unset \notin Int
    BY BudgetConstants
  <2>4. old[u] = Budgets!AmountOf(u) /\ new[u] = Budgets!AmountOf(u)'
    BY <1>9
  <2> QED
    BY <2>1, <2>2, <2>3, <2>4 DEF Budgets!NumberOf
<1>11. DOMAIN old = Users /\ DOMAIN new = Users /\ IsFiniteSet(Users) /\ WholeList(list)
  BY <1>1, <1>9, BudgetConstants
<1>12. Total(share, (DOMAIN list) \ Keyed(DOMAIN list, HeirOf(list), o)) <= Budgets!NumberOf(old[o])
  BY <1>2, <1>4, <1>10
<1>13. Budgets!NumberOf(new[o]) = 0
  BY <1>8, <1>10
<1>14. \A u \in Users \ {o} : Budgets!NumberOf(new[u])
                               = Budgets!NumberOf(old[u]) + Total(share, Budgets!Entries(list, u))
  BY <1>5, <1>10
<1>15. \A u \in Users : Budgets!NumberOf(old[u]) \in Nat
  BY <1>10
<1>16. Total(NumbersOf(new), Users) <= Total(NumbersOf(old), Users)
  BY <1>4, <1>11, <1>12, <1>13, <1>14, <1>15, NumbersHandedOut
<1> QED
  BY <1>7, <1>8, <1>9, <1>16, AllAmountsIsTotal

LEMMA AssetsDistributed ==
  ASSUME Budgets!BudgetAssumption, BudgetInv, NEW o \in Users, WholeList(Beneficiaries[o]),
         BudgetAsset' = [u \in Users |-> Budgets!AssetsAfter(o, u)]
  PROVE  /\ BudgetAsset' \in [Users -> [BudgetAssets -> Nat \cup {Unset}]]
         /\ \A a \in BudgetAssets : Budgets!AllOf(a)' <= Budgets!AllOf(a)
<1>1. PICK list : list = Beneficiaries[o]
  OBVIOUS
<1>2. BudgetAsset \in [Users -> [BudgetAssets -> Nat \cup {Unset}]] /\ Unset \notin Int
  BY BudgetConstants DEF BudgetInv, BudgetAllocations
<1>3. BudgetAsset'[o] = Budgets!NoAssets
  BY DEF Budgets!AssetsAfter
<1>4. ASSUME NEW a \in BudgetAssets, BudgetAsset[o][a] # Unset
      PROVE  \E share :
               /\ \A i \in DOMAIN list : share[i] \in Nat
               /\ Total(share, (DOMAIN list) \ Keyed(DOMAIN list, HeirOf(list), o))
                    <= Budgets!NumberOf(BudgetAsset[o][a])
               /\ \A u \in Users \ {o} :
                    BudgetAsset'[u][a] = Budgets!Plus(BudgetAsset[u][a],
                                                      Total(share, Budgets!Entries(list, u)))
  <2>1. PICK n \in Nat : n = BudgetAsset[o][a] /\ n = Budgets!NumberOf(BudgetAsset[o][a])
    BY <1>2, <1>4 DEF Budgets!NumberOf
  <2>2. PICK share : share = Budgets!SharesOfHeld(list, o, n)
    OBVIOUS
  <2>3. /\ \A i \in DOMAIN list : share[i] \in Nat
        /\ Total(share, (DOMAIN list) \ Keyed(DOMAIN list, HeirOf(list), o)) <= n
    BY <1>1, <2>2, HeldSharesFit
  <2>4. ASSUME NEW u \in Users \ {o}
        PROVE  BudgetAsset'[u][a] = Budgets!Plus(BudgetAsset[u][a],
                                                 Total(share, Budgets!Entries(list, u)))
    <3>1. Budgets!GetsOfAsset(o, u, n) = Total(share, Budgets!Entries(list, u))
      BY <1>1, <2>2, BudgetGetsIsTotal
    <3>2. BudgetAsset'[u][a] = Budgets!Plus(BudgetAsset[u][a], Budgets!GetsOfAsset(o, u, n))
      BY <1>4, <2>1 DEF Budgets!AssetsAfter
    <3> QED
      BY <3>1, <3>2
  <2> QED
    BY <2>1, <2>3, <2>4
<1>5. ASSUME NEW a \in BudgetAssets, BudgetAsset[o][a] = Unset
      PROVE  \A u \in Users \ {o} : BudgetAsset'[u][a] = BudgetAsset[u][a]
  BY <1>5 DEF Budgets!AssetsAfter
<1>6. ASSUME NEW u \in Users, NEW a \in BudgetAssets
      PROVE  BudgetAsset'[u][a] \in Nat \cup {Unset}
  <2>1. CASE u = o
    BY <1>3, <2>1 DEF Budgets!NoAssets
  <2>2. CASE u # o /\ BudgetAsset[o][a] = Unset
    BY <1>2, <1>5, <2>2
  <2>3. CASE u # o /\ BudgetAsset[o][a] # Unset
    <3>1. PICK share : /\ \A i \in DOMAIN list : share[i] \in Nat
                       /\ BudgetAsset'[u][a] = Budgets!Plus(BudgetAsset[u][a],
                                                     Total(share, Budgets!Entries(list, u)))
      BY <1>4, <2>3
    <3>2. Total(share, Budgets!Entries(list, u)) \in Nat
      BY <1>1, <3>1, HeirsShare
    <3>3. BudgetAsset[u][a] \in Nat \cup {Unset}
      BY <1>2
    <3>4. Budgets!Plus(BudgetAsset[u][a], Total(share, Budgets!Entries(list, u))) \in Nat \cup {Unset}
      BY <1>2, <3>2, <3>3, PlusNumber
    <3> QED
      BY <3>1, <3>4
  <2> QED
    BY <2>1, <2>2, <2>3
<1>7. BudgetAsset' \in [Users -> [BudgetAssets -> Nat \cup {Unset}]]
  <2>1. ASSUME NEW u \in Users PROVE BudgetAsset'[u] \in [BudgetAssets -> Nat \cup {Unset}]
    <3>1. BudgetAsset'[u] = Budgets!AssetsAfter(o, u)
      OBVIOUS
    <3>2. BudgetAsset'[u] = [a \in BudgetAssets |-> BudgetAsset'[u][a]]
      BY <3>1 DEF Budgets!AssetsAfter, Budgets!NoAssets
    <3> QED
      BY <1>6, <3>2
  <2> QED
    BY <2>1
<1>8. ASSUME NEW a \in BudgetAssets
      PROVE  Budgets!AllOf(a)' <= Budgets!AllOf(a)
  <2>1. PICK old, new : /\ old = [u \in Users |-> BudgetAsset[u][a]]
                        /\ new = [u \in Users |-> BudgetAsset'[u][a]]
    OBVIOUS
  <2>2. \A u \in Users : old[u] = BudgetAsset[u][a] /\ new[u] = BudgetAsset'[u][a]
    BY <2>1
  <2>3. \A u \in Users : Budgets!NumberOf(old[u]) \in Nat
    <3>1. \A u \in Users : BudgetAsset[u][a] \in Nat \cup {Unset}
      BY <1>2
    <3> QED
      BY <1>2, <2>2, <3>1, PlusNumber
  <2>4. Budgets!NumberOf(new[o]) = 0
    BY <1>3, <2>2 DEF Budgets!NoAssets, Budgets!NumberOf
  <2>5. DOMAIN old = Users /\ DOMAIN new = Users /\ IsFiniteSet(Users) /\ WholeList(list)
    BY <1>1, <2>1, BudgetConstants
  <2>6. CASE BudgetAsset[o][a] # Unset
    <3>1. PICK share :
               /\ \A i \in DOMAIN list : share[i] \in Nat
               /\ Total(share, (DOMAIN list) \ Keyed(DOMAIN list, HeirOf(list), o))
                    <= Budgets!NumberOf(BudgetAsset[o][a])
               /\ \A u \in Users \ {o} :
                    BudgetAsset'[u][a] = Budgets!Plus(BudgetAsset[u][a],
                                                      Total(share, Budgets!Entries(list, u)))
      BY <1>4, <2>6
    <3>2. Total(share, (DOMAIN list) \ Keyed(DOMAIN list, HeirOf(list), o)) <= Budgets!NumberOf(old[o])
      BY <2>2, <3>1
    <3>3. ASSUME NEW u \in Users \ {o}
          PROVE  Budgets!NumberOf(new[u])
                   = Budgets!NumberOf(old[u]) + Total(share, Budgets!Entries(list, u))
      <4>1. PICK s \in Nat : s = Total(share, Budgets!Entries(list, u))
        BY <1>1, <3>1, HeirsShare
      <4>2. BudgetAsset[u][a] \in Nat \cup {Unset}
        BY <1>2
      <4>3. Budgets!NumberOf(Budgets!Plus(BudgetAsset[u][a], s)) = Budgets!NumberOf(BudgetAsset[u][a]) + s
        BY <1>2, <4>2, PlusNumber
      <4> QED
        BY <2>2, <3>1, <4>1, <4>3
    <3>4. Total(NumbersOf(new), Users) <= Total(NumbersOf(old), Users)
      BY <2>3, <2>4, <2>5, <3>1, <3>2, <3>3, NumbersHandedOut
    <3> QED
      BY <2>1, <3>4, AllOfIsTotal
  <2>7. CASE BudgetAsset[o][a] = Unset
    <3>1. \A u \in Users : new[u] = old[u]
      BY <1>3, <1>5, <2>2, <2>7 DEF Budgets!NoAssets
    <3>2. new = old
      BY <2>1, <2>2, <3>1
    <3>3. Total(NumbersOf(old), Users) \in Int
      <4>1. PICK f : f = NumbersOf(old)
        OBVIOUS
      <4>2. \A u \in Users : f[u] \in Int
        BY <2>3, <2>5, <4>1 DEF NumbersOf
      <4> QED
        BY <2>5, <4>1, <4>2, TotalType
    <3> QED
      BY <2>1, <3>2, <3>3, AllOfIsTotal
  <2> QED
    BY <2>6, <2>7
<1> QED
  BY <1>7, <1>8

\* One heir's limits after the distribution.
LEMMA HeirsLimits ==
  ASSUME Budgets!BudgetAssumption, BudgetInv, NEW o \in Users, WholeList(Beneficiaries[o]),
         UserBudget' = [u \in Users |-> Budgets!LimitsAfter(o, u)],
         NEW u \in Users, u # o
  PROVE  /\ UserBudget'[u] \in BudgetLimits \cup {Unset}
         /\ \A c \in BudgetCategories :
              IF Budgets!LimitsOf(o)[c] = Unset
              THEN Budgets!LimitsOf(u)'[c] = Budgets!LimitsOf(u)[c]
              ELSE Budgets!NumberOf(Budgets!LimitsOf(u)'[c])
                     = Budgets!NumberOf(Budgets!LimitsOf(u)[c])
                         + Budgets!Gets(o, u, Budgets!LimitsOf(o)[c])
<1>1. PICK mine \in [BudgetCategories -> Nat \cup {Unset}] : mine = Budgets!LimitsOf(o)
  BY BudgetLimitsOf DEF BudgetInv
<1>2. PICK old \in [BudgetCategories -> Nat \cup {Unset}] : old = Budgets!LimitsOf(u)
  BY BudgetLimitsOf DEF BudgetInv
<1>3. Unset \notin Int /\ Unset \notin BudgetLimits
  BY BudgetConstants
<1>4. ASSUME NEW c \in BudgetCategories, mine[c] # Unset
      PROVE  /\ Budgets!Gets(o, u, mine[c]) \in Nat
             /\ u \notin Budgets!Names(Beneficiaries[o]) => Budgets!Gets(o, u, mine[c]) = 0
  <2>1. PICK n \in Nat : n = mine[c]
    BY <1>4
  <2>2. PICK share, list : share = Budgets!Shares(list, n) /\ list = Beneficiaries[o]
    OBVIOUS
  <2>3. WholeList(list) /\ \A i \in DOMAIN list : share[i] \in Nat
    BY <2>2, SharesFit
  <2>4. /\ Total(share, Budgets!Entries(list, u)) \in Nat
        /\ u \notin Budgets!Names(list) => Total(share, Budgets!Entries(list, u)) = 0
    BY <2>3, HeirsShare
  <2> QED
    BY <2>1, <2>2, <2>4, BudgetGetsIsTotal
<1>5. CASE UserBudget[o] = Unset \/ u \notin Budgets!Names(Beneficiaries[o])
  <2>1. UserBudget'[u] = UserBudget[u]
    BY <1>5 DEF Budgets!LimitsAfter
  <2>2. Budgets!LimitsOf(u)' = old
    BY <1>2, <2>1 DEF Budgets!LimitsOf
  <2>3. UserBudget'[u] \in BudgetLimits \cup {Unset}
    BY <2>1 DEF BudgetInv, BudgetUserLimits
  <2>4. ASSUME NEW c \in BudgetCategories, mine[c] # Unset
        PROVE  Budgets!NumberOf(old[c]) = Budgets!NumberOf(old[c]) + Budgets!Gets(o, u, mine[c])
    <3>1. UserBudget[o] # Unset
      BY <1>1, <2>4 DEF Budgets!LimitsOf, Budgets!NoLimits
    <3>2. Budgets!Gets(o, u, mine[c]) = 0
      BY <1>4, <1>5, <2>4, <3>1
    <3>3. Budgets!NumberOf(old[c]) \in Nat
      BY <1>3, PlusNumber
    <3> QED
      BY <3>2, <3>3
  <2> QED
    BY <1>1, <1>2, <2>2, <2>3, <2>4
<1>6. CASE UserBudget[o] # Unset /\ u \in Budgets!Names(Beneficiaries[o])
  <2>1. PICK new : new = [c \in BudgetCategories |->
                            IF mine[c] = Unset THEN old[c]
                            ELSE Budgets!Plus(old[c], Budgets!Gets(o, u, mine[c]))]
    OBVIOUS
  <2>2. UserBudget'[u] = Budgets!WithLimits(new)
    BY <1>1, <1>2, <1>6, <2>1 DEF Budgets!LimitsAfter
  <2>3. ASSUME NEW c \in BudgetCategories
        PROVE  /\ new[c] \in Nat \cup {Unset}
               /\ mine[c] = Unset => new[c] = old[c]
               /\ mine[c] # Unset => Budgets!NumberOf(new[c])
                                       = Budgets!NumberOf(old[c]) + Budgets!Gets(o, u, mine[c])
    <3>1. CASE mine[c] = Unset
      BY <2>1, <3>1
    <3>2. CASE mine[c] # Unset
      <4>1. PICK s \in Nat : s = Budgets!Gets(o, u, mine[c])
        BY <1>4, <3>2
      <4>2. new[c] = Budgets!Plus(old[c], s)
        BY <2>1, <3>2, <4>1
      <4> QED
        BY <1>3, <3>2, <4>1, <4>2, PlusNumber
    <3> QED
      BY <3>1, <3>2
  <2>4. new \in [BudgetCategories -> Nat \cup {Unset}]
    BY <2>1, <2>3
  <2>5. Budgets!WithLimits(new) \in BudgetLimits /\ Budgets!WithLimits(new).limits = new
    BY <2>4 DEF Budgets!WithLimits, BudgetLimits, BudgetInv, BudgetClock
  <2>6. UserBudget'[u] \in BudgetLimits /\ UserBudget'[u].limits = new
    BY <2>2, <2>5
  <2>7. Budgets!LimitsOf(u)' = new
    BY <1>3, <2>6 DEF Budgets!LimitsOf
  <2> QED
    BY <1>1, <1>2, <2>3, <2>6, <2>7
<1> QED
  BY <1>5, <1>6

LEMMA LimitsDistributed ==
  ASSUME Budgets!BudgetAssumption, BudgetInv, NEW o \in Users, WholeList(Beneficiaries[o]),
         UserBudget' = [u \in Users |-> Budgets!LimitsAfter(o, u)]
  PROVE  /\ BudgetUserLimits'
         /\ \A c \in BudgetCategories : Budgets!AllLimits(c)' <= Budgets!AllLimits(c)
<1>1. PICK list : list = Beneficiaries[o]
  OBVIOUS
<1>2. UserBudget'[o] = Unset
  BY DEF Budgets!LimitsAfter
<1>3. BudgetUserLimits'
  <2>1. \A u \in Users : UserBudget'[u] \in BudgetLimits \cup {Unset}
    BY <1>2, HeirsLimits
  <2> QED
    BY <2>1 DEF BudgetUserLimits
<1>4. ASSUME NEW c \in BudgetCategories
      PROVE  Budgets!AllLimits(c)' <= Budgets!AllLimits(c)
  <2>1. PICK old, new : /\ old = [u \in Users |-> Budgets!LimitsOf(u)[c]]
                        /\ new = [u \in Users |-> Budgets!LimitsOf(u)'[c]]
    OBVIOUS
  <2>2. \A u \in Users : old[u] = Budgets!LimitsOf(u)[c] /\ new[u] = Budgets!LimitsOf(u)'[c]
    BY <2>1
  <2>3. \A u \in Users : old[u] \in Nat \cup {Unset}
    BY <2>2, BudgetLimitsOf DEF BudgetInv
  <2>4. Unset \notin Int
    BY BudgetConstants
  <2>5. \A u \in Users : Budgets!NumberOf(old[u]) \in Nat
    BY <2>3, <2>4, PlusNumber
  <2>6. new[o] = Unset /\ Budgets!NumberOf(new[o]) = 0
    BY <1>2, <2>2 DEF Budgets!LimitsOf, Budgets!NoLimits, Budgets!NumberOf
  <2>7. DOMAIN old = Users /\ DOMAIN new = Users /\ IsFiniteSet(Users) /\ WholeList(list)
    BY <1>1, <2>1, BudgetConstants
  <2>8. CASE old[o] # Unset
    <3>1. PICK n \in Nat : n = old[o] /\ n = Budgets!LimitsOf(o)[c] /\ n = Budgets!NumberOf(old[o])
      BY <2>2, <2>3, <2>8 DEF Budgets!NumberOf
    <3>2. PICK share : share = Budgets!Shares(list, n)
      OBVIOUS
    <3>3. /\ \A i \in DOMAIN list : share[i] \in Nat
          /\ Total(share, (DOMAIN list) \ Keyed(DOMAIN list, HeirOf(list), o)) <= Budgets!NumberOf(old[o])
      BY <1>1, <3>1, <3>2, OthersSharesFit
    <3>4. ASSUME NEW u \in Users \ {o}
          PROVE  Budgets!NumberOf(new[u])
                   = Budgets!NumberOf(old[u]) + Total(share, Budgets!Entries(list, u))
      <4>1. Budgets!NumberOf(Budgets!LimitsOf(u)'[c])
              = Budgets!NumberOf(Budgets!LimitsOf(u)[c]) + Budgets!Gets(o, u, Budgets!LimitsOf(o)[c])
        BY <2>2, <2>8, HeirsLimits
      <4>2. Budgets!Gets(o, u, n) = Total(share, Budgets!Entries(list, u))
        BY <1>1, <3>2, BudgetGetsIsTotal
      <4> QED
        BY <2>2, <3>1, <4>1, <4>2
    <3>5. Total(NumbersOf(new), Users) <= Total(NumbersOf(old), Users)
      BY <2>5, <2>6, <2>7, <3>3, <3>4, NumbersHandedOut
    <3> QED
      BY <2>1, <3>5, AllLimitsIsTotal
  <2>9. CASE old[o] = Unset
    <3>1. \A u \in Users : new[u] = old[u]
      BY <2>2, <2>6, <2>9, HeirsLimits
    <3>2. new = old
      BY <2>1, <2>2, <3>1
    <3>3. Total(NumbersOf(old), Users) \in Int
      <4>1. PICK f : f = NumbersOf(old)
        OBVIOUS
      <4>2. \A u \in Users : f[u] \in Int
        BY <2>5, <2>7, <4>1 DEF NumbersOf
      <4> QED
        BY <2>7, <4>1, <4>2, TotalType
    <3> QED
      BY <2>1, <3>2, <3>3, AllLimitsIsTotal
  <2> QED
    BY <2>8, <2>9
<1> QED
  BY <1>3, <1>4

\* What DistributionCreatesNothing says of a step.
BudgetKept ==
  \A u \in Users :
    Beneficiaries[u] # << >> /\ Beneficiaries'[u] = << >> /\ LastActivity'[u] = 0 =>
      /\ Budgets!AllAmounts' <= Budgets!AllAmounts /\ Budgets!AmountOf(u)' = 0
      /\ \A a \in BudgetAssets : Budgets!AllOf(a)' <= Budgets!AllOf(a)
      /\ \A c \in BudgetCategories : Budgets!AllLimits(c)' <= Budgets!AllLimits(c)

LEMMA DistributingStep ==
  ASSUME Budgets!BudgetAssumption, BudgetInv, NEW c \in Users, NEW o \in Owners,
         Budgets!DistributeRemainingFunds(c, o)
  PROVE  BudgetInv' /\ BudgetKept
<1>1. o \in Users
  BY BudgetArguments
<1>2. /\ Beneficiaries[o] # << >>
      /\ Budget' = [u \in Users |-> Budgets!BudgetAfter(o, u)]
      /\ BudgetAsset' = [u \in Users |-> Budgets!AssetsAfter(o, u)]
      /\ UserBudget' = [u \in Users |-> Budgets!LimitsAfter(o, u)]
      /\ LastActivity' = [LastActivity EXCEPT ![o] = 0]
      /\ Beneficiaries' = [Beneficiaries EXCEPT ![o] = << >>]
      /\ UNCHANGED <<Admin, TotalAllocated, budgetTime>>
  BY DEF Budgets!DistributeRemainingFunds
<1>3. WholeList(Beneficiaries[o])
  BY <1>1, <1>2 DEF BudgetInv, BudgetHeirs, WholeList
<1>4. /\ Budget' \in [Users -> Budgets!BudgetRecord \cup {Unset}]
      /\ Budgets!AmountOf(o)' = 0
      /\ Budgets!AllAmounts' <= Budgets!AllAmounts
  BY <1>1, <1>2, <1>3, AmountsDistributed
<1>5. /\ BudgetAsset' \in [Users -> [BudgetAssets -> Nat \cup {Unset}]]
      /\ \A a \in BudgetAssets : Budgets!AllOf(a)' <= Budgets!AllOf(a)
  BY <1>1, <1>2, <1>3, AssetsDistributed
<1>6. /\ BudgetUserLimits'
      /\ \A k \in BudgetCategories : Budgets!AllLimits(k)' <= Budgets!AllLimits(k)
  BY <1>1, <1>2, <1>3, LimitsDistributed
<1>7. BudgetAllocations'
  BY <1>2, <1>4, <1>5, BudgetAllocationsNew DEF BudgetInv, BudgetAllocations
<1>8. BudgetHeirs'
  <2>1. Beneficiaries' \in [Users -> Seq(Heirs)]
    BY <1>1, <1>2 DEF BudgetInv, BudgetHeirs
  <2>2. ASSUME NEW v \in Users, Beneficiaries'[v] # << >>
        PROVE  Total(PercentOf(Beneficiaries'[v]), DOMAIN Beneficiaries'[v]) = 100
    <3>1. Beneficiaries'[v] = Beneficiaries[v]
      BY <1>1, <1>2, <2>2 DEF BudgetInv, BudgetHeirs
    <3>2. Beneficiaries[v] # << >>
      BY <2>2, <3>1
    <3> QED
      BY <3>1, <3>2 DEF BudgetInv, BudgetHeirs
  <2> QED
    BY <2>1, <2>2 DEF BudgetHeirs, PercentOf
<1>9. BudgetClock'
  BY <1>1, <1>2 DEF BudgetInv, BudgetClock
<1>10. \A v \in Users : v # o => Beneficiaries'[v] = Beneficiaries[v]
  BY <1>2 DEF BudgetInv, BudgetHeirs
<1>11. BudgetKept
  BY <1>4, <1>5, <1>6, <1>10 DEF BudgetKept
<1>12. Admin' \in Users \cup {Unset}
  BY <1>2 DEF BudgetInv
<1> QED
  BY <1>6, <1>7, <1>8, <1>9, <1>11, <1>12 DEF BudgetInv

LEMMA SameHeirs ==
  ASSUME Beneficiaries' = Beneficiaries
  PROVE  BudgetKept
BY DEF BudgetKept

LEMMA InheritingStep ==
  ASSUME Budgets!BudgetAssumption, BudgetInv, Budgets!Inheriting
  PROVE  BudgetInv' /\ BudgetKept
<1>1. ASSUME NEW u \in Owners, NEW t \in Timeouts, Budgets!SetInactivityTimeout(u, t)
      PROVE  BudgetInv' /\ BudgetKept
  BY <1>1, TimeoutStep, SameHeirs
<1>2. ASSUME NEW u \in Owners, NEW l \in BeneficiaryLists, Budgets!RegisterBeneficiaries(u, l)
      PROVE  BudgetInv' /\ BudgetKept
  BY <1>2, RegisteringStep DEF BudgetKept
<1> QED
  BY <1>1, <1>2, DistributingStep DEF Budgets!Inheriting

\* Every call of the budget contract.
LEMMA BudgetStep ==
  ASSUME Budgets!BudgetAssumption, BudgetInv, Budgets!Next
  PROVE  BudgetInv' /\ BudgetKept
BY AllocatingStep, RulingStep, LimitingStep, SuspendingStep, TransferringStep, ExpiringStep,
   InheritingStep, ClosingStep, SameHeirs DEF Budgets!Next

LEMMA BudgetStays ==
  ASSUME BudgetInv, UNCHANGED budgetVars, Admin' \in Users \cup {Unset}
  PROVE  BudgetInv' /\ BudgetKept
<1>1. UNCHANGED <<TotalAllocated, Budget, BudgetAsset, UserBudget, LastActivity, Beneficiaries, budgetTime>>
  BY DEF budgetVars
<1>2. BudgetAllocations'
  BY <1>1, BudgetAllocationsStay DEF BudgetInv
<1> QED
  BY <1>1, <1>2, BudgetRest, SameHeirs

------------------------------------------------------------------------------
\* Every contract's types and the totals that steps change, in all behaviours.

TokenNumbers == Balance \in [Users -> Int] /\ TokenSupply \in Int /\ SelfMoved \in Int

AllInv ==
  /\ RecordsInv /\ (focus = "token" => TokenInv) /\ (focus = "fees" => FeesInv)
  /\ TokenNumbers /\ FeesNumbers /\ BudgetInv

\* What StepsKeepBooks says of a step.
BooksKept == SupplyFollows /\ FeesFollow /\ BudgetKept

LEMMA TokenStays ==
  ASSUME TokenInv, UNCHANGED <<Admin, tokenVars>>
  PROVE  TokenInv'
BY DEF tokenVars, TokenInv, Token!TypeOK, Token!Within

LEMMA TokenCounts ==
  /\ TokenInv => TokenNumbers
  /\ TokenInv' => TokenNumbers'
BY DEF TokenInv, Token!TypeOK, TokenNumbers

\* The parts of the invariant that hold whichever contract is exercised.
LEMMA TokenAnywhere ==
  ASSUME AllInv, [Next]_vars
  PROVE  /\ focus' = "token" => TokenInv'
         /\ TokenNumbers' /\ SupplyFollows
<1>1. Token!TokenAssumption /\ IsFiniteSet(Users)
  BY ControlsAssumption, TokenConstants
<1>2. ASSUME UNCHANGED tokenVars
      PROVE  TokenNumbers' /\ SupplyFollows
  <2>1. UNCHANGED <<Balance, TokenSupply, SelfMoved>>
    BY <1>2 DEF tokenVars
  <2> QED
    BY <1>1, <2>1, HeldUnchanged DEF AllInv, TokenNumbers
<1>3. CASE UNCHANGED vars
  <2>1. UNCHANGED <<focus, Admin, tokenVars>>
    BY <1>3 DEF vars
  <2> QED
    BY <1>2, <2>1, TokenStays DEF AllInv
<1>4. CASE Next /\ focus = "token"
  <2>1. Token!Next /\ TokenInv
    BY <1>4 DEF Next, AllInv
  <2> QED
    BY <1>1, <2>1, TokenStep, SupplyStep, TokenCounts
<1>5. CASE Next /\ focus # "token"
  <2>1. focus' = focus /\ UNCHANGED tokenVars
    BY <1>5 DEF Next
  <2> QED
    BY <1>2, <1>5, <2>1
<1> QED
  BY <1>3, <1>4, <1>5

LEMMA FeesStay ==
  ASSUME FeesInv, UNCHANGED <<Admin, feesVars>>
  PROVE  FeesInv'
<1>1. UNCHANGED <<Settings, Treasury, FeeDistribution, FeeCategoryMap, EscrowedFees, CategoryFees,
                  TotalTreasuryFees, RecipientFeesAccumulated, TreasuryFees, TotalFeesCollected,
                  UserFeesAccrued, Admin>>
  BY DEF feesVars
<1>2. FeesConfigOK'
  BY <1>1 DEF FeesInv, FeesConfigOK, GoodSettings, Fees!Ascending, PartOf
<1>3. FeesAccounts'
  BY <1>1 DEF FeesInv, FeesAccounts, FeesNumbers
<1> QED
  BY <1>2, <1>3 DEF FeesInv

LEMMA FeesAnywhere ==
  ASSUME AllInv, [Next]_vars
  PROVE  /\ focus' = "fees" => FeesInv'
         /\ FeesNumbers' /\ FeesFollow
<1>1. ASSUME UNCHANGED feesVars
      PROVE  FeesNumbers' /\ FeesFollow
  <2>1. UNCHANGED <<TotalFeesCollected, TotalTreasuryFees, UserFeesAccrued, EscrowedFees,
                    RecipientFeesAccumulated>>
    BY <1>1 DEF feesVars
  <2> QED
    BY <2>1, FeesAccountsStay, ControlsAssumption DEF AllInv
<1>2. CASE UNCHANGED vars
  <2>1. UNCHANGED <<focus, Admin, feesVars>>
    BY <1>2 DEF vars
  <2> QED
    BY <1>1, <2>1, FeesStay DEF AllInv
<1>3. CASE Next /\ focus = "fees"
  <2>1. Fees!Next /\ FeesInv
    BY <1>3 DEF Next, AllInv
  <2>2. FeesInv' /\ FeesFollow
    BY <2>1, FeesStep, ControlsAssumption
  <2> QED
    BY <2>2 DEF FeesInv, FeesAccounts
<1>4. CASE Next /\ focus # "fees"
  <2>1. focus' = focus /\ UNCHANGED feesVars
    BY <1>4 DEF Next
  <2> QED
    BY <1>1, <1>4, <2>1
<1> QED
  BY <1>2, <1>3, <1>4

BudgetFocus == {"budget", "budget suspension", "budget deletion", "budget inheritance"}

LEMMA BudgetAnywhere ==
  ASSUME AllInv, RecordsInv', focus' = "token" => TokenInv', focus' = "fees" => FeesInv', [Next]_vars
  PROVE  BudgetInv' /\ BudgetKept
<1>1. CASE UNCHANGED vars
  <2>1. UNCHANGED <<Admin, budgetVars>>
    BY <1>1 DEF vars
  <2> QED
    BY <2>1, BudgetStays DEF AllInv, BudgetInv
<1>2. CASE Next /\ focus \in BudgetFocus
  <2>1. Budgets!Next
    BY <1>2 DEF Next, BudgetFocus, Budgets!Next
  <2> QED
    BY <2>1, BudgetStep, ControlsAssumption DEF AllInv
<1>3. CASE Next /\ focus \notin BudgetFocus
  <2>1. focus' = focus /\ UNCHANGED budgetVars
    BY <1>3 DEF Next, BudgetFocus
  <2>2. Admin' \in Users \cup {Unset}
    <3>1. CASE focus = "limits"
      BY <1>3, <3>1 DEF Next, AllInv, BudgetInv
    <3>2. CASE focus = "throttling"
      BY <2>1, <3>2 DEF RecordsInv, ThrottlingInv, Throttling!TypeOK
    <3>3. CASE focus = "token"
      BY <2>1, <3>3 DEF TokenInv, Token!TypeOK
    <3>4. CASE focus = "stellar fee"
      BY <2>1, <3>4 DEF RecordsInv, StellarFeeInv, StellarSettings
    <3>5. CASE focus = "fees"
      <4>1. Admin' \in FeesUsers \cup {Unset}
        BY <2>1, <3>5 DEF FeesInv, FeesConfigOK
      <4> QED
        BY <4>1, ControlsAssumption
    <3>6. CASE focus \in walletFoci \cup recordFoci
      BY <1>3, <3>6 DEF Next, AllInv, BudgetInv
    <3> QED
      BY <1>3, <3>1, <3>2, <3>3, <3>4, <3>5, <3>6 DEF Next, BudgetFocus, walletFoci, recordFoci
  <2> QED
    BY <2>1, <2>2, BudgetStays DEF AllInv
<1> QED
  BY <1>1, <1>2, <1>3

LEMMA AllStep ==
  ASSUME AllInv, [Next]_vars
  PROVE  AllInv' /\ BooksKept
<1>1. RecordsInv'
  BY RecordsStep DEF AllInv
<1>2. (focus' = "token" => TokenInv') /\ TokenNumbers' /\ SupplyFollows
  BY TokenAnywhere
<1>3. (focus' = "fees" => FeesInv') /\ FeesNumbers' /\ FeesFollow
  BY FeesAnywhere
<1>4. BudgetInv' /\ BudgetKept
  BY <1>1, <1>2, <1>3, BudgetAnywhere
<1> QED
  BY <1>1, <1>2, <1>3, <1>4 DEF AllInv, BooksKept

LEMMA AllStart ==
  ASSUME Init
  PROVE  AllInv
<1>1. RecordsInv
  BY LimitsStart, ThrottlingStart, StellarFeeStart, ControlsAssumption DEF Init, RecordsInv
<1>2. TokenInv
  BY TokenStart, ControlsAssumption DEF Init
<1>3. FeesInv
  BY FeesStart, ControlsAssumption DEF Init
<1>4. BudgetInv
  BY BudgetStart, ControlsAssumption DEF Init
<1> QED
  BY <1>1, <1>2, <1>3, <1>4, TokenCounts DEF AllInv, FeesInv, FeesAccounts

\* Every stored value is one that the code can store, in each of the contracts: whole
\* records, totals that follow their parts, and settings that their setters accept.
THEOREM ControlsTypeCorrect == Spec => []TypesOK
<1>1. Init => AllInv
  BY AllStart
<1>2. AllInv /\ [Next]_vars => AllInv'
  BY AllStep
<1>3. Init => WalletsInv /\ SpendingRecordsInv
  BY WalletsStart, SpendingRecordsStart DEF Init
<1>4. WalletsInv /\ SpendingRecordsInv /\ [Next]_vars => (WalletsInv /\ SpendingRecordsInv)'
  BY WalletsStep, SpendingRecordsStep
<1>5. AllInv /\ WalletsInv /\ SpendingRecordsInv => TypesOK
  <2> SUFFICES ASSUME AllInv, WalletsInv, SpendingRecordsInv PROVE TypesOK
    OBVIOUS
  <2>1. focus = "limits" => SpendingLimits!TypeOK
    BY DEF AllInv, RecordsInv, LimitsInv
  <2>2. focus = "throttling" => Throttling!TypeOK
    BY DEF AllInv, RecordsInv, ThrottlingInv
  <2>3. focus = "token" => Token!TypeOK
    BY DEF AllInv, TokenInv
  <2>4. focus = "stellar fee" => StellarFee!TypeOK
    BY StellarFeeParts, ControlsAssumption DEF AllInv, RecordsInv
  <2>5. focus = "fees" => Fees!TypeOK
    BY FeesParts, ControlsAssumption DEF AllInv
  <2>6. Budgets!TypeOK
    BY BudgetParts, ControlsAssumption DEF AllInv
  <2>7. Wallets!TypeOK /\ Records!TypeOK
    BY WalletsParts, SpendingRecordsTyped
  <2> QED
    BY <2>1, <2>2, <2>3, <2>4, <2>5, <2>6, <2>7 DEF TypesOK
<1> QED
  BY <1>1, <1>2, <1>3, <1>4, <1>5, PTL DEF Spec

\* A step that moves tokens, fees or allocations changes the totals by what it moved:
\* the token's supply follows its balances, and what holders gain or lose by paying
\* themselves is all that separates them (`token.rs`); what users are charged, deposit
\* into escrow and get back is in the books of fees but for the rounding of a
\* distribution (`fees.rs`); and distributing an inactive user's budget creates
\* nothing (`budget`).
THEOREM StepsKeepBooksAlways == Spec => StepsKeepBooks
<1>1. Init => AllInv
  BY AllStart
<1>2. AllInv /\ [Next]_vars => AllInv'
  BY AllStep
<1>3. AllInv /\ [Next]_vars => [SupplyFollows]_Token!vars
  BY AllStep DEF BooksKept
<1>4. AllInv /\ [Next]_vars => [FeesFollow]_Fees!vars
  BY AllStep DEF BooksKept
<1>5. AllInv /\ [Next]_vars => [BudgetKept]_Budgets!vars
  BY AllStep DEF BooksKept
<1>6. Spec => Token!SupplyFollowsBalances
  BY <1>1, <1>2, <1>3, PTL DEF Spec, Token!SupplyFollowsBalances, SupplyFollows
<1>7. Spec => Fees!BooksFollowUsers
  BY <1>1, <1>2, <1>4, PTL DEF Spec, Fees!BooksFollowUsers, FeesFollow
<1>8. Spec => Budgets!DistributionCreatesNothing
  BY <1>1, <1>2, <1>5, PTL DEF Spec, Budgets!DistributionCreatesNothing, BudgetKept
<1> QED
  BY <1>6, <1>7, <1>8 DEF StepsKeepBooks
===============================================================================
