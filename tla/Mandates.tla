------------------------------- MODULE Mandates -------------------------------
(***************************************************************************)
(* What governance promises, with no clock, no counters and no             *)
(* administrator: motions about a configuration value gather supporters,   *)
(* a motion that has at least Quorum of them may be enacted once, and the  *)
(* configuration changes in no other way.                                  *)
(***************************************************************************)
EXTENDS Integers, FiniteSets

CONSTANTS Users, Keys, Values, Unset, Quorums

VARIABLES quorum,      \* Unset, then the number of supporters required
          motions,     \* the motions so far: number -> [key, value]
          supporters,  \* motion -> the users who support it
          enacted,     \* the set of enacted motions
          config       \* key -> value, or Unset
vars == <<quorum, motions, supporters, enacted, config>>

Motions == DOMAIN motions

Init == /\ quorum = Unset
        /\ motions = [m \in {} |-> Unset] /\ supporters = [m \in {} |-> {}]
        /\ enacted = {}
        /\ config = [k \in Keys |-> Unset]

Found(q) == /\ quorum = Unset
            /\ quorum' = q
            /\ UNCHANGED <<motions, supporters, enacted, config>>

Put(key, value) ==
  LET m == Cardinality(Motions) + 1 IN
  /\ quorum # Unset
  /\ motions' = [n \in Motions \cup {m} |->
                   IF n = m THEN [key |-> key, value |-> value] ELSE motions[n]]
  /\ supporters' = [n \in Motions \cup {m} |-> IF n = m THEN {} ELSE supporters[n]]
  /\ UNCHANGED <<quorum, enacted, config>>

Support(m, u) ==
  /\ m \in Motions \ enacted
  /\ u \notin supporters[m]
  /\ supporters' = [supporters EXCEPT ![m] = @ \cup {u}]
  /\ UNCHANGED <<quorum, motions, enacted, config>>

Enact(m) ==
  /\ m \in Motions \ enacted
  /\ Cardinality(supporters[m]) >= quorum
  /\ enacted' = enacted \cup {m}
  /\ config' = [config EXCEPT ![motions[m].key] = motions[m].value]
  /\ UNCHANGED <<quorum, motions, supporters>>

Next == \/ \E q \in Quorums : Found(q)
        \/ \E k \in Keys, v \in Values : Put(k, v)
        \/ \E m \in Motions, u \in Users : Support(m, u)
        \/ \E m \in Motions : Enact(m)

Spec == Init /\ [][Next]_vars
===============================================================================
