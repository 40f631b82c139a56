----------------------------- MODULE MCGovernance -----------------------------
(***************************************************************************)
(* A small instance of Governance: three users, two proposals, which may   *)
(* be about the same key, thresholds of no vote and of two votes, and a    *)
(* deadline that passes.                                                   *)
(***************************************************************************)
EXTENDS Governance, TLC

CONSTANTS ann, bob, eve, unset, fee, cap, empty, low, high, long

MCUsers == {ann, bob, eve}
MCKeys == {fee, cap}
MCBadKeys == {empty}
MCValues == {low, high}
MCBadValues == {long}
MCThresholds == {0, 2}
MCDurations == {0, 1}
MCSymmetry == Permutations(MCUsers) \cup Permutations(MCKeys) \cup Permutations(MCValues)
===============================================================================
