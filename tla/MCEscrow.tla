------------------------------- MODULE MCEscrow -------------------------------
(***************************************************************************)
(* Small instances of Escrow: three signers, terms that cover the shared   *)
(* parties, an arbiter, a recipient that is the contract itself and one    *)
(* deadline that lies in the future, and request vectors that may name an  *)
(* escrow that does not exist yet.                                         *)
(***************************************************************************)
EXTENDS Escrow

CONSTANTS ann, bob, eve, vault, none

MCUsers == {ann, bob, eve}

Deal(d, r, arb, amt, dl) == [depositor |-> d, recipient |-> r, arbiter |-> arb,
                             amount |-> amt, deadline |-> dl]

MCTerms == {Deal(ann, bob, none, 2, 0), Deal(ann, bob, eve, 1, 1),
            Deal(bob, vault, none, 1, 1), Deal(ann, bob, none, 0, 0)}
MCSmallTerms == {Deal(ann, bob, none, 2, 0), Deal(bob, eve, none, 1, 0)}

MCOpening == [u \in Users \cup {vault} |-> IF u \in {ann, bob} THEN 3 ELSE 0]

Vectors == UNION {[1..n -> 1..(MaxEscrows + 1)] : n \in 0..2}

\* One vector is longer than MAX_BATCH_SIZE and must be refused.
MCBatches == {b \in Vectors : RepeatFree(b)} \cup {<<1, 2, 3>>}
MCAnyBatches == Vectors
===============================================================================
