---------------------------- MODULE MCTransactions ----------------------------
(***************************************************************************)
(* Small instances of Transactions: two users, one of them the payer,      *)
(* payments below and at the high-value threshold, signer lists that are   *)
(* replaced while a payment waits, a balance that can fill up, and one     *)
(* scheduled payment.                                                      *)
(***************************************************************************)
EXTENDS Transactions

CONSTANTS ann, bob, unset

MCUsers == {ann, bob}
Pay(u, v, a) == [from |-> u, to |-> v, amount |-> a]
MCPayments == {Pay(ann, bob, 1), Pay(ann, bob, 2)}
MCSelfPayments == {Pay(ann, ann, 1), Pay(ann, bob, 2)}
\* One list repeats a signer and must be refused.
MCSignerLists == {<<ann, bob>>, <<bob>>, <<bob, bob>>}
MCHighValues == {-1, 2}
MCGrants == {-1, 3}
MCBlockable == {<<ann, bob>>}
===============================================================================
