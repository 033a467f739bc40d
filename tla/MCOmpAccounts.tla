---------------------------- MODULE MCOmpAccounts ----------------------------
(* OmpAccounts on one session, two interchangeable credentials and one     *)
(* sibling log.                                                            *)
EXTENDS OmpAccounts, TLC

CONSTANTS c1, c2, s1

MCCred == {c1, c2}
MCSibling == {s1}
MCSymmetry == Permutations(MCCred)
=============================================================================
