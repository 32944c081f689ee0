---------------------------- MODULE MCAccountSync ----------------------------
(* The instances of AccountSync that TLC checks: one login under two ids, or *)
(* two logins.                                                              *)
EXTENDS AccountSync, TLC

CONSTANTS h1, h2, a1, a2, l

OneLogin == [x \in Accounts |-> l]
Alike == Permutations(Hosts) \cup Permutations(Accounts)
==============================================================================
