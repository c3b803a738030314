---------------------------- MODULE MCMatchCycle ----------------------------
(* Small instances of MatchCycle.  Users are numbers, in the order of their *)
(* ids; every posting passes every filter.                                  *)
EXTENDS MatchCycle, TLC

AllPass == Users \X Jobs
Symmetry == Permutations(Workers) \cup Permutations(Cycles)
=============================================================================
