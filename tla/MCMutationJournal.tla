-------------------------- MODULE MCMutationJournal --------------------------
(* MutationJournal with one or two venue operations and one local        *)
(* mutation, on one or two server processes.                                *)
EXTENDS MutationJournal, TLC

CONSTANTS k1, k2, s1, s2, live, live2, loc

ServerSymmetry == Permutations({s1, s2})
KeySymmetry    == Permutations({k1, k2})
=============================================================================
