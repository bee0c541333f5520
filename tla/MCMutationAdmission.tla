------------------------ MODULE MCMutationAdmission ------------------------
(* MutationAdmission with three mutations and a read on three workers, of   *)
(* which two may be held by admitted mutations: all three can be taken at   *)
(* once, and all by mutations, but not all by admitted ones; the fourth     *)
(* connection is then refused.                                              *)
EXTENDS MutationAdmission

CONSTANTS m1, m2, m3, r1
=============================================================================
