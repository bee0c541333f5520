-------------------------- MODULE MCRequestControl --------------------------
(* RequestControl with two requests that share connections and one lookup   *)
(* slot, each with one retry.                                               *)
EXTENDS RequestControl
=============================================================================
