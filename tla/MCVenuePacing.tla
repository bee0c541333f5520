--------------------------- MODULE MCVenuePacing ---------------------------
(* VenuePacing with two adapters that come and go over two venues, in a     *)
(* registry with room for one schedule.                                     *)
EXTENDS VenuePacing, TLC

\* Adapters and limiters are interchangeable.
Sym == Permutations(Adapters) \cup Permutations(Limiters)
=============================================================================
