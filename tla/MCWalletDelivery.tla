-------------------------- MODULE MCWalletDelivery --------------------------
(* WalletDelivery on two wallets: one with two fills in the same second and *)
(* a filtered fill in the next, the other with a fill sorted between them.  *)
EXTENDS WalletDelivery, TLC

CONSTANTS k1, k2, k3, s1, s2, c1, c2, poll, other, w1, w2

MCEvents   == 1..4
MCWalletOf == [e \in MCEvents |-> IF e = 2 THEN w2 ELSE w1]
MCTs       == [e \in MCEvents |-> IF e = 4 THEN 2 ELSE 1]
MCFiltered == {4}
Symmetry   == Permutations({k1, k2, k3}) \cup Permutations({s1, s2}) \cup Permutations({c1, c2})
=============================================================================
