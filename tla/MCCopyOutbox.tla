---------------------------- MODULE MCCopyOutbox ----------------------------
(* CopyOutbox on a wallet with three fills: two in one second, the first of *)
(* them staged by an older release.                                         *)
EXTENDS CopyOutboxHistory, TLC

MCThree == 1..3
MCTs    == [a \in MCThree |-> IF a = 3 THEN 2 ELSE 1]
=============================================================================
