------------------------ MODULE MCUnattendedWorker -------------------------
(* UnattendedWorker with the two units of deploy/systemd; seconds are scaled *)
(* down so that a deadline falls inside an attempt, a back-off and a stop.   *)
EXTENDS UnattendedWorker

CONSTANTS alerts, wallets
=============================================================================
