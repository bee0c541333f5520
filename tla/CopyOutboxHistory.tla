-------------------------- MODULE CopyOutboxHistory --------------------------
(***************************************************************************)
(* CopyOutbox with a history variable that remembers whether polling was   *)
(* ever switched off: the condition under which WalletPoller._run and      *)
(* _process_queue handle no activity twice.                                *)
(***************************************************************************)
EXTENDS CopyOutbox

VARIABLE toggled   \* _stop was set at some time

HistoryInit == Init /\ toggled = FALSE
HistoryNext == Next /\ toggled' = (toggled \/ poller'.stop)
HistorySpec == HistoryInit /\ [][HistoryNext]_<<vars, toggled>>

FairHistorySpec == HistorySpec /\ Fairness

\* What was settled on disk is never handled again while polling stays on,
\* although its entry may have been evicted (remember_activity), and through
\* crashes and failed saves.
SettledOnceIfKeptOn == ~toggled => SettledOnce
=============================================================================
