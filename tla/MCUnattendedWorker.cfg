CONSTANTS
  alerts = alerts wallets = wallets
  Tasks = {alerts, wallets}
  Savers = {alerts}
  Deadline = 6
  AttemptTimeout = 2
  LockTimeout = 1
  MaxAttempts = 3
  InitialBackoff = 1
  MaxBackoff = 2
  Budget = 2
  MaxRuns = 3
  None = None
SPECIFICATION Spec
INVARIANTS WithinDeadline StopIsPrompt HealthyIsTrue FailuresAreCounted
CHECK_DEADLOCK FALSE
