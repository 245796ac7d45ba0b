\* Two tasks, two threads that cancel, counters of three bits.
CONSTANTS
  Task = {1, 2}
  Canceller = {1, 2}
  LimitBytes = 2
  Amounts <- MCAmounts
  MaxBytes = 7
SPECIFICATION FairSpec
INVARIANTS TypeOK ReservedIsExact PeakIsExact WakeUpPending
PROPERTIES CancellationReleases
CHECK_DEADLOCK FALSE
