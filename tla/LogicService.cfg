\* Three contexts from any thread, a service that is started, used and stopped,
\* an Init that may fail and waits that may return unsignalled.
CONSTANTS
  Msgs = {m1, m2, m3}
  START = start
  InitMayFail = TRUE
  SpuriousWakeups = TRUE
SPECIFICATION FairSpec
INVARIANTS TypeOK SleepsWithNothingToDo
PROPERTIES KeepsOrder KeepsPromise StopReturns
CHECK_DEADLOCK FALSE
