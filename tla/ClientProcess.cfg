\* A client that is shown two frames, or one while its user types a line.
CONSTANTS
  Chats = {chat}
  LocalLines = {leave}
  LEAVE = leave
  LOGON = logon
  START = start
  MaxLines = 1
  MaxTraffic = 2
  ConnectMayFail = TRUE
SPECIFICATION FairSpec
INVARIANTS ShownInOrder FailsOnlyAtTheEnd StopIsFinal
PROPERTIES StartsOrFails LeavingEnds
CHECK_DEADLOCK FALSE
