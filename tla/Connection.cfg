\* Two peers, a frame and a message, all the ways a write can fail, and lengths that are refused.
CONSTANTS
  None = None
  Clients = {c1, c2}
  Fds = {f1, f2}
  HEAD_LENGTH = 2
  BodyLength = 1
  MessageLength = 1
  MaxFrames = 1
  MaxSends = 1
  ShortWrites = FALSE
  WritesFail = TRUE
  Foreign = {c2}
SPECIFICATION FairSpec
INVARIANTS EventsHaveOwners NothingLeftUnsent
PROPERTIES EndIsNoticed HandlersAreAtomic
CHECK_DEADLOCK FALSE
