\* A peer that ends as soon as it is connected.
CONSTANTS
  None = None
  Clients = {c1}
  Fds = {f1}
  HEAD_LENGTH = 2
  BodyLength = 1
  MessageLength = 1
  MaxFrames = 0
  MaxSends = 0
  ShortWrites = FALSE
  WritesFail = FALSE
  Foreign = {}
SPECIFICATION Spec
INVARIANTS UnRegistrationsSucceed
CHECK_DEADLOCK FALSE
