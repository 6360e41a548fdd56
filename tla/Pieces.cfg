\* Two peers that use one descriptor in turn; frames and messages in pieces.
CONSTANTS
  None = None
  Clients = {c1, c2}
  Fds = {f1}
  HEAD_LENGTH = 2
  BodyLength = 2
  MessageLength = 2
  MaxFrames = 2
  MaxSends = 2
  ShortWrites = TRUE
  WritesFail = FALSE
  Foreign = {}
SPECIFICATION Spec
INVARIANTS FramesIntact MessagesIntact DriverEntersLiveOnly
CHECK_DEADLOCK FALSE
