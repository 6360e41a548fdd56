\* Two users chat or whisper and may end at any time.
CONSTANTS
  Clients = {c1, c2}
  UserIds = {0, 1}
  UserNames = {n1, n2}
  RoomNames = {HALL, den}
  TypedRooms = {den}
  Passwords = {none, pw}
  HALL_NAME = HALL
  NoPasswd = none
  INVALID_ROOM_ID = 99
  MaxInputs = 1
  InputKinds = {"exit", "chat", "whisper"}
  PatientUsers = TRUE
  SigPipeKills = TRUE
SPECIFICATION Spec
INVARIANTS NoGhostUser NothingAfterDrop LookupsSucceed
SYMMETRY Symmetry
CHECK_DEADLOCK FALSE
