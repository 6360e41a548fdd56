\* A user who types before the first answer of the server.
CONSTANTS
  Clients = {c1, c2}
  UserIds = {0, 1}
  UserNames = {n1, n2}
  RoomNames = {HALL, den}
  TypedRooms = {den}
  Passwords = {none, pw}
  HALL_NAME = HALL
  NoPasswd = none
  INVALID_ROOM_ID = 99
  MaxInputs = 1
  InputKinds = {"chat"}
  PatientUsers = FALSE
  SigPipeKills = FALSE
SPECIFICATION Spec
INVARIANT LookupsSucceed
CHECK_DEADLOCK FALSE
