\* Two users log on and may end at any time, also while they are written to; no symmetry, for liveness.
CONSTANTS
  Clients = {c1, c2}
  UserIds = {0, 1}
  UserNames = {n1, n2}
  RoomNames = {HALL, den}
  TypedRooms = {den}
  Passwords = {none, pw}
  HALL_NAME = HALL
  NoPasswd = none
  INVALID_ROOM_ID = 99
  MaxInputs = 0
  InputKinds = {"exit"}
  PatientUsers = TRUE
  SigPipeKills = TRUE
SPECIFICATION FairSpec
PROPERTIES LogonAnswered DepartureNoticed ViewsSettle
CHECK_DEADLOCK FALSE
