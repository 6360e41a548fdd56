--------------------------- MODULE ChatSystemProofs ---------------------------
(***************************************************************************)
(* Theorems about the server's threads and its clients together, for any   *)
(* number of clients, any names, rooms and passwords, and any commands.    *)
(*                                                                         *)
(* The invariant follows a connection on its way: its socket waits in the  *)
(* backlog, then an OP_ACCEPT in the NetService's queue, then it has an id *)
(* that no other connection ever gets; its frames pass the two queues in   *)
(* order, and one or more drops end it.  A user is registered only by a    *)
(* frame that is ahead of the drop that will remove it.                    *)
(*                                                                         *)
(* Of the Worker it needs no more than the first part says: a step of it   *)
(* is one operation of the registry, whose invariant (RoomKeeperProofs) it *)
(* keeps, and messages to clients that say only what is so in the registry.*)
(***************************************************************************)
EXTENDS ChatSystem, QueueLemmas, FiniteSetTheorems

-----------------------------------------------------------------------------
(* What the code iterates over: every member of a set of users, once.      *)
LEMMA InOrderLists ==
  ASSUME NEW users \in SUBSET Nat, IsFiniteSet(users)
  PROVE  /\ Cardinality(users) \in Nat
         /\ InOrder(users) \in [1 .. Cardinality(users) -> users]
         /\ \A u \in users : \E i \in 1 .. Cardinality(users) : InOrder(users)[i] = u
<1> DEFINE n == Cardinality(users)
           upTo(u) == {v \in users : v <= u}
           rank == [u \in users |-> Cardinality(upTo(u))]
<1>1. n \in Nat /\ \A u \in users : u \in Nat
  BY FS_CardinalityType
<1>2. \A u \in users : IsFiniteSet(upTo(u)) /\ Cardinality(upTo(u)) \in 1 .. n
  <2> TAKE u \in users
  <2>1. upTo(u) \in SUBSET users /\ u \in upTo(u)
    BY <1>1
  <2>2. IsFiniteSet(upTo(u)) /\ Cardinality(upTo(u)) <= n
    BY <2>1, FS_Subset
  <2>3. Cardinality(upTo(u)) \in Nat /\ Cardinality(upTo(u)) # 0
    BY <2>1, <2>2, FS_CardinalityType, FS_EmptySet
  <2> HIDE DEF upTo, n
  <2> QED BY <1>1, <2>2, <2>3
<1>3. \A u, v \in users : u < v => rank[u] < rank[v]
  <2> SUFFICES ASSUME NEW u \in users, NEW v \in users, u < v
               PROVE  Cardinality(upTo(u)) < Cardinality(upTo(v))
    OBVIOUS
  <2>1. \A w \in users : w <= u => w <= v
    BY <1>1
  <2>2. upTo(u) \in SUBSET upTo(v)
    BY <2>1
  <2>3. v \in upTo(v) /\ v \notin upTo(u)
    BY <1>1
  <2>4. /\ Cardinality(upTo(u)) <= Cardinality(upTo(v))
        /\ Cardinality(upTo(u)) # Cardinality(upTo(v))
    BY <1>2, <2>2, <2>3, FS_Subset
  <2> HIDE DEF upTo, n
  <2> QED BY <1>1, <1>2, <2>4
<1>4. rank \in Injection(users, 1 .. n)
  <2>1. rank \in [users -> 1 .. n] /\ DOMAIN rank = users
    BY <1>2
  <2> HIDE DEF rank, n
  <2>2. \A u, v \in users : rank[u] = rank[v] => u = v
    BY <1>1, <1>3, <2>1
  <2> QED BY <2>1, <2>2 DEF Injection, IsInjective
<1>5. rank \in Surjection(users, 1 .. n)
  <2>1. IsFiniteSet(1 .. n) /\ Cardinality(1 .. n) = n
    BY <1>1, FS_Interval
  <2> HIDE DEF rank
  <2> QED BY <1>4, <2>1, FS_Injection
<1> HIDE DEF rank, n
<1>6. PICK ids \in [1 .. n -> users] : \A i \in 1 .. n : rank[ids[i]] = i
  <2> DEFINE ofRank(i) == CHOOSE u \in users : rank[u] = i
  <2>1. \A i \in 1 .. n : \E u \in users : rank[u] = i
    BY <1>5 DEF Surjection
  <2>2. \A i \in 1 .. n : ofRank(i) \in users /\ rank[ofRank(i)] = i
    BY <2>1
  <2> HIDE DEF ofRank
  <2>3. [i \in 1 .. n |-> ofRank(i)] \in [1 .. n -> users]
    BY <2>2
  <2> WITNESS [i \in 1 .. n |-> ofRank(i)] \in [1 .. n -> users]
  <2> QED BY <2>2
<1>7. \A i, j \in 1 .. n : i < j => ids[i] < ids[j]
  <2> SUFFICES ASSUME NEW i \in 1 .. n, NEW j \in 1 .. n, i < j
               PROVE  ids[i] < ids[j]
    OBVIOUS
  <2>1. ids[i] \in users /\ ids[j] \in users
    OBVIOUS
  <2>2. ids[i] \in Nat /\ ids[j] \in Nat
    BY <1>1, <2>1
  <2>3. CASE ids[j] < ids[i]
    <3>1. rank[ids[j]] < rank[ids[i]]
      BY <1>3, <2>1, <2>3
    <3>2. j < i
      BY <1>6, <3>1
    <3> QED BY <1>1, <3>2
  <2>4. CASE ids[j] = ids[i]
    BY <1>1, <1>6, <2>4
  <2> QED BY <2>2, <2>3, <2>4
<1>8. /\ InOrder(users) \in [1 .. n -> users]
      /\ \A i, j \in 1 .. n : i < j => InOrder(users)[i] < InOrder(users)[j]
  BY <1>7 DEF InOrder, n
<1>9. InOrder(users) \in Injection(1 .. n, users)
  <2> DEFINE f == InOrder(users)
  <2>1. f \in [1 .. n -> users] /\ DOMAIN f = 1 .. n
    BY <1>8
  <2>2. \A i \in 1 .. n : f[i] \in Nat
    BY <1>1, <2>1
  <2>3. \A i, j \in 1 .. n : i < j => f[i] < f[j]
    BY <1>8
  <2> HIDE DEF f
  <2>4. \A i, j \in 1 .. n : f[i] = f[j] => i = j
    BY <1>1, <2>2, <2>3
  <2>5. f \in Injection(1 .. n, users)
    BY <2>1, <2>4 DEF Injection, IsInjective
  <2> QED BY <2>5 DEF f
<1>10. InOrder(users) \in Surjection(1 .. n, users)
  <2>1. Cardinality(1 .. n) = n
    BY <1>1, FS_Interval
  <2> QED BY <1>9, <2>1, FS_Injection DEF n
<1> QED BY <1>1, <1>8, <1>10 DEF Surjection, n

(* A message to a set of users goes to each of them and to nobody else.    *)
LEMMA SendToAllSends ==
  ASSUME NEW users \in SUBSET Nat, IsFiniteSet(users), NEW msg
  PROVE  /\ IsQueue(SendToAll(users, msg))
         /\ Range(SendToAll(users, msg)) = {Send(u, msg) : u \in users}
<1> DEFINE n == Cardinality(users)
           ids == InOrder(users)
           sent == SendToAll(users, msg)
<1>1. /\ n \in Nat /\ ids \in [1 .. n -> users]
      /\ \A u \in users : \E i \in 1 .. n : ids[i] = u
  BY InOrderLists
<1>2. sent = [i \in 1 .. n |-> Send(ids[i], msg)]
  BY DEF SendToAll
<1> HIDE DEF n, ids, sent
<1>3. Range(sent) = {Send(u, msg) : u \in users}
  BY <1>1, <1>2 DEF Range
<1>4. sent \in [1 .. n -> Range(sent)]
  BY <1>2 DEF Range
<1>5. sent \in Seq(Range(sent))
  BY <1>1, <1>4, SeqDef
<1> QED BY <1>3, <1>5 DEF sent, IsQueue

-----------------------------------------------------------------------------
(* What the registry and a client can make of a message.                   *)
FromServer(m, rooms) ==
  /\ m.type = "s2c_room_info" =>
       m \in [type : {"s2c_room_info"}, room : DOMAIN rooms, users : SUBSET UserIds]
  /\ m.type = "s2c_room_list" =>
       m \in [type : {"s2c_room_list"}, rooms : SUBSET DOMAIN rooms]

(* What is said in a room or about it.                                     *)
TellsRoom(m) == m.type \in {"s2c_room_info", "s2c_room_chat_msg"}

(* What an operation may enqueue: only who is registered is told of a room. *)
AllSends(sent, rooms, users) ==
  /\ IsQueue(sent)
  /\ \A x \in Range(sent) :
       /\ x.op = "OP_SEND"
       /\ FromServer(x.msg, rooms)
       /\ TellsRoom(x.msg) => x.conn \in DOMAIN users

LEMMA NothingIsSent == \A rooms, users : AllSends(<<>>, rooms, users)
  BY EmptyQueue DEF AllSends

LEMMA BothAreSent ==
  ASSUME NEW s, NEW t, NEW rooms, NEW users,
         AllSends(s, rooms, users), AllSends(t, rooms, users)
  PROVE  AllSends(s \o t, rooms, users)
  BY ConcatOfQueues DEF AllSends

LEMMA AnswerIsSent ==
  ASSUME NEW rooms, NEW users, NEW connId, NEW msg,
         ~TellsRoom(msg), FromServer(msg, rooms)
  PROVE  AllSends(<<Send(connId, msg)>>, rooms, users)
  BY SingleQueue DEF AllSends, Send

LEMMA AllAreSent ==
  ASSUME NEW rooms, NEW users, NEW S \in SUBSET Nat, IsFiniteSet(S), NEW msg,
         FromServer(msg, rooms), TellsRoom(msg) => S \subseteq DOMAIN users
  PROVE  AllSends(SendToAll(S, msg), rooms, users)
  BY SendToAllSends DEF AllSends, Send

-----------------------------------------------------------------------------
(* The registry as the Worker uses it is the registry of the proofs.       *)
KP == INSTANCE RoomKeeperProofs

LEMMA SameLogon ==
  ASSUME NEW u, NEW n
  PROVE  Keeper!HandleLogon(u, n) <=> KP!HandleLogon(u, n)
  BY DEF Keeper!HandleLogon, KP!HandleLogon, Keeper!LogonErr, KP!LogonErr,
         Keeper!JoinErr, KP!JoinErr, Keeper!Publishable, KP!Publishable,
         Keeper!Asserts, KP!Asserts, Keeper!AddUser, KP!AddUser, Keeper!Put, KP!Put,
         Keeper!keeperVars, KP!keeperVars

LEMMA SameCreate ==
  ASSUME NEW n, NEW p
  PROVE  Keeper!CreateRoom(n, p) <=> KP!CreateRoom(n, p)
  BY DEF Keeper!CreateRoom, KP!CreateRoom, Keeper!CreateErr, KP!CreateErr,
         Keeper!NextRoomId, KP!NextRoomId, Keeper!NewRoom, KP!NewRoom,
         Keeper!Put, KP!Put, Keeper!keeperVars, KP!keeperVars

LEMMA SameJoin ==
  ASSUME NEW n, NEW p, NEW u
  PROVE  Keeper!HandleJoinRoom(n, p, u) <=> KP!HandleJoinRoom(n, p, u)
  BY DEF Keeper!HandleJoinRoom, KP!HandleJoinRoom, Keeper!HandleJoinErr, KP!HandleJoinErr,
         Keeper!JoinErr, KP!JoinErr, Keeper!LeftRoom, KP!LeftRoom,
         Keeper!RoomsFound, KP!RoomsFound, Keeper!Publishable, KP!Publishable,
         Keeper!Asserts, KP!Asserts, Keeper!AddUser, KP!AddUser,
         Keeper!HandleUserLeave, KP!HandleUserLeave, Keeper!tables, KP!tables

LEMMA SameDrop ==
  ASSUME NEW u
  PROVE  Keeper!HandleDrop(u) <=> KP!HandleDrop(u)
  BY DEF Keeper!HandleDrop, KP!HandleDrop, Keeper!Publishable, KP!Publishable,
         Keeper!Asserts, KP!Asserts, Keeper!HandleUserLeave, KP!HandleUserLeave,
         Keeper!Without, KP!Without, Keeper!Restrict, KP!Restrict,
         Keeper!keeperVars, KP!keeperVars

LEMMA SameMessage ==
  ASSUME NEW r, NEW u
  PROVE  /\ Keeper!PublishRoomMessage(r, u) <=> KP!PublishRoomMessage(r, u)
         /\ Keeper!GetUserById(u) <=> KP!GetUserById(u)
  BY DEF Keeper!PublishRoomMessage, KP!PublishRoomMessage, Keeper!ChatLookups, KP!ChatLookups,
         Keeper!Publishable, KP!Publishable, Keeper!Asserts, KP!Asserts,
         Keeper!tables, KP!tables, Keeper!GetUserById, KP!GetUserById

LEMMA SameNext == Keeper!Next <=> KP!Next
  BY SameLogon, SameCreate, SameJoin, SameDrop, SameMessage DEF Keeper!Next, KP!Next

LEMMA SameInit == Keeper!Init <=> KP!Init
  BY DEF Keeper!Init, KP!Init, Keeper!EmptyMap, KP!EmptyMap, Keeper!HALL_ID, KP!HALL_ID,
         Keeper!NewRoom, KP!NewRoom

LEMMA RegistryInit == Keeper!Init => KP!IInv
  BY SameInit, KP!InitIInv, RegistryAssumption

LEMMA RegistryStep ==
  ASSUME KP!IInv, Keeper!Next
  PROVE  KP!IInv' /\ DOMAIN mIdRoom \subseteq DOMAIN mIdRoom'
<1>1. KP!IInv'
  BY SameNext, KP!StepIInv, RegistryAssumption
<1>2. KP!RoomsStay
  BY SameNext, KP!StepRoomsStay, RegistryAssumption
<1> QED BY <1>1, <1>2 DEF KP!RoomsStay

-----------------------------------------------------------------------------
(* What the operations publish.                                            *)
Members(rooms, users) ==
  /\ \A r \in DOMAIN rooms : rooms[r].users \subseteq DOMAIN users
  /\ \A r \in DOMAIN rooms : rooms[r].users \subseteq UserIds
  /\ DOMAIN users \subseteq UserIds

LEMMA RegistryMembers ==
  /\ KP!IInv => Members(mIdRoom, mIdUser)
  /\ KP!IInv' => Members(mIdRoom', mIdUser')
  BY DEF Members, KP!IInv, KP!TypeOK, KP!OneRoomEach, KP!RoomRecord

LEMMA RoomIsSent ==
  ASSUME NEW rooms, NEW users, NEW r \in DOMAIN rooms,
         Members(rooms, users), IsFiniteSet(DOMAIN users)
  PROVE  AllSends(PublishRoomInfo(rooms, r), rooms, users)
<1> DEFINE S == rooms[r].users
           msg == RoomInfoMsg(rooms, r)
<1>1. S \subseteq DOMAIN users /\ S \subseteq UserIds
  BY DEF Members
<1>2. S \in SUBSET Nat /\ IsFiniteSet(S)
  BY <1>1, FS_Subset, RegistryAssumption
<1>3. FromServer(msg, rooms)
  BY <1>1 DEF RoomInfoMsg, FromServer
<1> HIDE DEF S, msg
<1>4. AllSends(SendToAll(S, msg), rooms, users)
  BY <1>1, <1>2, <1>3, AllAreSent
<1> QED BY <1>4 DEF PublishRoomInfo, S, msg

LEMMA ListIsSent ==
  ASSUME NEW rooms, NEW users, NEW connId,
         Members(rooms, users), IsFiniteSet(DOMAIN users)
  PROVE  AllSends(PublishRoomList(connId, rooms, users), rooms, users)
<1> DEFINE msg == RoomListMsg(rooms)
<1>1. FromServer(msg, rooms) /\ ~TellsRoom(msg)
  BY DEF RoomListMsg, FromServer, TellsRoom
<1>2. DOMAIN users \in SUBSET Nat
  BY RegistryAssumption DEF Members
<1> HIDE DEF msg
<1>3. AllSends(<<Send(connId, msg)>>, rooms, users)
  BY <1>1, AnswerIsSent
<1>4. AllSends(SendToAll(DOMAIN users, msg), rooms, users)
  BY <1>1, <1>2, AllAreSent
<1> QED BY <1>3, <1>4 DEF PublishRoomList, msg

-----------------------------------------------------------------------------
(* What a client may ask for.                                              *)
FromClient(m, rooms) ==
  /\ m.type = "c2s_logon" => m.name \in UserNames
  /\ m.type = "c2s_publish_chat_msg" => m.room \in DOMAIN rooms \cup {INVALID_ROOM_ID}
  /\ m.type \in {"c2s_create_room", "c2s_join_room"} =>
       m.name \in RoomNames /\ m.passwd \in Passwords

(* A handler is one operation of the registry; it enqueues what that       *)
(* operation publishes, and registers nobody but the sender.               *)
Operation(u) ==
  /\ KP!IInv /\ Keeper!Next /\ KP!IInv'
  /\ DOMAIN mIdRoom \subseteq DOMAIN mIdRoom'
  /\ DOMAIN mIdUser' \subseteq DOMAIN mIdUser \cup {u}
  /\ \E sent : Finish(sent) /\ AllSends(sent, mIdRoom', mIdUser')

LEMMA OperationSteps ==
  ASSUME KP!IInv, Keeper!Next, NEW u,
         DOMAIN mIdUser' \subseteq DOMAIN mIdUser \cup {u},
         NEW sent, Finish(sent), AllSends(sent, mIdRoom', mIdUser')
  PROVE  Operation(u)
  BY RegistryStep DEF Operation

LEMMA LogonOperation ==
  ASSUME KP!IInv, IsFiniteSet(DOMAIN mIdUser), failed = "none",
         NEW u \in UserIds, NEW n \in UserNames, HandleLogon(u, n)
  PROVE  Operation(u)
<1> DEFINE err == Keeper!LogonErr(u, n)
           hall == mRoomNames[HALL_NAME]
           info == IF err = "ok" THEN PublishRoomInfo(mIdRoom', hall) ELSE <<>>
           answer == <<Send(u, Reply("s2c_logon_res", err))>>
           list == PublishRoomList(u, mIdRoom', mIdUser')
<1>1. Keeper!HandleLogon(u, n) /\ Finish(info \o answer \o list)
  BY DEF HandleLogon
<1>2. Keeper!Next
  BY <1>1 DEF Keeper!Next
<1>3. DOMAIN mIdUser' \subseteq DOMAIN mIdUser \cup {u}
  BY <1>1 DEF Keeper!HandleLogon, Keeper!Put, Keeper!keeperVars
<1>4. KP!IInv' /\ Members(mIdRoom', mIdUser') /\ IsFiniteSet(DOMAIN mIdUser')
  <2>1. KP!IInv'
    BY <1>2, RegistryStep
  <2>2. IsFiniteSet(DOMAIN mIdUser')
    BY <1>3, FS_AddElement, FS_Subset
  <2> QED BY <2>1, <2>2, RegistryMembers
<1>5. AllSends(info, mIdRoom', mIdUser')
  <2>1. CASE err = "ok"
    <3>1. hall \in DOMAIN mIdRoom
      BY DEF KP!IInv, KP!RoomsAgree
    <3>2. hall \in DOMAIN mIdRoom'
      BY <1>2, <3>1, RegistryStep
    <3>3. AllSends(PublishRoomInfo(mIdRoom', hall), mIdRoom', mIdUser')
      BY <1>4, <3>2, RoomIsSent
    <3> QED BY <2>1, <3>3
  <2>2. CASE err # "ok"
    BY <2>2, NothingIsSent
  <2> QED BY <2>1, <2>2
<1>6. AllSends(answer, mIdRoom', mIdUser')
  <2>1. /\ FromServer(Reply("s2c_logon_res", err), mIdRoom')
        /\ ~TellsRoom(Reply("s2c_logon_res", err))
    BY DEF Reply, FromServer, TellsRoom
  <2> QED BY <2>1, AnswerIsSent
<1>7. AllSends(list, mIdRoom', mIdUser')
  BY <1>4, ListIsSent
<1> HIDE DEF info, answer, list
<1>8. AllSends(info \o answer \o list, mIdRoom', mIdUser')
  BY <1>5, <1>6, <1>7, BothAreSent
<1> QED BY <1>1, <1>2, <1>3, <1>8, OperationSteps

LEMMA ChatOperation ==
  ASSUME KP!IInv, IsFiniteSet(DOMAIN mIdUser), failed = "none",
         NEW u \in UserIds, NEW r \in DOMAIN mIdRoom \cup {INVALID_ROOM_ID},
         PublishChatMessage(u, r)
  PROVE  Operation(u)
<1> DEFINE sent == IF Keeper!ChatLookups(r, u)
                   THEN SendToAll(mIdRoom[r].users, ChatMsg(r)) ELSE <<>>
<1>1. Keeper!PublishRoomMessage(r, u) /\ Finish(sent)
  BY DEF PublishChatMessage
<1>2. Keeper!Next
  BY <1>1 DEF Keeper!Next
<1>3. mIdUser' = mIdUser /\ mIdRoom' = mIdRoom
  BY <1>1 DEF Keeper!PublishRoomMessage, Keeper!tables
<1>4. AllSends(sent, mIdRoom, mIdUser)
  <2>1. CASE Keeper!ChatLookups(r, u)
    <3>1. r \in DOMAIN mIdRoom
      BY <2>1 DEF Keeper!ChatLookups
    <3>2. mIdRoom[r].users \subseteq UserIds /\ mIdRoom[r].users \subseteq DOMAIN mIdUser
      BY <3>1, RegistryMembers DEF Members
    <3>3. mIdRoom[r].users \in SUBSET Nat /\ IsFiniteSet(mIdRoom[r].users)
      BY <3>2, RegistryAssumption, FS_Subset
    <3>4. FromServer(ChatMsg(r), mIdRoom)
      BY DEF FromServer, ChatMsg
    <3>5. AllSends(SendToAll(mIdRoom[r].users, ChatMsg(r)), mIdRoom, mIdUser)
      BY <3>2, <3>3, <3>4, AllAreSent
    <3> QED BY <2>1, <3>5
  <2>2. CASE ~Keeper!ChatLookups(r, u)
    BY <2>2, NothingIsSent
  <2> QED BY <2>1, <2>2
<1> HIDE DEF sent
<1> QED BY <1>1, <1>2, <1>3, <1>4, OperationSteps

LEMMA CreateOperation ==
  ASSUME KP!IInv, IsFiniteSet(DOMAIN mIdUser), failed = "none",
         NEW u \in UserIds, NEW n \in RoomNames, NEW p \in Passwords,
         HandleCreateRoom(u, n, p)
  PROVE  Operation(u)
<1> DEFINE answer == <<Send(u, Reply("s2c_create_room_res", Keeper!CreateErr(n)))>>
           list == PublishRoomList(0, mIdRoom', mIdUser')
<1>1. Keeper!CreateRoom(n, p) /\ Finish(answer \o list)
  BY DEF HandleCreateRoom
<1>2. Keeper!Next
  BY <1>1 DEF Keeper!Next
<1>3. mIdUser' = mIdUser
  BY <1>1 DEF Keeper!CreateRoom, Keeper!keeperVars
<1>4. AllSends(answer, mIdRoom', mIdUser')
  BY AnswerIsSent DEF Reply, FromServer, TellsRoom
<1>5. AllSends(list, mIdRoom', mIdUser')
  BY <1>2, <1>3, RegistryStep, RegistryMembers, ListIsSent
<1> HIDE DEF answer, list
<1>6. AllSends(answer \o list, mIdRoom', mIdUser')
  BY <1>4, <1>5, BothAreSent
<1> QED BY <1>1, <1>2, <1>3, <1>6, OperationSteps

LEMMA JoinOperation ==
  ASSUME KP!IInv, IsFiniteSet(DOMAIN mIdUser), failed = "none",
         NEW u \in UserIds, NEW n \in RoomNames, NEW p \in Passwords,
         HandleJoinRoom(u, n, p)
  PROVE  Operation(u)
<1> DEFINE err == Keeper!HandleJoinErr(n, p, u)
           new == mRoomNames[n]
           old == Keeper!LeftRoom(u)
           newInfo == PublishRoomInfo(mIdRoom', new)
           oldInfo == PublishRoomInfo(mIdRoom', old)
           answer == <<Send(u, Reply("s2c_join_room_res", err))>>
           infos == IF err = "ok" THEN newInfo \o oldInfo ELSE <<>>
<1>1. Keeper!HandleJoinRoom(n, p, u) /\ Finish(infos \o answer)
  BY DEF HandleJoinRoom
<1>2. Keeper!Next
  BY <1>1 DEF Keeper!Next
<1>3. DOMAIN mIdUser' = DOMAIN mIdUser
  BY <1>1 DEF Keeper!HandleJoinRoom, Keeper!tables
<1>4. KP!IInv' /\ Members(mIdRoom', mIdUser') /\ IsFiniteSet(DOMAIN mIdUser')
  BY <1>2, <1>3, RegistryStep, RegistryMembers
<1>5. AllSends(infos, mIdRoom', mIdUser')
  <2>1. CASE err = "ok"
    <3>1. u \in DOMAIN mIdUser /\ n \in DOMAIN mRoomNames
      BY <2>1 DEF Keeper!HandleJoinErr, Keeper!JoinErr
    <3>2. new \in DOMAIN mIdRoom /\ old \in DOMAIN mIdRoom
      BY <3>1 DEF Keeper!LeftRoom, KP!IInv, KP!RoomsAgree, KP!OneRoomEach
    <3> HIDE DEF new, old
    <3>3. new \in DOMAIN mIdRoom' /\ old \in DOMAIN mIdRoom'
      BY <1>2, <3>2, RegistryStep
    <3>4. AllSends(newInfo, mIdRoom', mIdUser') /\ AllSends(oldInfo, mIdRoom', mIdUser')
      BY <1>4, <3>3, RoomIsSent
    <3> HIDE DEF newInfo, oldInfo, err
    <3>5. AllSends(newInfo \o oldInfo, mIdRoom', mIdUser')
      BY <3>4, BothAreSent
    <3> QED BY <2>1, <3>5
  <2>2. CASE err # "ok"
    BY <2>2, NothingIsSent
  <2> QED BY <2>1, <2>2
<1>6. AllSends(answer, mIdRoom', mIdUser')
  <2>1. /\ FromServer(Reply("s2c_join_room_res", err), mIdRoom')
        /\ ~TellsRoom(Reply("s2c_join_room_res", err))
    BY DEF Reply, FromServer, TellsRoom
  <2> QED BY <2>1, AnswerIsSent
<1> HIDE DEF infos, answer
<1>7. AllSends(infos \o answer, mIdRoom', mIdUser')
  BY <1>5, <1>6, BothAreSent
<1> QED BY <1>1, <1>2, <1>3, <1>7, OperationSteps

LEMMA WhisperOperation ==
  ASSUME KP!IInv, IsFiniteSet(DOMAIN mIdUser), failed = "none",
         NEW u \in UserIds, NEW n, HandleWhisperMsg(u, n)
  PROVE  Operation(u)
<1> DEFINE target == Keeper!GetUserByName(n)
           failure == [type |-> "s2c_whisper_msg_failed"]
           whisper == [type |-> "s2c_whisper_msg"]
           sent == IF target = {} THEN <<Send(u, failure)>> ELSE SendToAll(target, whisper)
<1>1. Keeper!GetUserById(u) /\ Finish(sent)
  BY DEF HandleWhisperMsg
<1>2. Keeper!Next
  BY <1>1 DEF Keeper!Next
<1>3. mIdUser' = mIdUser /\ mIdRoom' = mIdRoom
  BY <1>1 DEF Keeper!GetUserById, Keeper!tables
<1>4. AllSends(<<Send(u, failure)>>, mIdRoom, mIdUser)
  BY AnswerIsSent DEF FromServer, TellsRoom
<1>5. AllSends(SendToAll(target, whisper), mIdRoom, mIdUser)
  <2>1. target \subseteq DOMAIN mIdUser
    BY DEF Keeper!GetUserByName
  <2>2. DOMAIN mIdUser \subseteq UserIds
    BY RegistryMembers DEF Members
  <2> HIDE DEF target
  <2>3. target \in SUBSET Nat /\ IsFiniteSet(target)
    BY <2>1, <2>2, RegistryAssumption, FS_Subset
  <2>4. FromServer(whisper, mIdRoom) /\ ~TellsRoom(whisper)
    BY DEF FromServer, TellsRoom
  <2> HIDE DEF whisper
  <2> QED BY <2>3, <2>4, AllAreSent
<1>6. AllSends(sent, mIdRoom, mIdUser)
  BY <1>4, <1>5
<1> HIDE DEF sent
<1> QED BY <1>1, <1>2, <1>3, <1>6, OperationSteps

(* A message received.                                                     *)
LEMMA ReceivedOperation ==
  ASSUME KP!IInv, IsFiniteSet(DOMAIN mIdUser), failed = "none", RecvMessage,
         Head(mWorkerQueue).conn \in UserIds, FromClient(Head(mWorkerQueue).msg, mIdRoom)
  PROVE  Operation(Head(mWorkerQueue).conn)
<1> DEFINE u == Head(mWorkerQueue).conn
           msg == Head(mWorkerQueue).msg
<1>1. CASE msg.type = "c2s_logon" /\ HandleLogon(u, msg.name)
  BY <1>1, LogonOperation DEF FromClient
<1>2. CASE msg.type = "c2s_publish_chat_msg" /\ PublishChatMessage(u, msg.room)
  BY <1>2, ChatOperation DEF FromClient
<1>3. CASE msg.type = "c2s_create_room" /\ HandleCreateRoom(u, msg.name, msg.passwd)
  BY <1>3, CreateOperation DEF FromClient
<1>4. CASE msg.type = "c2s_join_room" /\ HandleJoinRoom(u, msg.name, msg.passwd)
  BY <1>4, JoinOperation DEF FromClient
<1>5. CASE msg.type = "c2s_whisper_msg" /\ HandleWhisperMsg(u, msg.to)
  BY <1>5, WhisperOperation
<1> QED BY <1>1, <1>2, <1>3, <1>4, <1>5 DEF RecvMessage

(* A drop: the user is gone afterwards, nobody else is.                    *)
LEMMA DropOperation ==
  ASSUME KP!IInv, IsFiniteSet(DOMAIN mIdUser), failed = "none",
         NEW u \in UserIds, HandleDrop(u)
  PROVE  Operation(u) /\ DOMAIN mIdUser' = DOMAIN mIdUser \ {u}
<1> DEFINE room == mIdUser[u].roomId
           sent == IF u \in DOMAIN mIdUser THEN PublishRoomInfo(mIdRoom', room) ELSE <<>>
<1>1. Keeper!HandleDrop(u) /\ Finish(sent)
  BY DEF HandleDrop
<1>2. Keeper!Next
  BY <1>1 DEF Keeper!Next
<1>3. DOMAIN mIdUser' = DOMAIN mIdUser \ {u}
  BY <1>1 DEF Keeper!HandleDrop, Keeper!keeperVars, Keeper!Without, Keeper!Restrict
<1>4. KP!IInv' /\ Members(mIdRoom', mIdUser') /\ IsFiniteSet(DOMAIN mIdUser')
  BY <1>2, <1>3, RegistryStep, RegistryMembers, FS_Subset
<1>5. AllSends(sent, mIdRoom', mIdUser')
  <2>1. CASE u \in DOMAIN mIdUser
    <3>1. room \in DOMAIN mIdRoom
      BY <2>1 DEF KP!IInv, KP!OneRoomEach
    <3> HIDE DEF room
    <3>2. AllSends(PublishRoomInfo(mIdRoom', room), mIdRoom', mIdUser')
      BY <1>2, <1>4, <3>1, RegistryStep, RoomIsSent
    <3> QED BY <2>1, <3>2
  <2>2. CASE u \notin DOMAIN mIdUser
    BY <2>2, NothingIsSent
  <2> QED BY <2>1, <2>2
<1> HIDE DEF sent
<1> QED BY <1>1, <1>2, <1>3, <1>5, OperationSteps

-----------------------------------------------------------------------------
(* The server and its clients.                                             *)

(* The ids given so far. *)
Ids == 0 .. mMaxID - 1

(* The ids and messages in the two queues.                                 *)
QueuesOK ==
  /\ IsQueue(mWorkerQueue) /\ IsQueue(mNetQueue)
  /\ \A x \in Range(mWorkerQueue) : x.op \in {"OP_RECV", "OP_SEND", "OP_DROP"}
  /\ \A x \in Range(mNetQueue) : x.op \in {"OP_RECV", "OP_SEND", "OP_DROP", "OP_ACCEPT"}
  /\ \A x \in Range(mWorkerQueue) \cup Range(mNetQueue) :
       /\ x.op \in {"OP_RECV", "OP_DROP"} => x.conn \in Ids
       /\ x.op = "OP_RECV" => FromClient(x.msg, mIdRoom)
       /\ x.op = "OP_SEND" => FromServer(x.msg, mIdRoom)

(* What a client shows and what is on its way from it and to it.           *)
ClientsOK ==
  /\ phase \in [Clients -> {"idle", "up", "exited"}]
  /\ mCurrentRoom \in [Clients -> DOMAIN mIdRoom \cup {INVALID_ROOM_ID}]
  /\ mOnlines \in [Clients -> SUBSET UserIds]
  /\ mRooms \in [Clients -> SUBSET DOMAIN mIdRoom]
  /\ DOMAIN toServer = Clients /\ DOMAIN toClient = Clients
  /\ \A c \in Clients :
       /\ IsQueue(toServer[c]) /\ \A m \in Range(toServer[c]) : FromClient(m, mIdRoom)
       /\ IsQueue(toClient[c]) /\ \A m \in Range(toClient[c]) : FromServer(m, mIdRoom)

(* A client the NetService has accepted has got the next id, once.         *)
Accepts(queue, c) == \E x \in Range(queue) : x.op = "OP_ACCEPT" /\ x.socket = c

Accepted == {c \in Clients : phase[c] # "idle" /\ c \notin backlog /\ ~Accepts(mNetQueue, c)}

AcceptedOnce ==
  /\ mMaxID = Cardinality(Accepted)
  /\ \A c \in backlog : c \in Clients /\ phase[c] # "idle"
  /\ \A x \in Range(mNetQueue) : x.op = "OP_ACCEPT" =>
       x.socket \in Clients /\ phase[x.socket] # "idle" /\ x.socket \notin backlog
  /\ \A x, y \in Range(mNetQueue) :
       Before(mNetQueue, x, y) /\ x.op = "OP_ACCEPT" /\ y.op = "OP_ACCEPT"
         => x.socket # y.socket

(* Whatever names a connection names one that has been made.               *)
ConnectionsOK ==
  /\ mMaxID \in Nat
  /\ DOMAIN mConns \subseteq Ids
  /\ \A id \in DOMAIN mConns : mConns[id] \in [socket : Clients, state : {"open", "closed"}]
  /\ lateDrops \subseteq Ids
  /\ DOMAIN mIdUser \subseteq Ids

(* A drop passes the two queues behind everything its connection received. *)
Drops(queue, id) == \E x \in Range(queue) : x.op = "OP_DROP" /\ x.conn = id

DropIsLast(queue) ==
  \A x, y \in Range(queue) :
    Before(queue, x, y) /\ x.op = "OP_DROP" /\ y.op = "OP_RECV" => x.conn # y.conn

NetDrops ==
  /\ DropIsLast(mNetQueue)
  /\ \A x \in Range(mNetQueue) : x.op = "OP_RECV" => x.conn \in DOMAIN mConns
  /\ \A id \in DOMAIN mConns :
       id \in lateDrops \/ Drops(mNetQueue, id) => mConns[id].state = "closed"

WorkerDrops ==
  /\ DropIsLast(mWorkerQueue)
  /\ \A x \in Range(mWorkerQueue) : x.op = "OP_DROP" => x.conn \notin DOMAIN mConns
  /\ \A x \in Range(mWorkerQueue) : x.op = "OP_RECV" =>
       x.conn \in DOMAIN mConns \/ Drops(mWorkerQueue, x.conn)
  /\ \A u \in DOMAIN mIdUser : u \in DOMAIN mConns \/ Drops(mWorkerQueue, u)

IInv == /\ KP!IInv /\ QueuesOK /\ ClientsOK /\ AcceptedOnce /\ ConnectionsOK
        /\ NetDrops /\ WorkerDrops

-----------------------------------------------------------------------------
LEMMA RoomsOnlyGrow ==
  ASSUME NEW old, NEW new, DOMAIN old \subseteq DOMAIN new, NEW m
  PROVE  /\ FromClient(m, old) => FromClient(m, new)
         /\ FromServer(m, old) => FromServer(m, new)
  BY DEF FromClient, FromServer

LEMMA InitIInv == Init => IInv
<1> SUFFICES ASSUME Init
             PROVE  IInv
  OBVIOUS
<1> USE DEF Init, WorkerInit, NetInit, ClientInit
<1>1. KP!IInv
  BY RegistryInit
<1>2. QueuesOK /\ NetDrops
  BY EmptyQueue DEF QueuesOK, NetDrops, DropIsLast, Drops
<1>3. ClientsOK
  BY EmptyQueue DEF ClientsOK, FromClient, FromServer
<1>4. AcceptedOnce
  <2>1. Accepted = {}
    BY DEF Accepted
  <2> QED BY <2>1, EmptyQueue, FS_EmptySet DEF AcceptedOnce
<1>5. ConnectionsOK
  BY DEF ConnectionsOK, Ids, Keeper!Init, Keeper!EmptyMap
<1>6. WorkerDrops
  BY EmptyQueue DEF WorkerDrops, DropIsLast, Drops, Keeper!Init, Keeper!EmptyMap
<1> QED BY <1>1, <1>2, <1>3, <1>4, <1>5, <1>6 DEF IInv

-----------------------------------------------------------------------------
(* The clients.  They leave the server's queues and tables alone.          *)
serverVars == <<keeperVars, queues, mConns, mMaxID, lateDrops>>

LEMMA RegistryStays ==
  ASSUME KP!IInv, UNCHANGED keeperVars
  PROVE  KP!IInv'
<1>1. UNCHANGED KP!keeperVars
  BY DEF keeperVars, KP!keeperVars
<1> QED BY <1>1, KP!StepIInv, RegistryAssumption

LEMMA ServerStays ==
  ASSUME IInv, UNCHANGED serverVars
  PROVE  KP!IInv' /\ QueuesOK' /\ ConnectionsOK' /\ NetDrops' /\ WorkerDrops'
<1> USE DEF IInv, serverVars, queues
<1>1. KP!IInv'
  BY RegistryStays
<1>2. QueuesOK' /\ ConnectionsOK'
  BY DEF QueuesOK, ConnectionsOK, Ids, keeperVars
<1>3. NetDrops' /\ WorkerDrops'
  BY DEF NetDrops, WorkerDrops, DropIsLast, Drops, keeperVars
<1> QED BY <1>1, <1>2, <1>3

(* A client that was up before and is not idle after is accepted as before. *)
LEMMA AcceptedStays ==
  ASSUME AcceptedOnce, ClientsOK, ClientsOK', UNCHANGED <<serverVars, backlog>>,
         \A c \in Clients : phase[c] = "idle" <=> phase'[c] = "idle"
  PROVE  Accepted' = Accepted /\ AcceptedOnce'
<1> USE DEF serverVars, queues
<1>1. Accepted' = Accepted
  BY DEF Accepted, Accepts
<1> QED BY <1>1 DEF AcceptedOnce

LEMMA StartKeeps ==
  ASSUME IInv, NEW c \in Clients, NEW n \in UserNames, StartClient(c, n)
  PROVE  IInv'
<1> USE DEF IInv
<1>1. UNCHANGED serverVars
  BY DEF StartClient, serverVars
<1>2. ClientsOK'
  <2>1. /\ IsQueue(<<C2sLogon(n)>>)
        /\ \A m \in Range(<<C2sLogon(n)>>) : FromClient(m, mIdRoom)
    BY SingleQueue DEF FromClient, C2sLogon
  <2> QED BY <2>1 DEF StartClient, ClientsOK, views, keeperVars
<1>3. AcceptedOnce'
  <2>1. /\ phase[c] = "idle" /\ phase' = [phase EXCEPT ![c] = "up"]
        /\ backlog' = backlog \cup {c}
        /\ mNetQueue' = mNetQueue /\ mMaxID' = mMaxID
        /\ phase \in [Clients -> {"idle", "up", "exited"}]
    BY DEF StartClient, queues, ClientsOK
  <2>2. Accepted' = Accepted
    BY <2>1 DEF Accepted, Accepts
  <2> QED BY <2>1, <2>2 DEF AcceptedOnce
<1> QED BY <1>1, <1>2, <1>3, ServerStays

LEMMA TypesKeeps ==
  ASSUME IInv, NEW c \in Clients, NEW kind, NEW msg, Types(c, kind, msg),
         FromClient(msg, mIdRoom)
  PROVE  IInv'
<1> USE DEF IInv
<1>1. UNCHANGED <<serverVars, backlog, phase>>
  BY DEF Types, serverVars
<1>2. ClientsOK'
  <2>1. IsQueue(toServer[c]) /\ \A m \in Range(toServer[c]) : FromClient(m, mIdRoom)
    BY DEF ClientsOK
  <2>2. /\ IsQueue(Append(toServer[c], msg))
        /\ \A m \in Range(Append(toServer[c], msg)) : FromClient(m, mIdRoom)
    BY <2>1, AppendToQueue
  <2>3. /\ toServer' = [toServer EXCEPT ![c] = Append(toServer[c], msg)]
        /\ UNCHANGED <<toClient, phase, views, keeperVars>>
    BY DEF Types
  <2> QED BY <2>2, <2>3 DEF ClientsOK, views, keeperVars
<1>3. AcceptedOnce'
  BY <1>1, <1>2, AcceptedStays
<1> QED BY <1>1, <1>2, <1>3, ServerStays

LEMMA InputKeeps ==
  ASSUME IInv, NEW c \in Clients, TypeInput(c)
  PROVE  IInv'
<1>1. CASE TypeChat(c)
  <2>1. mCurrentRoom[c] \in DOMAIN mIdRoom \cup {INVALID_ROOM_ID}
    BY DEF IInv, ClientsOK
  <2>2. FromClient(C2sChat(mCurrentRoom[c]), mIdRoom)
    BY <2>1 DEF FromClient, C2sChat
  <2> QED BY <1>1, <2>2, TypesKeeps DEF TypeChat
<1>2. CASE TypeCreate(c)
  <2>1. \A r \in TypedRooms, p \in Passwords : FromClient(C2sCreate(r, p), mIdRoom)
    BY ClientAssumption DEF FromClient, C2sCreate
  <2> QED BY <1>2, <2>1, TypesKeeps DEF TypeCreate
<1>3. CASE TypeJoin(c)
  <2>1. \A r \in TypedRooms, p \in Passwords : FromClient(C2sJoin(r, p), mIdRoom)
    BY ClientAssumption DEF FromClient, C2sJoin
  <2> QED BY <1>3, <2>1, TypesKeeps DEF TypeJoin
<1>4. CASE TypeWhisper(c)
  <2>1. \A n : FromClient(C2sWhisper(n), mIdRoom)
    BY DEF FromClient, C2sWhisper
  <2> QED BY <1>4, <2>1, TypesKeeps DEF TypeWhisper
<1>5. CASE TypeLeave(c)
  <2>1. FromClient(C2sJoin(HALL_NAME, NoPasswd), mIdRoom)
    BY RegistryAssumption DEF FromClient, C2sJoin
  <2> QED BY <1>5, <2>1, TypesKeeps DEF TypeLeave
<1> QED BY <1>1, <1>2, <1>3, <1>4, <1>5 DEF TypeInput

(* What is left of what a client had sent when it ends is a prefix.        *)
LEMMA PrefixOfQueue ==
  ASSUME NEW q, IsQueue(q), NEW k \in 0 .. Len(q)
  PROVE  IsQueue(SubSeq(q, 1, k)) /\ Range(SubSeq(q, 1, k)) \subseteq Range(q)
<1>1. Len(q) \in Nat /\ DOMAIN q = 1 .. Len(q)
  BY QueueDomain
<1>2. \A i \in 1 .. k : q[i] \in Range(q)
  BY <1>1 DEF Range
<1>3. SubSeq(q, 1, k) \in Seq(Range(q))
  BY <1>1, <1>2, SubSeqProperties
<1> QED BY <1>3, AnySeqIsQueue

LEMMA LeavesKeeps ==
  ASSUME IInv, NEW c \in Clients, phase[c] # "idle", Leaves(c),
         DOMAIN toServer' = Clients, \A d \in Clients \ {c} : toServer'[d] = toServer[d],
         IsQueue(toServer'[c]), Range(toServer'[c]) \subseteq Range(toServer[c])
  PROVE  IInv'
<1> USE DEF IInv
<1>1. UNCHANGED <<serverVars, backlog>> /\ phase' = [phase EXCEPT ![c] = "exited"]
  BY DEF Leaves, serverVars
<1>2. ClientsOK'
  BY EmptyQueue DEF Leaves, ClientsOK, keeperVars
<1>3. AcceptedOnce'
  BY <1>1, <1>2, AcceptedStays DEF ClientsOK
<1> QED BY <1>1, <1>2, <1>3, ServerStays

LEMMA ReceptionKeeps ==
  ASSUME IInv, NEW c \in Clients, RecvFromServer(c)
  PROVE  IInv'
<1> USE DEF IInv
<1>1. toClient[c] # <<>> /\ phase[c] = "up"
  BY DEF RecvFromServer, ParseRoomInfo, HandleUpdateRoomList, HandleLogonRes, ShowMessage, Receives
<1>2. /\ FromServer(Head(toClient[c]), mIdRoom)
      /\ IsQueue(Tail(toClient[c]))
      /\ \A m \in Range(Tail(toClient[c])) : FromServer(m, mIdRoom)
  BY <1>1, TailOfQueue DEF ClientsOK
<1>3. ASSUME Taken(c), mCurrentRoom' \in [Clients -> DOMAIN mIdRoom \cup {INVALID_ROOM_ID}],
             mOnlines' \in [Clients -> SUBSET UserIds], mRooms' \in [Clients -> SUBSET DOMAIN mIdRoom]
      PROVE  IInv'
  <2>1. UNCHANGED <<serverVars, backlog, phase>>
    BY <1>3 DEF Taken, serverVars
  <2>2. ClientsOK'
    BY <1>2, <1>3 DEF Taken, ClientsOK, keeperVars
  <2> QED BY <2>1, <2>2, AcceptedStays, ServerStays
<1>4. CASE ParseRoomInfo(c)
  BY <1>2, <1>3, <1>4 DEF ParseRoomInfo, FromServer, ClientsOK
<1>5. CASE HandleUpdateRoomList(c)
  BY <1>2, <1>3, <1>5 DEF HandleUpdateRoomList, FromServer, ClientsOK
<1>6. CASE HandleLogonRes(c)
  BY <1>1, <1>6, LeavesKeeps DEF HandleLogonRes, ClientsOK
<1>7. CASE ShowMessage(c)
  BY <1>3, <1>7 DEF ShowMessage, views, ClientsOK
<1> QED BY <1>4, <1>5, <1>6, <1>7 DEF RecvFromServer

LEMMA ExitKeeps ==
  ASSUME IInv, NEW c \in Clients, Exit(c)
  PROVE  IInv'
<1>1. PICK k \in 0 .. Len(toServer[c]) :
        toServer' = [toServer EXCEPT ![c] = SubSeq(toServer[c], 1, k)]
  BY DEF Exit
<1>2. IsQueue(toServer[c]) /\ DOMAIN toServer = Clients
  BY DEF IInv, ClientsOK
<1>3. /\ IsQueue(SubSeq(toServer[c], 1, k))
      /\ Range(SubSeq(toServer[c], 1, k)) \subseteq Range(toServer[c])
  BY <1>2, PrefixOfQueue
<1> QED BY <1>1, <1>2, <1>3, LeavesKeeps DEF Exit

-----------------------------------------------------------------------------
(* The Worker.                                                             *)
LEMMA IdsAreUserIds ==
  ASSUME IInv
  PROVE  Ids \subseteq UserIds /\ IsFiniteSet(DOMAIN mIdUser) /\ IsFiniteSet(Accepted)
<1> USE DEF IInv
<1>1. /\ IsFiniteSet(Accepted) /\ Cardinality(Accepted) <= Cardinality(Clients)
      /\ Cardinality(Clients) \in Nat
  <2>1. Accepted \in SUBSET Clients
    BY DEF Accepted
  <2> QED BY <2>1, ConnectionIds, FS_Subset, FS_CardinalityType
<1>2. mMaxID \in Nat /\ mMaxID <= Cardinality(Clients)
  BY <1>1 DEF AcceptedOnce, ConnectionsOK
<1>3. Ids \subseteq 0 .. Cardinality(Clients) - 1
  BY <1>1, <1>2 DEF Ids
<1>4. IsFiniteSet(Ids)
  BY <1>2, FS_Interval DEF Ids
<1>5. IsFiniteSet(DOMAIN mIdUser)
  BY <1>4, FS_Subset DEF ConnectionsOK
<1> QED BY <1>1, <1>3, <1>5, ConnectionIds

LEMMA TheAcceptedStay ==
  ASSUME AcceptedOnce, UNCHANGED <<mNetQueue, netVars, clientVars>>
  PROVE  Accepted' = Accepted /\ AcceptedOnce'
<1>1. Accepted' = Accepted
  BY DEF Accepted, Accepts, netVars, clientVars
<1> QED BY <1>1 DEF AcceptedOnce, netVars, clientVars

LEMMA OperationKeeps ==
  ASSUME IInv, UNCHANGED <<netVars, clientVars>>, mWorkerQueue # <<>>,
         Head(mWorkerQueue).op \in {"OP_RECV", "OP_DROP"},
         Operation(Head(mWorkerQueue).conn),
         Head(mWorkerQueue).op = "OP_DROP" => Head(mWorkerQueue).conn \notin DOMAIN mIdUser'
  PROVE  IInv'
<1> DEFINE h == Head(mWorkerQueue)
           t == Tail(mWorkerQueue)
           u == h.conn
<1> USE DEF IInv
<1>1. PICK sent : Finish(sent) /\ AllSends(sent, mIdRoom', mIdUser')
  BY DEF Operation
<1>2. /\ KP!IInv' /\ DOMAIN mIdRoom \subseteq DOMAIN mIdRoom'
      /\ DOMAIN mIdUser' \subseteq DOMAIN mIdUser \cup {u}
  BY DEF Operation
<1>3. /\ h \in Range(mWorkerQueue) /\ IsQueue(t)
      /\ Range(mWorkerQueue) = {h} \cup Range(t)
      /\ \A x, y : Before(t, x, y) => Before(mWorkerQueue, x, y)
      /\ \A y \in Range(t) : Before(mWorkerQueue, h, y)
  BY TailOfQueue DEF QueuesOK
<1>4. /\ mWorkerQueue' = t \o sent /\ mNetQueue' = mNetQueue
      /\ IsQueue(sent) /\ \A x \in Range(sent) : x.op = "OP_SEND" /\ FromServer(x.msg, mIdRoom')
  BY <1>1 DEF Finish, AllSends
<1>5. u \in Ids
  BY <1>3 DEF QueuesOK
<1> HIDE DEF h, t, u
<1>6. /\ IsQueue(mWorkerQueue') /\ Range(mWorkerQueue') = Range(t) \cup Range(sent)
      /\ \A x, y : Before(mWorkerQueue', x, y) =>
                     Before(t, x, y) \/ y \in Range(sent)
  BY <1>3, <1>4, BeforeIsInQueue, ConcatOfQueues
<1>7. Ids' = Ids
  BY DEF Ids, netVars
<1>8. QueuesOK'
  BY <1>2, <1>3, <1>4, <1>6, <1>7, RoomsOnlyGrow DEF QueuesOK
<1>9. ClientsOK'
  BY <1>2, RoomsOnlyGrow DEF ClientsOK, netVars, clientVars
<1>10. AcceptedOnce'
  BY <1>4, TheAcceptedStay
<1>11. ConnectionsOK'
  BY <1>2, <1>5, <1>7 DEF ConnectionsOK, netVars
<1>12. NetDrops'
  BY <1>4 DEF NetDrops, DropIsLast, Drops, netVars
<1>13. WorkerDrops'
  <2>1. mConns' = mConns
    BY DEF netVars
  <2>2. DropIsLast(mWorkerQueue)'
    BY <1>3, <1>4, <1>6 DEF WorkerDrops, DropIsLast
  <2>3. \A x \in Range(mWorkerQueue') : x.op = "OP_DROP" => x.conn \notin DOMAIN mConns'
    BY <1>3, <1>4, <1>6, <2>1 DEF WorkerDrops
  <2>4. ASSUME NEW v, Drops(mWorkerQueue, v), ~(h.op = "OP_DROP" /\ v = u)
        PROVE  Drops(mWorkerQueue', v)
    BY <1>3, <1>6, <2>4 DEF Drops, u
  <2>5. \A x \in Range(mWorkerQueue') : x.op = "OP_RECV" =>
          x.conn \in DOMAIN mConns' \/ Drops(mWorkerQueue', x.conn)
    <3> SUFFICES ASSUME NEW x \in Range(t), x.op = "OP_RECV", x.conn \notin DOMAIN mConns
                 PROVE  Drops(mWorkerQueue', x.conn)
      BY <1>4, <1>6, <2>1
    <3>1. Drops(mWorkerQueue, x.conn)
      BY <1>3 DEF WorkerDrops
    <3>2. ~(h.op = "OP_DROP" /\ x.conn = u)
      BY <1>3 DEF WorkerDrops, DropIsLast, u
    <3> QED BY <2>4, <3>1, <3>2
  <2>6. \A v \in DOMAIN mIdUser' : v \in DOMAIN mConns' \/ Drops(mWorkerQueue', v)
    <3> SUFFICES ASSUME NEW v \in DOMAIN mIdUser', v \notin DOMAIN mConns
                 PROVE  Drops(mWorkerQueue', v)
      BY <2>1
    <3>1. ~(h.op = "OP_DROP" /\ v = u)
      BY DEF h, u
    <3>2. Drops(mWorkerQueue, v)
      <4>1. CASE v \in DOMAIN mIdUser
        BY <4>1 DEF WorkerDrops
      <4>2. CASE v = u /\ h.op = "OP_RECV"
        BY <1>3, <4>2 DEF WorkerDrops, u
      <4> QED BY <1>2, <3>1, <4>1, <4>2 DEF h
    <3> QED BY <2>4, <3>1, <3>2
  <2> QED BY <2>2, <2>3, <2>5, <2>6 DEF WorkerDrops
<1> QED BY <1>2, <1>8, <1>9, <1>10, <1>11, <1>12, <1>13

LEMMA ForwardSendKeeps ==
  ASSUME IInv, UNCHANGED <<netVars, clientVars>>, ForwardSend
  PROVE  IInv'
<1> DEFINE h == Head(mWorkerQueue)
           t == Tail(mWorkerQueue)
<1> USE DEF IInv
<1>1. /\ mWorkerQueue # <<>> /\ h.op = "OP_SEND"
      /\ mWorkerQueue' = t /\ mNetQueue' = Append(mNetQueue, h)
      /\ UNCHANGED keeperVars
  BY DEF ForwardSend, NextIs
<1>2. /\ h \in Range(mWorkerQueue) /\ IsQueue(t)
      /\ Range(mWorkerQueue) = {h} \cup Range(t)
      /\ \A x, y : Before(t, x, y) => Before(mWorkerQueue, x, y)
  BY <1>1, TailOfQueue DEF QueuesOK
<1> HIDE DEF h, t
<1>3. /\ IsQueue(mNetQueue') /\ Range(mNetQueue') = Range(mNetQueue) \cup {h}
      /\ \A x, y : Before(mNetQueue', x, y) => Before(mNetQueue, x, y) \/ y = h
  BY <1>1, AppendToQueue DEF QueuesOK
<1>4. Ids' = Ids
  BY DEF Ids, netVars
<1>5. KP!IInv'
  BY <1>1, RegistryStays
<1>6. QueuesOK' /\ ConnectionsOK' /\ ClientsOK'
  <2>1. QueuesOK'
    BY <1>1, <1>2, <1>3, <1>4 DEF QueuesOK, keeperVars
  <2>2. ConnectionsOK' /\ ClientsOK'
    BY <1>1, <1>4 DEF ConnectionsOK, ClientsOK, keeperVars, netVars, clientVars
  <2> QED BY <2>1, <2>2
<1>7. AcceptedOnce'
  <2>1. Accepted' = Accepted
    BY <1>1, <1>3 DEF Accepted, Accepts, netVars, clientVars
  <2> QED BY <1>1, <1>3, <2>1 DEF AcceptedOnce, netVars, clientVars
<1>8. NetDrops'
  BY <1>1, <1>3 DEF NetDrops, DropIsLast, Drops, netVars
<1>9. WorkerDrops'
  BY <1>1, <1>2 DEF WorkerDrops, DropIsLast, Drops, netVars, keeperVars
<1> QED BY <1>5, <1>6, <1>7, <1>8, <1>9

(* What the Worker does with the context at the head.                      *)
LEMMA WorkerActs ==
  ASSUME IInv, WorkerStep
  PROVE  /\ failed = "none" /\ UNCHANGED <<netVars, clientVars>>
         /\ \/ ForwardSend
            \/ /\ mWorkerQueue # <<>>
               /\ Operation(Head(mWorkerQueue).conn)
               /\ \/ RecvMessage /\ Head(mWorkerQueue).op = "OP_RECV"
                  \/ /\ ProcessDrop /\ Head(mWorkerQueue).op = "OP_DROP"
                     /\ DOMAIN mIdUser' = DOMAIN mIdUser \ {Head(mWorkerQueue).conn}
<1> DEFINE h == Head(mWorkerQueue)
<1>1. failed = "none" /\ UNCHANGED <<netVars, clientVars>>
  BY DEF WorkerStep, WorkerProcess
<1>2. KP!IInv /\ IsFiniteSet(DOMAIN mIdUser)
  BY IdsAreUserIds DEF IInv
<1>3. ASSUME mWorkerQueue # <<>>, h.op \in {"OP_RECV", "OP_DROP"}
      PROVE  /\ h.conn \in UserIds
             /\ h.op = "OP_RECV" => FromClient(h.msg, mIdRoom)
  <2>1. h \in Range(mWorkerQueue)
    BY <1>3, TailOfQueue DEF IInv, QueuesOK
  <2> QED BY <1>3, <2>1, IdsAreUserIds DEF IInv, QueuesOK
<1>4. CASE RecvMessage
  <2>1. mWorkerQueue # <<>> /\ h.op = "OP_RECV"
    BY <1>4 DEF RecvMessage, NextIs
  <2>2. Operation(h.conn)
    BY <1>1, <1>2, <1>3, <1>4, <2>1, ReceivedOperation
  <2> QED BY <1>1, <1>4, <2>1, <2>2
<1>5. CASE ProcessDrop
  <2>1. mWorkerQueue # <<>> /\ h.op = "OP_DROP" /\ HandleDrop(h.conn)
    BY <1>5 DEF ProcessDrop, NextIs
  <2>2. h.conn \in UserIds
    BY <1>3, <2>1
  <2>3. Operation(h.conn) /\ DOMAIN mIdUser' = DOMAIN mIdUser \ {h.conn}
    BY <1>1, <1>2, <2>1, <2>2, DropOperation
  <2> QED BY <1>1, <1>5, <2>1, <2>3
<1> QED BY <1>1, <1>4, <1>5 DEF WorkerStep, WorkerProcess

LEMMA WorkerStepKeeps ==
  ASSUME IInv, WorkerStep
  PROVE  IInv'
  BY WorkerActs, OperationKeeps, ForwardSendKeeps

-----------------------------------------------------------------------------
(* The NetService and the driver.  They leave the registry and what the    *)
(* clients show alone.                                                     *)
outsideVars == <<keeperVars, clientVars>>

LEMMA AcceptSocketKeeps ==
  ASSUME IInv, NEW c \in Clients, AcceptSocket(c), UNCHANGED outsideVars
  PROVE  IInv'
<1> USE DEF IInv, outsideVars
<1>1. KP!IInv'
  BY RegistryStays
<1>2. /\ c \in backlog /\ backlog' = backlog \ {c} /\ mNetQueue' = Append(mNetQueue, Accept(c))
      /\ UNCHANGED <<mConns, mMaxID, lateDrops, wires, mWorkerQueue>>
  BY DEF AcceptSocket
<1>3. /\ IsQueue(mNetQueue') /\ Range(mNetQueue') = Range(mNetQueue) \cup {Accept(c)}
      /\ \A x, y : Before(mNetQueue', x, y)
                     => Before(mNetQueue, x, y) \/ (x \in Range(mNetQueue) /\ y = Accept(c))
  BY <1>2, AppendToQueue DEF QueuesOK
<1>4. Accept(c).op = "OP_ACCEPT" /\ Accept(c).socket = c
  BY DEF Accept
<1>5. QueuesOK' /\ ConnectionsOK' /\ ClientsOK'
  <2>1. QueuesOK'
    BY <1>2, <1>3, <1>4 DEF QueuesOK, Ids, keeperVars
  <2>2. ConnectionsOK' /\ ClientsOK'
    BY <1>2 DEF ConnectionsOK, ClientsOK, Ids, wires, keeperVars, clientVars
  <2> QED BY <2>1, <2>2
<1>6. AcceptedOnce'
  <2>1. Accepted' = Accepted
    <3>1. \A d : Accepts(mNetQueue', d) <=> Accepts(mNetQueue, d) \/ d = c
      BY <1>3, <1>4 DEF Accepts
    <3> QED BY <1>2, <3>1 DEF Accepted, clientVars
  <2>2. \A d \in backlog' : d \in Clients /\ phase'[d] # "idle"
    BY <1>2 DEF AcceptedOnce, clientVars
  <2>3. \A x \in Range(mNetQueue') : x.op = "OP_ACCEPT" =>
          x.socket \in Clients /\ phase'[x.socket] # "idle" /\ x.socket \notin backlog'
    BY <1>2, <1>3, <1>4 DEF AcceptedOnce, clientVars
  <2>4. \A x, y \in Range(mNetQueue') :
          Before(mNetQueue', x, y) /\ x.op = "OP_ACCEPT" /\ y.op = "OP_ACCEPT"
            => x.socket # y.socket
    <3> SUFFICES ASSUME NEW x, NEW y, Before(mNetQueue', x, y),
                        x.op = "OP_ACCEPT", y.op = "OP_ACCEPT"
                 PROVE  x.socket # y.socket
      OBVIOUS
    <3>1. CASE Before(mNetQueue, x, y)
      BY <3>1, BeforeIsInQueue DEF AcceptedOnce
    <3>2. CASE x \in Range(mNetQueue) /\ y = Accept(c)
      BY <1>2, <1>4, <3>2 DEF AcceptedOnce
    <3> QED BY <1>3, <3>1, <3>2
  <2> QED BY <1>2, <2>1, <2>2, <2>3, <2>4 DEF AcceptedOnce
<1>7. NetDrops' /\ WorkerDrops'
  <2>1. NetDrops'
    BY <1>2, <1>3, <1>4 DEF NetDrops, DropIsLast, Drops
  <2>2. WorkerDrops'
    BY <1>2 DEF WorkerDrops, DropIsLast, Drops, keeperVars
  <2> QED BY <2>1, <2>2
<1> QED BY <1>1, <1>5, <1>6, <1>7

(* Behind the queue nothing but an accept can bring a client an id.        *)
LEMMA NoAccept ==
  ASSUME AcceptedOnce, UNCHANGED <<clientVars, backlog, mMaxID>>,
         \A x \in Range(mNetQueue) : x \in Range(mNetQueue') \/ x.op # "OP_ACCEPT",
         \A x \in Range(mNetQueue') : x \in Range(mNetQueue) \/ x.op # "OP_ACCEPT",
         \A x, y : Before(mNetQueue', x, y) /\ x.op = "OP_ACCEPT" /\ y.op = "OP_ACCEPT"
                     => Before(mNetQueue, x, y)
  PROVE  Accepted' = Accepted /\ AcceptedOnce'
<1>1. Accepted' = Accepted
  BY DEF Accepted, Accepts, clientVars
<1>2. \A x, y : Before(mNetQueue, x, y) => x \in Range(mNetQueue) /\ y \in Range(mNetQueue)
  BY BeforeIsInQueue
<1> QED BY <1>1, <1>2 DEF AcceptedOnce, clientVars

LEMMA ReadFrameKeeps ==
  ASSUME IInv, NEW id \in DOMAIN mConns, ReadFrame(id), UNCHANGED outsideVars
  PROVE  IInv'
<1> DEFINE c == mConns[id].socket
           e == Recv(id, Head(toServer[c]))
<1> USE DEF IInv, outsideVars
<1>1. KP!IInv'
  BY RegistryStays
<1>2. /\ mConns[id].state = "open" /\ toServer[c] # <<>>
      /\ mNetQueue' = Append(mNetQueue, e)
      /\ toServer' = [toServer EXCEPT ![c] = Tail(toServer[c])]
      /\ UNCHANGED <<mConns, mMaxID, lateDrops, backlog, toClient, mWorkerQueue>>
  BY DEF ReadFrame
<1>3. c \in Clients /\ id \in Ids
  BY DEF ConnectionsOK
<1>4. /\ FromClient(Head(toServer[c]), mIdRoom) /\ IsQueue(Tail(toServer[c]))
      /\ \A m \in Range(Tail(toServer[c])) : FromClient(m, mIdRoom)
  BY <1>2, <1>3, TailOfQueue DEF ClientsOK
<1>5. e.op = "OP_RECV" /\ e.conn = id /\ FromClient(e.msg, mIdRoom)
  BY <1>4 DEF Recv
<1> HIDE DEF c, e
<1>6. /\ IsQueue(mNetQueue') /\ Range(mNetQueue') = Range(mNetQueue) \cup {e}
      /\ \A x, y : Before(mNetQueue', x, y)
                     => Before(mNetQueue, x, y) \/ (x \in Range(mNetQueue) /\ y = e)
  BY <1>2, AppendToQueue DEF QueuesOK
<1>7. QueuesOK' /\ ConnectionsOK' /\ ClientsOK'
  <2>1. QueuesOK'
    BY <1>2, <1>3, <1>5, <1>6 DEF QueuesOK, Ids, keeperVars
  <2>2. ConnectionsOK'
    BY <1>2 DEF ConnectionsOK, Ids, keeperVars
  <2>3. ClientsOK'
    BY <1>2, <1>4 DEF ClientsOK, keeperVars, clientVars
  <2> QED BY <2>1, <2>2, <2>3
<1>8. AcceptedOnce'
  BY <1>2, <1>5, <1>6, NoAccept
<1>9. NetDrops'
  <2>1. ~Drops(mNetQueue, id)
    BY <1>2 DEF NetDrops
  <2>2. DropIsLast(mNetQueue)'
    BY <1>5, <1>6, <2>1, BeforeIsInQueue DEF NetDrops, DropIsLast, Drops
  <2>3. \A x \in Range(mNetQueue') : x.op = "OP_RECV" => x.conn \in DOMAIN mConns'
    BY <1>2, <1>5, <1>6 DEF NetDrops
  <2>4. \A v : Drops(mNetQueue', v) => Drops(mNetQueue, v)
    BY <1>5, <1>6 DEF Drops
  <2> QED BY <1>2, <2>2, <2>3, <2>4 DEF NetDrops
<1>10. WorkerDrops'
  BY <1>2 DEF WorkerDrops, DropIsLast, Drops, keeperVars
<1> QED BY <1>1, <1>7, <1>8, <1>9, <1>10

LEMMA DropIsReported ==
  ASSUME IInv, NEW id \in Ids, mNetQueue' = Append(mNetQueue, Drop(id)),
         \/ mConns' = mConns /\ (id \in DOMAIN mConns => mConns[id].state = "closed")
         \/ id \in DOMAIN mConns /\ Close(id),
         lateDrops' \subseteq lateDrops, UNCHANGED <<mMaxID, backlog, wires, mWorkerQueue>>,
         UNCHANGED outsideVars
  PROVE  IInv'
<1> DEFINE e == Drop(id)
<1> USE DEF IInv, outsideVars
<1>1. KP!IInv'
  BY RegistryStays
<1>2. e.op = "OP_DROP" /\ e.conn = id
  BY DEF Drop
<1> HIDE DEF e
<1>3. /\ IsQueue(mNetQueue') /\ Range(mNetQueue') = Range(mNetQueue) \cup {e}
      /\ \A x, y : Before(mNetQueue', x, y)
                     => Before(mNetQueue, x, y) \/ (x \in Range(mNetQueue) /\ y = e)
  BY AppendToQueue DEF QueuesOK, e
<1>4. /\ DOMAIN mConns' = DOMAIN mConns
      /\ \A v \in DOMAIN mConns :
           /\ mConns'[v] \in [socket : Clients, state : {"open", "closed"}]
           /\ mConns[v].state = "closed" \/ v = id => mConns'[v].state = "closed"
  <2>1. CASE mConns' = mConns /\ (id \in DOMAIN mConns => mConns[id].state = "closed")
    BY <2>1 DEF ConnectionsOK
  <2>2. CASE id \in DOMAIN mConns /\ Close(id)
    BY <2>2 DEF Close, ConnectionsOK
  <2> QED BY <2>1, <2>2
<1>5. QueuesOK' /\ ConnectionsOK' /\ ClientsOK'
  <2>1. QueuesOK'
    BY <1>2, <1>3 DEF QueuesOK, Ids, keeperVars
  <2>2. ConnectionsOK'
    BY <1>4 DEF ConnectionsOK, Ids, keeperVars
  <2>3. ClientsOK'
    BY DEF ClientsOK, keeperVars, clientVars, wires
  <2> QED BY <2>1, <2>2, <2>3
<1>6. AcceptedOnce'
  BY <1>2, <1>3, NoAccept
<1>7. NetDrops'
  <2>1. DropIsLast(mNetQueue)'
    BY <1>2, <1>3, BeforeIsInQueue DEF NetDrops, DropIsLast
  <2>2. \A x \in Range(mNetQueue') : x.op = "OP_RECV" => x.conn \in DOMAIN mConns'
    BY <1>2, <1>3, <1>4 DEF NetDrops
  <2>3. ASSUME NEW v \in DOMAIN mConns, v \in lateDrops' \/ Drops(mNetQueue', v)
        PROVE  mConns'[v].state = "closed"
    <3>1. v \in lateDrops \/ Drops(mNetQueue, v) \/ v = id
      BY <1>2, <1>3, <2>3 DEF Drops
    <3> QED BY <1>4, <3>1 DEF NetDrops
  <2> QED BY <1>4, <2>1, <2>2, <2>3 DEF NetDrops
<1>8. WorkerDrops'
  BY <1>4 DEF WorkerDrops, DropIsLast, Drops, keeperVars
<1> QED BY <1>1, <1>5, <1>6, <1>7, <1>8

LEMMA DriverKeeps ==
  ASSUME IInv, NEW c \in Clients, DriverAccept(c) \/ DriverRead(c)
  PROVE  IInv'
<1>1. UNCHANGED outsideVars
  BY DEF DriverAccept, DriverRead, outsideVars
<1>2. CASE DriverAccept(c)
  BY <1>1, <1>2, AcceptSocketKeeps DEF DriverAccept
<1>3. CASE DriverRead(c)
  <2>1. PICK id \in DOMAIN mConns : ReadFrame(id) \/ ReadEnd(id)
    BY <1>3 DEF DriverRead, ConnOf, ReadData
  <2>2. CASE ReadFrame(id)
    BY <1>1, <2>2, ReadFrameKeeps
  <2>3. CASE ReadEnd(id)
    <3>1. id \in Ids
      BY DEF IInv, ConnectionsOK
    <3> QED BY <1>1, <2>3, <3>1, DropIsReported DEF ReadEnd
  <2> QED BY <2>1, <2>2, <2>3
<1> QED BY <1>2, <1>3

LEMMA DriverLateKeeps ==
  ASSUME IInv, DriverLate
  PROVE  IInv'
<1>1. UNCHANGED outsideVars
  BY DEF DriverLate, outsideVars
<1>2. PICK id \in lateDrops : ReadNotOkay(id)
  BY DEF DriverLate
<1>3. id \in Ids /\ (id \in DOMAIN mConns => mConns[id].state = "closed")
  BY DEF IInv, ConnectionsOK, NetDrops
<1> QED BY <1>1, <1>2, <1>3, DropIsReported DEF ReadNotOkay

(* The NetService takes the head of its queue.                             *)
LEMMA TakenFromNet ==
  ASSUME IInv, mNetQueue # <<>>
  PROVE  /\ Head(mNetQueue) \in Range(mNetQueue) /\ IsQueue(Tail(mNetQueue))
         /\ Range(mNetQueue) = {Head(mNetQueue)} \cup Range(Tail(mNetQueue))
         /\ \A x, y : Before(Tail(mNetQueue), x, y) => Before(mNetQueue, x, y)
         /\ \A y \in Range(Tail(mNetQueue)) : Before(mNetQueue, Head(mNetQueue), y)
  BY TailOfQueue DEF IInv, QueuesOK

LEMMA AcceptConnectionKeeps ==
  ASSUME IInv, AcceptConnection, UNCHANGED outsideVars
  PROVE  IInv'
<1> DEFINE h == Head(mNetQueue)
           c == h.socket
<1> USE DEF IInv, outsideVars
<1>1. KP!IInv'
  BY RegistryStays
<1>2. /\ mNetQueue # <<>> /\ h.op = "OP_ACCEPT" /\ mNetQueue' = Tail(mNetQueue)
      /\ mMaxID' = mMaxID + 1
      /\ DOMAIN mConns' = DOMAIN mConns \cup {mMaxID}
      /\ \A id \in DOMAIN mConns' :
           mConns'[id] = IF id = mMaxID THEN [socket |-> c, state |-> "open"] ELSE mConns[id]
      /\ UNCHANGED <<lateDrops, backlog, wires, mWorkerQueue>>
  BY DEF AcceptConnection, NextIs, NextConnId
<1>3. /\ h \in Range(mNetQueue) /\ IsQueue(mNetQueue')
      /\ Range(mNetQueue) = {h} \cup Range(mNetQueue')
      /\ \A x, y : Before(mNetQueue', x, y) => Before(mNetQueue, x, y)
      /\ \A y \in Range(mNetQueue') : Before(mNetQueue, h, y)
  BY <1>2, TakenFromNet
<1>4. c \in Clients /\ phase[c] # "idle" /\ c \notin backlog
  BY <1>2, <1>3 DEF AcceptedOnce
<1> HIDE DEF h
<1>5. mMaxID \in Nat /\ Ids' = Ids \cup {mMaxID} /\ mMaxID \notin Ids
  BY <1>2 DEF ConnectionsOK, Ids
<1>6. QueuesOK' /\ ClientsOK' /\ ConnectionsOK'
  <2>1. QueuesOK'
    BY <1>2, <1>3, <1>5 DEF QueuesOK, keeperVars
  <2>2. ClientsOK'
    BY <1>2 DEF ClientsOK, wires, keeperVars, clientVars
  <2>3. ConnectionsOK'
    BY <1>2, <1>4, <1>5 DEF ConnectionsOK, keeperVars
  <2> QED BY <2>1, <2>2, <2>3
<1>7. AcceptedOnce'
  <2>1. Accepted' = Accepted \cup {c} /\ c \notin Accepted
    <3>1. \A d : Accepts(mNetQueue, d) <=> Accepts(mNetQueue', d) \/ d = c
      BY <1>2, <1>3 DEF Accepts
    <3>2. ~Accepts(mNetQueue', c)
      BY <1>2, <1>3 DEF Accepts, AcceptedOnce
    <3> QED BY <1>2, <1>4, <3>1, <3>2 DEF Accepted, clientVars
  <2>2. Cardinality(Accepted') = Cardinality(Accepted) + 1
    BY <2>1, IdsAreUserIds, FS_AddElement
  <2> HIDE DEF c
  <2> QED BY <1>2, <1>3, <2>2 DEF AcceptedOnce, clientVars
<1>8. NetDrops'
  <2>1. DropIsLast(mNetQueue)'
    BY <1>3 DEF NetDrops, DropIsLast
  <2>2. \A x \in Range(mNetQueue') : x.op = "OP_RECV" => x.conn \in DOMAIN mConns'
    BY <1>2, <1>3 DEF NetDrops
  <2>3. ~Drops(mNetQueue', mMaxID) /\ mMaxID \notin lateDrops
    BY <1>3, <1>5 DEF Drops, QueuesOK, ConnectionsOK
  <2>4. \A v : Drops(mNetQueue', v) => Drops(mNetQueue, v)
    BY <1>3 DEF Drops
  <2> QED BY <1>2, <2>1, <2>2, <2>3, <2>4 DEF NetDrops
<1>9. WorkerDrops'
  <2>1. \A x \in Range(mWorkerQueue) : x.op = "OP_DROP" => x.conn # mMaxID
    BY <1>5 DEF QueuesOK
  <2> QED BY <1>2, <2>1 DEF WorkerDrops, DropIsLast, Drops, keeperVars
<1> QED BY <1>1, <1>6, <1>7, <1>8, <1>9

LEMMA ForwardRecvKeeps ==
  ASSUME IInv, ForwardRecv, UNCHANGED outsideVars
  PROVE  IInv'
<1> DEFINE h == Head(mNetQueue)
<1> USE DEF IInv, outsideVars
<1>1. KP!IInv'
  BY RegistryStays
<1>2. /\ mNetQueue # <<>> /\ h.op = "OP_RECV" /\ mNetQueue' = Tail(mNetQueue)
      /\ mWorkerQueue' = Append(mWorkerQueue, h) /\ UNCHANGED netVars
  BY DEF ForwardRecv, NextIs
<1>3. /\ h \in Range(mNetQueue) /\ IsQueue(mNetQueue')
      /\ Range(mNetQueue) = {h} \cup Range(mNetQueue')
      /\ \A x, y : Before(mNetQueue', x, y) => Before(mNetQueue, x, y)
  BY <1>2, TakenFromNet
<1>4. h.conn \in DOMAIN mConns
  BY <1>2, <1>3 DEF NetDrops
<1> HIDE DEF h
<1>5. /\ IsQueue(mWorkerQueue') /\ Range(mWorkerQueue') = Range(mWorkerQueue) \cup {h}
      /\ \A x, y : Before(mWorkerQueue', x, y)
                     => Before(mWorkerQueue, x, y) \/ (x \in Range(mWorkerQueue) /\ y = h)
  BY <1>2, AppendToQueue DEF QueuesOK
<1>6. QueuesOK' /\ ClientsOK' /\ ConnectionsOK'
  <2>1. QueuesOK'
    BY <1>2, <1>3, <1>5 DEF QueuesOK, Ids, netVars, keeperVars
  <2>2. ClientsOK' /\ ConnectionsOK'
    BY <1>2 DEF ClientsOK, ConnectionsOK, Ids, netVars, keeperVars, clientVars
  <2> QED BY <2>1, <2>2
<1>7. AcceptedOnce'
  BY <1>2, <1>3, NoAccept DEF netVars
<1>8. NetDrops'
  BY <1>2, <1>3 DEF NetDrops, DropIsLast, Drops, netVars
<1>9. WorkerDrops'
  <2>1. DropIsLast(mWorkerQueue)'
    BY <1>2, <1>4, <1>5, BeforeIsInQueue DEF WorkerDrops, DropIsLast
  <2>2. \A v : Drops(mWorkerQueue, v) => Drops(mWorkerQueue', v)
    BY <1>5 DEF Drops
  <2> QED BY <1>2, <1>4, <1>5, <2>1, <2>2 DEF WorkerDrops, netVars, keeperVars
<1> QED BY <1>1, <1>6, <1>7, <1>8, <1>9

(* What is left when a message has been discarded or written.              *)
LEMMA SentKeeps ==
  ASSUME IInv, SendDiscarded \/ SendWritten, UNCHANGED outsideVars
  PROVE  IInv'
<1> DEFINE h == Head(mNetQueue)
<1> USE DEF IInv, outsideVars
<1>1. KP!IInv'
  BY RegistryStays, SMTT(30)
<1>2. /\ mNetQueue # <<>> /\ h.op = "OP_SEND" /\ mNetQueue' = Tail(mNetQueue)
      /\ UNCHANGED <<mConns, mMaxID, lateDrops, backlog, toServer, mWorkerQueue>>
  BY DEF SendDiscarded, SendWritten, NextIs, netVars
<1>3. /\ h \in Range(mNetQueue) /\ IsQueue(mNetQueue')
      /\ Range(mNetQueue) = {h} \cup Range(mNetQueue')
      /\ \A x, y : Before(mNetQueue', x, y) => Before(mNetQueue, x, y)
  BY <1>2, TakenFromNet
<1>4. FromServer(h.msg, mIdRoom)
  BY <1>2, <1>3 DEF QueuesOK
<1>5. \/ toClient' = toClient
      \/ \E c \in Clients : toClient' = [toClient EXCEPT ![c] = Append(toClient[c], h.msg)]
  <2>1. CASE SendDiscarded
    BY <2>1 DEF SendDiscarded, netVars
  <2>2. CASE SendWritten
    BY <2>2 DEF SendWritten, Writable, ConnectionsOK
  <2> QED BY <2>1, <2>2
<1> HIDE DEF h
<1>6. QueuesOK' /\ ConnectionsOK' /\ ClientsOK'
  <2>1. QueuesOK' /\ ConnectionsOK'
    BY <1>2, <1>3 DEF QueuesOK, ConnectionsOK, Ids, keeperVars
  <2>2. ClientsOK'
    <3>1. CASE toClient' = toClient
      BY <1>2, <3>1 DEF ClientsOK, keeperVars, clientVars
    <3>2. ASSUME NEW c \in Clients, toClient' = [toClient EXCEPT ![c] = Append(toClient[c], h.msg)]
          PROVE  ClientsOK'
      <4>1. IsQueue(toClient[c]) /\ \A m \in Range(toClient[c]) : FromServer(m, mIdRoom)
        BY DEF ClientsOK
      <4>2. /\ IsQueue(Append(toClient[c], h.msg))
            /\ \A m \in Range(Append(toClient[c], h.msg)) : FromServer(m, mIdRoom)
        BY <1>4, <4>1, AppendToQueue
      <4> QED BY <1>2, <3>2, <4>2 DEF ClientsOK, keeperVars, clientVars
    <3> QED BY <1>5, <3>1, <3>2
  <2> QED BY <2>1, <2>2
<1>7. AcceptedOnce'
  BY <1>2, <1>3, NoAccept
<1>8. NetDrops' /\ WorkerDrops'
  <2>1. NetDrops'
    BY <1>2, <1>3 DEF NetDrops, DropIsLast, Drops
  <2>2. WorkerDrops'
    BY <1>2 DEF WorkerDrops, DropIsLast, Drops, keeperVars
  <2> QED BY <2>1, <2>2
<1> QED BY <1>1, <1>6, <1>7, <1>8

(* A failed write closes the connection, and the drop that reports it goes *)
(* behind everything the connection has received.                          *)
LEMMA SendFailsKeeps ==
  ASSUME IInv, SendFails, UNCHANGED outsideVars
  PROVE  IInv'
<1> DEFINE h == Head(mNetQueue)
           id == h.conn
           e == Drop(id)
           t == Tail(mNetQueue)
<1> USE DEF IInv, outsideVars
<1>1. KP!IInv'
  BY RegistryStays
<1>2. /\ mNetQueue # <<>> /\ h.op = "OP_SEND" /\ id \in DOMAIN mConns
      /\ Close(id) /\ mNetQueue' = Append(t, e)
      /\ lateDrops' \subseteq lateDrops \cup {id}
      /\ toServer' = [toServer EXCEPT ![mConns[id].socket] = <<>>]
      /\ UNCHANGED <<mMaxID, backlog, toClient, peerClosed, mWorkerQueue>>
  BY DEF SendFails, NextIs, Writable
<1>3. /\ h \in Range(mNetQueue) /\ IsQueue(t)
      /\ Range(mNetQueue) = {h} \cup Range(t)
      /\ \A x, y : Before(t, x, y) => Before(mNetQueue, x, y)
  BY <1>2, TakenFromNet
<1>4. e.op = "OP_DROP" /\ e.conn = id
  BY DEF Drop
<1> HIDE DEF h, id, e, t
<1>5. /\ IsQueue(mNetQueue') /\ Range(mNetQueue') = Range(t) \cup {e}
      /\ \A x, y : Before(mNetQueue', x, y)
                     => Before(mNetQueue, x, y) \/ (x \in Range(t) /\ y = e)
  BY <1>2, <1>3, AppendToQueue
<1>6. /\ DOMAIN mConns' = DOMAIN mConns /\ id \in Ids
      /\ \A v \in DOMAIN mConns :
           /\ mConns'[v] \in [socket : Clients, state : {"open", "closed"}]
           /\ mConns[v].state = "closed" \/ v = id => mConns'[v].state = "closed"
  BY <1>2 DEF Close, ConnectionsOK
<1>7. QueuesOK' /\ ConnectionsOK' /\ ClientsOK'
  <2>1. QueuesOK'
    BY <1>2, <1>3, <1>4, <1>5, <1>6 DEF QueuesOK, Ids, keeperVars
  <2>2. ConnectionsOK'
    BY <1>2, <1>6 DEF ConnectionsOK, Ids, keeperVars
  <2>3. ClientsOK'
    <3>1. \A c \in Clients : toServer'[c] \in {toServer[c], <<>>}
      BY <1>2 DEF ClientsOK
    <3> QED BY <1>2, <3>1, EmptyQueue DEF ClientsOK, keeperVars, clientVars
  <2> QED BY <2>1, <2>2, <2>3
<1>8. AcceptedOnce'
  BY <1>2, <1>3, <1>4, <1>5, NoAccept
<1>9. NetDrops'
  <2>1. DropIsLast(mNetQueue)'
    BY <1>3, <1>4, <1>5, BeforeIsInQueue DEF NetDrops, DropIsLast
  <2>2. \A x \in Range(mNetQueue') : x.op = "OP_RECV" => x.conn \in DOMAIN mConns'
    BY <1>3, <1>4, <1>5, <1>6 DEF NetDrops
  <2>3. ASSUME NEW v \in DOMAIN mConns, v \in lateDrops' \/ Drops(mNetQueue', v)
        PROVE  mConns'[v].state = "closed"
    <3>1. v \in lateDrops \/ Drops(mNetQueue, v) \/ v = id
      BY <1>2, <1>3, <1>4, <1>5, <2>3 DEF Drops
    <3> QED BY <1>6, <3>1 DEF NetDrops
  <2> QED BY <1>6, <2>1, <2>2, <2>3 DEF NetDrops
<1>10. WorkerDrops'
  BY <1>2, <1>6 DEF WorkerDrops, DropIsLast, Drops, keeperVars
<1> QED BY <1>1, <1>7, <1>8, <1>9, <1>10

LEMMA DropConnectionKeeps ==
  ASSUME IInv, DropConnection, UNCHANGED outsideVars
  PROVE  IInv'
<1> DEFINE h == Head(mNetQueue)
           id == h.conn
           e == Drop(id)
<1> USE DEF IInv, outsideVars
<1>1. KP!IInv'
  BY RegistryStays
<1>2. /\ mNetQueue # <<>> /\ h.op = "OP_DROP" /\ mNetQueue' = Tail(mNetQueue)
      /\ mWorkerQueue' = Append(mWorkerQueue, e)
      /\ DOMAIN mConns' = DOMAIN mConns \ {id}
      /\ \A v \in DOMAIN mConns' : mConns'[v] = mConns[v]
      /\ UNCHANGED <<mMaxID, lateDrops, backlog, wires>>
  BY DEF DropConnection, NextIs, Restrict
<1>3. /\ h \in Range(mNetQueue) /\ IsQueue(mNetQueue')
      /\ Range(mNetQueue) = {h} \cup Range(mNetQueue')
      /\ \A x, y : Before(mNetQueue', x, y) => Before(mNetQueue, x, y)
      /\ \A y \in Range(mNetQueue') : Before(mNetQueue, h, y)
  BY <1>2, TakenFromNet
<1>4. e.op = "OP_DROP" /\ e.conn = id /\ id \in Ids
  BY <1>2, <1>3 DEF Drop, QueuesOK
<1> HIDE DEF h, e
<1>5. /\ IsQueue(mWorkerQueue') /\ Range(mWorkerQueue') = Range(mWorkerQueue) \cup {e}
      /\ \A x, y : Before(mWorkerQueue', x, y)
                     => Before(mWorkerQueue, x, y) \/ (x \in Range(mWorkerQueue) /\ y = e)
  BY <1>2, AppendToQueue DEF QueuesOK
<1>6. QueuesOK' /\ ConnectionsOK' /\ ClientsOK'
  <2>1. QueuesOK'
    BY <1>2, <1>3, <1>4, <1>5 DEF QueuesOK, Ids, keeperVars
  <2>2. ConnectionsOK'
    BY <1>2 DEF ConnectionsOK, Ids, keeperVars
  <2>3. ClientsOK'
    BY <1>2 DEF ClientsOK, keeperVars, clientVars, wires
  <2> QED BY <2>1, <2>2, <2>3
<1>7. AcceptedOnce'
  BY <1>2, <1>3, NoAccept
<1>8. NetDrops'
  <2>1. DropIsLast(mNetQueue)'
    BY <1>3 DEF NetDrops, DropIsLast
  <2>2. \A x \in Range(mNetQueue') : x.op = "OP_RECV" => x.conn \in DOMAIN mConns'
    BY <1>2, <1>3 DEF NetDrops, DropIsLast
  <2>3. \A v : Drops(mNetQueue', v) => Drops(mNetQueue, v)
    BY <1>3 DEF Drops
  <2> QED BY <1>2, <2>1, <2>2, <2>3 DEF NetDrops
<1>9. WorkerDrops'
  <2>1. DropIsLast(mWorkerQueue)'
    BY <1>4, <1>5, BeforeIsInQueue DEF WorkerDrops, DropIsLast
  <2>2. \A x \in Range(mWorkerQueue') : x.op = "OP_DROP" => x.conn \notin DOMAIN mConns'
    BY <1>2, <1>4, <1>5 DEF WorkerDrops
  <2>3. \A v : Drops(mWorkerQueue', v) <=> Drops(mWorkerQueue, v) \/ v = id
    BY <1>4, <1>5 DEF Drops
  <2> HIDE DEF id
  <2>4. \A x \in Range(mWorkerQueue') : x.op = "OP_RECV" =>
          x.conn \in DOMAIN mConns' \/ Drops(mWorkerQueue', x.conn)
    BY <1>2, <1>4, <1>5, <2>3 DEF WorkerDrops
  <2>5. \A u \in DOMAIN mIdUser' : u \in DOMAIN mConns' \/ Drops(mWorkerQueue', u)
    BY <1>2, <2>3 DEF WorkerDrops, keeperVars
  <2> QED BY <2>1, <2>2, <2>4, <2>5 DEF WorkerDrops
<1> QED BY <1>1, <1>6, <1>7, <1>8, <1>9

LEMMA NetStepKeeps ==
  ASSUME IInv, NetStep
  PROVE  IInv'
<1>1. UNCHANGED outsideVars
  BY DEF NetStep, outsideVars
<1>2. CASE AcceptConnection
  BY <1>1, <1>2, AcceptConnectionKeeps
<1>3. CASE ForwardRecv
  BY <1>1, <1>3, ForwardRecvKeeps
<1>4. CASE SendDiscarded \/ SendWritten
  BY <1>1, <1>4, SentKeeps
<1>5. CASE SendFails
  BY <1>1, <1>5, SendFailsKeeps
<1>6. CASE SendKills
  <2>1. UNCHANGED <<serverVars, backlog, wires, clientVars>>
    BY <1>1, <1>6 DEF SendKills, serverVars, outsideVars
  <2>2. ClientsOK'
    BY <2>1 DEF IInv, ClientsOK, serverVars, keeperVars, wires, clientVars
  <2>3. AcceptedOnce'
    BY <2>1, <2>2, AcceptedStays DEF IInv, clientVars
  <2> QED BY <2>1, <2>2, <2>3, ServerStays DEF IInv
<1>7. CASE DropConnection
  BY <1>1, <1>7, DropConnectionKeeps
<1> QED BY <1>2, <1>3, <1>4, <1>5, <1>6, <1>7 DEF NetStep, NetProcess, SendMsg

-----------------------------------------------------------------------------
LEMMA StepIInv == IInv /\ [Next]_vars => IInv'
<1> SUFFICES ASSUME IInv, [Next]_vars
             PROVE  IInv'
  OBVIOUS
<1>1. CASE WorkerStep
  BY <1>1, WorkerStepKeeps
<1>2. CASE NetStep
  BY <1>2, NetStepKeeps
<1>3. CASE DriverLate
  BY <1>3, DriverLateKeeps
<1>4. ASSUME NEW c \in Clients, DriverAccept(c) \/ DriverRead(c)
      PROVE  IInv'
  BY <1>4, DriverKeeps
<1>5. ASSUME NEW c \in Clients, NEW n \in UserNames, StartClient(c, n)
      PROVE  IInv'
  BY <1>5, StartKeeps
<1>6. ASSUME NEW c \in Clients, TypeInput(c) \/ Exit(c) \/ RecvFromServer(c)
      PROVE  IInv'
  BY <1>6, InputKeeps, ExitKeeps, ReceptionKeeps
<1>7. CASE UNCHANGED vars
  <2>1. UNCHANGED <<serverVars, backlog, wires, clientVars>>
    BY <1>7 DEF vars, serverVars, netVars, wires
  <2>2. ClientsOK'
    BY <2>1 DEF IInv, ClientsOK, serverVars, keeperVars, wires, clientVars
  <2>3. AcceptedOnce'
    BY <2>1, <2>2, AcceptedStays DEF IInv, clientVars
  <2> QED BY <2>1, <2>2, <2>3, ServerStays DEF IInv
<1> QED BY <1>1, <1>2, <1>3, <1>4, <1>5, <1>6, <1>7 DEF Next

(* What the queues, the connections, the clients and the registry know of  *)
(* each other holds in every state.                                        *)
THEOREM Inductive == Spec => []IInv
<1> QED BY InitIInv, StepIInv, PTL DEF Spec

(* Type correctness of the queues, the connections and the clients.        *)
THEOREM TypeCorrect == Spec => []TypeOK
<1>1. IInv => TypeOK
  <2> SUFFICES ASSUME IInv
               PROVE  TypeOK
    OBVIOUS
  <2>1. /\ \A i \in DOMAIN mWorkerQueue : mWorkerQueue[i] \in Range(mWorkerQueue)
        /\ \A i \in DOMAIN mNetQueue : mNetQueue[i] \in Range(mNetQueue)
    BY DEF Range
  <2>2. DOMAIN mConns \subseteq UserIds /\ \A id \in DOMAIN mConns : id < mMaxID
    BY IdsAreUserIds DEF IInv, ConnectionsOK, Ids
  <2> QED BY <2>1, <2>2 DEF IInv, QueuesOK, ConnectionsOK, ClientsOK, TypeOK
<1> QED BY <1>1, Inductive, PTL

(* Whoever is registered has a connection, or the drop of its connection   *)
(* waits for the Worker.                                                   *)
THEOREM NobodyOutlivesItsConnection == Spec => []NoGhostUser
<1>1. IInv => NoGhostUser
  <2>1. ASSUME NEW u, Drops(mWorkerQueue, u)
        PROVE  \E i \in DOMAIN mWorkerQueue :
                 mWorkerQueue[i].op = "OP_DROP" /\ mWorkerQueue[i].conn = u
    <3>1. \A x \in Range(mWorkerQueue) : \E i \in DOMAIN mWorkerQueue : mWorkerQueue[i] = x
      BY DEF Range
    <3> QED BY <2>1, <3>1 DEF Drops
  <2> QED BY <2>1 DEF IInv, WorkerDrops, NoGhostUser
<1> QED BY <1>1, Inductive, PTL

(* Nothing a connection has sent comes to the Worker after its drop.       *)
THEOREM DropsComeLast == Spec => []NothingAfterDrop
<1>1. IInv => NothingAfterDrop
  <2> SUFFICES ASSUME IInv
               PROVE  NothingAfterDrop
    OBVIOUS
  <2> DEFINE pipeline == mWorkerQueue \o mNetQueue
  <2>1. ASSUME NEW x, NEW y, Before(pipeline, x, y), x.op = "OP_DROP", y.op = "OP_RECV"
        PROVE  x.conn # y.conn
    <3>1. \/ Before(mWorkerQueue, x, y)
          \/ Before(mNetQueue, x, y)
          \/ x \in Range(mWorkerQueue) /\ y \in Range(mNetQueue)
      BY <2>1, ConcatOfQueues DEF IInv, QueuesOK
    <3> QED BY <2>1, <3>1, BeforeIsInQueue DEF IInv, WorkerDrops, NetDrops, DropIsLast
  <2>2. \A i, j \in DOMAIN pipeline : i < j => Before(pipeline, pipeline[i], pipeline[j])
    BY DEF Before
  <2> HIDE DEF pipeline
  <2>3. \A i, j \in DOMAIN pipeline :
          (i < j /\ pipeline[i].op = "OP_DROP" /\ pipeline[j].op = "OP_RECV")
            => pipeline[i].conn # pipeline[j].conn
    BY <2>1, <2>2
  <2> QED BY <2>3 DEF NothingAfterDrop, pipeline
<1> QED BY <1>1, Inductive, PTL

-----------------------------------------------------------------------------
(* The server, whatever its threads and its clients do, is a registry: the *)
(* Worker is the only one to touch it and calls it as it expects.          *)
LEMMA StepOfRegistry == IInv /\ [Next]_vars => [Keeper!Next]_(Keeper!keeperVars)
<1> SUFFICES ASSUME IInv, [Next]_vars, ~UNCHANGED keeperVars
             PROVE  Keeper!Next
  BY DEF keeperVars, Keeper!keeperVars
<1>1. WorkerStep
  BY DEF Next, vars, NetStep, DriverLate, DriverAccept, DriverRead, StartClient, TypeInput,
         TypeChat, TypeCreate, TypeJoin, TypeWhisper, TypeLeave, Types, Exit, Leaves,
         RecvFromServer, ParseRoomInfo, HandleUpdateRoomList, HandleLogonRes, ShowMessage, Taken
<1> QED BY <1>1, WorkerActs DEF ForwardSend, Operation

(* The server, seen through the registry's tables, is RoomKeeper: Worker's *)
(* handlers change them by its operations and in no other way.             *)
THEOREM ServerIsARegistry == Spec => Keeper!Spec
<1>1. Init => Keeper!Init
  BY DEF Init, WorkerInit
<1> QED BY <1>1, StepOfRegistry, Inductive, PTL DEF Spec, Keeper!Spec

(* So the registry's promises are the server's: its tables agree, a user   *)
(* is in one room, and no assertion about the tables fails.                *)
THEOREM RegistryIsSound ==
  Spec => [](Keeper!NamesAgree /\ Keeper!RoomsAgree /\ Keeper!OneRoomEach
             /\ Keeper!RegistryAssertsHold)
<1>1. IInv => /\ Keeper!NamesAgree /\ Keeper!RoomsAgree /\ Keeper!OneRoomEach
              /\ Keeper!RegistryAssertsHold
  BY DEF IInv, KP!IInv, KP!NamesAgree, Keeper!NamesAgree, KP!RoomsAgree, Keeper!RoomsAgree,
         KP!OneRoomEach, Keeper!OneRoomEach, KP!RegistryAssertsHold, Keeper!RegistryAssertsHold
<1> QED BY <1>1, Inductive, PTL

-----------------------------------------------------------------------------
(* With users who type nothing before they see a room, no message makes    *)
(* the server abort because it does not know the sender or the room.       *)
(*                                                                         *)
(* The argument goes round: a client shows a room because its user was     *)
(* registered when the room was published; the user is removed by its      *)
(* drop; behind the drop there is no message of it.                        *)

(* Messages whose handler asserts that their sender is registered.         *)
NeedsUser(m) == m.type \in {"c2s_publish_chat_msg", "c2s_whisper_msg"}
KnownRoom(m) == m.type = "c2s_publish_chat_msg" => m.room \in DOMAIN mIdRoom

(* What has been received, and what waits to be, under the assumption that *)
(* users type nothing before they see a room.                              *)
SendersKnown ==
  /\ \A x \in Range(mWorkerQueue) \cup Range(mNetQueue) :
       x.op = "OP_RECV" => /\ NeedsUser(x.msg) => x.conn \in DOMAIN mIdUser
                           /\ KnownRoom(x.msg)
  /\ \A c \in Clients : \A m \in Range(toServer[c]) : KnownRoom(m)
  /\ \A u \in DOMAIN mConns : \A m \in Range(toServer[mConns[u].socket]) :
       NeedsUser(m) => u \in DOMAIN mIdUser

(* Who is told a room, and who shows one.                                  *)
ToldAreKnown ==
  /\ \A x \in Range(mWorkerQueue) \cup Range(mNetQueue) :
       x.op = "OP_SEND" /\ TellsRoom(x.msg) =>
         x.conn \in Ids /\ (x.conn \in DOMAIN mConns => x.conn \in DOMAIN mIdUser)
  /\ \A u \in DOMAIN mConns :
       /\ \A m \in Range(toClient[mConns[u].socket]) : TellsRoom(m) => u \in DOMAIN mIdUser
       /\ mCurrentRoom[mConns[u].socket] # INVALID_ROOM_ID => u \in DOMAIN mIdUser

(* A client without a connection has seen nothing, and says little if its  *)
(* user waits for a room.                                                  *)
StrangersSeeNothing ==
  \A c \in Clients \ Accepted : mCurrentRoom[c] = INVALID_ROOM_ID /\ toClient[c] = <<>>

StrangersWait ==
  \A c \in Clients \ Accepted : \A m \in Range(toServer[c]) : ~NeedsUser(m)

OneConnectionEach ==
  /\ \A u \in DOMAIN mConns : mConns[u].socket \in Accepted
  /\ \A u, v \in DOMAIN mConns : mConns[u].socket = mConns[v].socket => u = v

Told == ToldAreKnown /\ StrangersSeeNothing /\ OneConnectionEach
Asked == SendersKnown /\ StrangersWait /\ LookupsSucceed

ToldInv == IInv /\ Told

-----------------------------------------------------------------------------
LEMMA InitKnows == Init => Told /\ Asked
<1> SUFFICES ASSUME Init
             PROVE  Told /\ Asked
  OBVIOUS
<1> USE EmptyQueue DEF Init, WorkerInit, NetInit, ClientInit
<1>1. SendersKnown /\ ToldAreKnown
  BY DEF SendersKnown, ToldAreKnown
<1>2. StrangersSeeNothing /\ OneConnectionEach /\ StrangersWait /\ LookupsSucceed
  BY DEF StrangersSeeNothing, OneConnectionEach, StrangersWait, LookupsSucceed, Keeper!Init
<1> QED BY <1>1, <1>2 DEF Told, Asked

LEMMA Sockets ==
  ASSUME IInv
  PROVE  \A u \in DOMAIN mConns : mConns[u].socket \in Clients
  BY DEF IInv, ConnectionsOK

(* Steps on which messages only move on, or are lost.                      *)
LEMMA NothingNewIsSaid ==
  ASSUME ToldInv, UNCHANGED keeperVars, Accepted' = Accepted, Ids' = Ids,
         \A x \in Range(mWorkerQueue)' \cup Range(mNetQueue)' :
           x \in Range(mWorkerQueue) \cup Range(mNetQueue) \/ x.op \notin {"OP_RECV", "OP_SEND"},
         DOMAIN mConns' \subseteq DOMAIN mConns,
         \A u \in DOMAIN mConns' : mConns'[u].socket = mConns[u].socket,
         \A c \in Clients : /\ Range(toServer'[c]) \subseteq Range(toServer[c])
                            /\ Range(toClient'[c]) \subseteq Range(toClient[c])
                            /\ toClient[c] = <<>> => toClient'[c] = <<>>
                            /\ mCurrentRoom'[c] \in {mCurrentRoom[c], INVALID_ROOM_ID}
  PROVE  Told' /\ (Asked => Asked')
<1> USE DEF ToldInv, Told, Asked, keeperVars
<1>1. \A u \in DOMAIN mConns : mConns[u].socket \in Clients
  BY Sockets
<1>2. ASSUME SendersKnown
      PROVE  SendersKnown'
  <2>1. \A x \in Range(mWorkerQueue)' \cup Range(mNetQueue)' :
          x.op = "OP_RECV" => /\ NeedsUser(x.msg) => x.conn \in DOMAIN mIdUser
                              /\ KnownRoom(x.msg)
    BY <1>2 DEF SendersKnown
  <2>2. \A c \in Clients : \A m \in Range(toServer'[c]) : KnownRoom(m)
    BY <1>2 DEF SendersKnown
  <2>3. \A u \in DOMAIN mConns' : \A m \in Range(toServer'[mConns'[u].socket]) :
          NeedsUser(m) => u \in DOMAIN mIdUser
    BY <1>1, <1>2 DEF SendersKnown
  <2> QED BY <2>1, <2>2, <2>3 DEF SendersKnown, KnownRoom
<1>3. ToldAreKnown'
  <2>1. \A x \in Range(mWorkerQueue)' \cup Range(mNetQueue)' :
          x.op = "OP_SEND" /\ TellsRoom(x.msg) =>
            x.conn \in Ids /\ (x.conn \in DOMAIN mConns' => x.conn \in DOMAIN mIdUser)
    BY DEF ToldAreKnown
  <2>2. \A u \in DOMAIN mConns' :
          /\ \A m \in Range(toClient'[mConns'[u].socket]) : TellsRoom(m) => u \in DOMAIN mIdUser
          /\ mCurrentRoom'[mConns'[u].socket] # INVALID_ROOM_ID => u \in DOMAIN mIdUser
    BY <1>1 DEF ToldAreKnown
  <2> QED BY <2>1, <2>2 DEF ToldAreKnown
<1>4. StrangersSeeNothing' /\ (StrangersWait => StrangersWait')
  BY DEF StrangersSeeNothing, StrangersWait
<1>5. OneConnectionEach' /\ (LookupsSucceed => LookupsSucceed')
  BY DEF OneConnectionEach, LookupsSucceed
<1> QED BY <1>2, <1>3, <1>4, <1>5

-----------------------------------------------------------------------------
(* The clients.                                                            *)
LEMMA StartKnows ==
  ASSUME ToldInv, NEW c \in Clients, NEW n \in UserNames, StartClient(c, n)
  PROVE  Told' /\ (Asked => Asked')
<1> USE DEF ToldInv, Told, Asked, IInv
<1>1. /\ phase[c] = "idle" /\ phase' = [phase EXCEPT ![c] = "up"] /\ backlog' = backlog \cup {c}
      /\ toServer' = [toServer EXCEPT ![c] = <<C2sLogon(n)>>]
      /\ UNCHANGED <<keeperVars, mWorkerQueue, mNetQueue, mConns, mMaxID, toClient, mCurrentRoom>>
  BY DEF StartClient, queues, views
<1>2. Range(<<C2sLogon(n)>>) = {C2sLogon(n)} /\ ~NeedsUser(C2sLogon(n)) /\ KnownRoom(C2sLogon(n))
  BY SingleQueue DEF NeedsUser, KnownRoom, C2sLogon
<1>3. c \notin Accepted /\ Accepted' = Accepted
  BY <1>1 DEF Accepted, Accepts, ClientsOK
<1>4. /\ DOMAIN toServer = Clients /\ Ids' = Ids
      /\ \A u \in DOMAIN mConns : mConns[u].socket \in Clients \ {c}
  BY <1>1, <1>3, Sockets DEF ClientsOK, Ids, OneConnectionEach
<1>5. SendersKnown => SendersKnown'
  BY <1>1, <1>2, <1>4 DEF SendersKnown, KnownRoom, keeperVars
<1>6. ToldAreKnown'
  BY <1>1, <1>4 DEF ToldAreKnown, keeperVars
<1>7. StrangersSeeNothing' /\ (StrangersWait => StrangersWait')
  BY <1>1, <1>2, <1>3, <1>4 DEF StrangersSeeNothing, StrangersWait
<1>8. OneConnectionEach' /\ (LookupsSucceed => LookupsSucceed')
  BY <1>1, <1>3 DEF OneConnectionEach, LookupsSucceed, keeperVars
<1> QED BY <1>5, <1>6, <1>7, <1>8

(* Whoever waits for a room before it types has a registered user, or no   *)
(* connection any more.                                                    *)
LEMMA TypesKnows ==
  ASSUME ToldInv, NEW c \in Clients, NEW kind, NEW msg, Types(c, kind, msg),
         PatientUsers => KnownRoom(msg)
  PROVE  Told' /\ (PatientUsers /\ Asked => Asked')
<1> USE DEF ToldInv, Told, Asked, IInv
<1>1. /\ PatientUsers => mCurrentRoom[c] # INVALID_ROOM_ID
      /\ toServer' = [toServer EXCEPT ![c] = Append(toServer[c], msg)]
      /\ UNCHANGED <<serverVars, backlog, phase, toClient, mCurrentRoom>>
  BY DEF Types, views, serverVars
<1>2. Accepted' = Accepted /\ Ids' = Ids
  BY <1>1 DEF Accepted, Accepts, Ids, serverVars, queues
<1>3. ToldAreKnown' /\ StrangersSeeNothing' /\ OneConnectionEach'
  BY <1>1, <1>2 DEF ToldAreKnown, StrangersSeeNothing, OneConnectionEach, serverVars, queues, keeperVars
<1>4. ASSUME PatientUsers
      PROVE  Asked => Asked'
  <2>1. Range(Append(toServer[c], msg)) = Range(toServer[c]) \cup {msg} /\ DOMAIN toServer = Clients
    BY AppendToQueue DEF ClientsOK
  <2>2. /\ c \in Accepted
        /\ \A u \in DOMAIN mConns : /\ mConns[u].socket \in Clients
                                    /\ mConns[u].socket = c => u \in DOMAIN mIdUser
    BY <1>1, <1>4, Sockets DEF ToldAreKnown, StrangersSeeNothing
  <2>3. SendersKnown => SendersKnown'
    BY <1>1, <1>4, <2>1, <2>2 DEF SendersKnown, KnownRoom, serverVars, queues, keeperVars
  <2>4. (StrangersWait => StrangersWait') /\ (LookupsSucceed => LookupsSucceed')
    BY <1>1, <1>2, <2>1, <2>2 DEF StrangersWait, LookupsSucceed, serverVars, keeperVars
  <2> QED BY <2>3, <2>4
<1> QED BY <1>3, <1>4

LEMMA InputKnows ==
  ASSUME ToldInv, NEW c \in Clients, TypeInput(c)
  PROVE  Told' /\ (PatientUsers /\ Asked => Asked')
<1>1. CASE TypeChat(c)
  <2>1. PatientUsers => mCurrentRoom[c] \in DOMAIN mIdRoom
    BY <1>1 DEF TypeChat, Types, ToldInv, IInv, ClientsOK
  <2>2. PatientUsers => KnownRoom(C2sChat(mCurrentRoom[c]))
    BY <2>1 DEF KnownRoom, C2sChat
  <2> QED BY <1>1, <2>2, TypesKnows DEF TypeChat
<1>2. CASE TypeCreate(c)
  <2>1. \A r, p : KnownRoom(C2sCreate(r, p))
    BY DEF KnownRoom, C2sCreate
  <2> QED BY <1>2, <2>1, TypesKnows DEF TypeCreate
<1>3. CASE TypeJoin(c) \/ TypeLeave(c)
  <2>1. \A r, p : KnownRoom(C2sJoin(r, p))
    BY DEF KnownRoom, C2sJoin
  <2> QED BY <1>3, <2>1, TypesKnows DEF TypeJoin, TypeLeave
<1>4. CASE TypeWhisper(c)
  <2>1. \A n : KnownRoom(C2sWhisper(n))
    BY DEF KnownRoom, C2sWhisper
  <2> QED BY <1>4, <2>1, TypesKnows DEF TypeWhisper
<1> QED BY <1>1, <1>2, <1>3, <1>4 DEF TypeInput

LEMMA LeavesKnows ==
  ASSUME ToldInv, NEW c \in Clients, phase[c] # "idle", Leaves(c),
         \A d \in Clients : Range(toServer'[d]) \subseteq Range(toServer[d])
  PROVE  Told' /\ (Asked => Asked')
<1> USE DEF ToldInv, IInv
<1>1. /\ UNCHANGED <<serverVars, backlog>>
      /\ phase' = [phase EXCEPT ![c] = "exited"]
      /\ toClient' = [toClient EXCEPT ![c] = <<>>]
      /\ mCurrentRoom' = [mCurrentRoom EXCEPT ![c] = INVALID_ROOM_ID]
  BY DEF Leaves, serverVars
<1>2. /\ DOMAIN toClient = Clients /\ DOMAIN mCurrentRoom = Clients
      /\ \A d \in Clients : phase[d] = "idle" <=> phase'[d] = "idle"
  BY <1>1 DEF ClientsOK
<1>3. Accepted' = Accepted /\ Ids' = Ids
  BY <1>1, <1>2 DEF Accepted, Accepts, Ids, serverVars, queues
<1>4. \A d \in Clients : /\ Range(toClient'[d]) \subseteq Range(toClient[d])
                         /\ toClient[d] = <<>> => toClient'[d] = <<>>
                         /\ mCurrentRoom'[d] \in {mCurrentRoom[d], INVALID_ROOM_ID}
  BY <1>1, <1>2, EmptyQueue
<1>5. UNCHANGED <<keeperVars, mWorkerQueue, mNetQueue, mConns>>
  BY <1>1 DEF serverVars, queues
<1> QED BY <1>3, <1>4, <1>5, NothingNewIsSaid

LEMMA ReceptionKnows ==
  ASSUME ToldInv, NEW c \in Clients, RecvFromServer(c)
  PROVE  Told' /\ (Asked => Asked')
<1> USE DEF ToldInv, Told, Asked, IInv
<1> DEFINE m == Head(toClient[c])
<1>1. toClient[c] # <<>> /\ phase[c] = "up"
  BY DEF RecvFromServer, ParseRoomInfo, HandleUpdateRoomList, HandleLogonRes, ShowMessage, Receives
<1>2. /\ m \in Range(toClient[c])
      /\ Range(Tail(toClient[c])) \subseteq Range(toClient[c])
      /\ c \in Accepted /\ DOMAIN toClient = Clients /\ DOMAIN mCurrentRoom = Clients
  BY <1>1, TailOfQueue DEF ClientsOK, StrangersSeeNothing
<1> HIDE DEF m
<1>3. CASE HandleLogonRes(c)
  BY <1>1, <1>3, LeavesKnows DEF HandleLogonRes
<1>4. ASSUME Taken(c)
      PROVE  /\ UNCHANGED <<keeperVars, mWorkerQueue, mNetQueue, mConns, toServer>>
             /\ toClient' = [toClient EXCEPT ![c] = Tail(toClient[c])]
             /\ Accepted' = Accepted /\ Ids' = Ids
             /\ \A d \in Clients : /\ Range(toClient'[d]) \subseteq Range(toClient[d])
                                   /\ d # c => toClient'[d] = toClient[d]
  BY <1>2, <1>4 DEF Taken, Accepted, Accepts, Ids, queues
<1>5. CASE (HandleUpdateRoomList(c) \/ ShowMessage(c))
  <2>1. Taken(c) /\ mCurrentRoom' = mCurrentRoom
    BY <1>5 DEF HandleUpdateRoomList, ShowMessage, views
  <2> QED BY <1>1, <1>4, <2>1, NothingNewIsSaid
<1>6. CASE ParseRoomInfo(c)
  <2>1. Taken(c) /\ TellsRoom(m) /\ mCurrentRoom' = [mCurrentRoom EXCEPT ![c] = m.room]
    BY <1>6 DEF ParseRoomInfo, TellsRoom, m
  <2>2. \A u \in DOMAIN mConns : /\ mConns[u].socket \in Clients
                                 /\ mConns[u].socket = c => u \in DOMAIN mIdUser
    BY <1>2, <2>1, Sockets DEF ToldAreKnown
  <2>3. SendersKnown => SendersKnown'
    BY <1>4, <2>1 DEF SendersKnown, KnownRoom, keeperVars
  <2>4. ToldAreKnown'
    BY <1>2, <1>4, <2>1, <2>2 DEF ToldAreKnown, keeperVars
  <2>5. StrangersSeeNothing' /\ (StrangersWait => StrangersWait')
    BY <1>2, <1>4, <2>1 DEF StrangersSeeNothing, StrangersWait
  <2>6. OneConnectionEach' /\ (LookupsSucceed => LookupsSucceed')
    BY <1>4, <2>1 DEF OneConnectionEach, LookupsSucceed, keeperVars
  <2> QED BY <2>3, <2>4, <2>5, <2>6
<1> QED BY <1>3, <1>5, <1>6 DEF RecvFromServer

LEMMA ExitKnows ==
  ASSUME ToldInv, NEW c \in Clients, Exit(c)
  PROVE  Told' /\ (Asked => Asked')
<1>1. PICK k \in 0 .. Len(toServer[c]) :
        toServer' = [toServer EXCEPT ![c] = SubSeq(toServer[c], 1, k)]
  BY DEF Exit
<1>2. IsQueue(toServer[c]) /\ DOMAIN toServer = Clients
  BY DEF ToldInv, IInv, ClientsOK
<1>3. Range(SubSeq(toServer[c], 1, k)) \subseteq Range(toServer[c])
  BY <1>2, PrefixOfQueue
<1> QED BY <1>1, <1>2, <1>3, LeavesKnows DEF Exit

-----------------------------------------------------------------------------
(* The Worker.  A message received removes nobody, and one whose sender    *)
(* and room are known is processed without a failure.                      *)
LEMMA ReceivedRemovesNobody ==
  ASSUME RecvMessage
  PROVE  DOMAIN mIdUser \subseteq DOMAIN mIdUser'
<1> DEFINE u == Head(mWorkerQueue).conn
           msg == Head(mWorkerQueue).msg
<1>1. CASE HandleLogon(u, msg.name)
  BY <1>1 DEF HandleLogon, Keeper!HandleLogon, Keeper!Put, Keeper!keeperVars
<1>2. CASE PublishChatMessage(u, msg.room) \/ HandleWhisperMsg(u, msg.to)
  BY <1>2 DEF PublishChatMessage, Keeper!PublishRoomMessage, HandleWhisperMsg, Keeper!GetUserById,
              Keeper!tables
<1>3. CASE HandleCreateRoom(u, msg.name, msg.passwd)
  BY <1>3 DEF HandleCreateRoom, Keeper!CreateRoom, Keeper!keeperVars
<1>4. CASE HandleJoinRoom(u, msg.name, msg.passwd)
  BY <1>4 DEF HandleJoinRoom, Keeper!HandleJoinRoom, Keeper!tables
<1> QED BY <1>1, <1>2, <1>3, <1>4 DEF RecvMessage

LEMMA ReceivedFinds ==
  ASSUME failed = "none", RecvMessage,
         NeedsUser(Head(mWorkerQueue).msg) => Head(mWorkerQueue).conn \in DOMAIN mIdUser,
         KnownRoom(Head(mWorkerQueue).msg)
  PROVE  failed' # "lookup"
<1> DEFINE u == Head(mWorkerQueue).conn
           msg == Head(mWorkerQueue).msg
<1>1. CASE msg.type = "c2s_logon" /\ HandleLogon(u, msg.name)
  BY <1>1 DEF HandleLogon, Keeper!HandleLogon, Keeper!Put, Keeper!Asserts, Keeper!keeperVars
<1>2. CASE msg.type = "c2s_publish_chat_msg" /\ PublishChatMessage(u, msg.room)
  <2>1. Keeper!ChatLookups(msg.room, u)
    BY <1>2 DEF NeedsUser, KnownRoom, Keeper!ChatLookups
  <2> QED BY <1>2, <2>1 DEF PublishChatMessage, Keeper!PublishRoomMessage, Keeper!Asserts, Keeper!tables
<1>3. CASE msg.type = "c2s_create_room" /\ HandleCreateRoom(u, msg.name, msg.passwd)
  BY <1>3 DEF HandleCreateRoom, Keeper!CreateRoom, Keeper!keeperVars
<1>4. CASE msg.type = "c2s_join_room" /\ HandleJoinRoom(u, msg.name, msg.passwd)
  BY <1>4 DEF HandleJoinRoom, Keeper!HandleJoinRoom, Keeper!Asserts, Keeper!tables
<1>5. CASE msg.type = "c2s_whisper_msg" /\ HandleWhisperMsg(u, msg.to)
  <2>1. u \in DOMAIN mIdUser
    BY <1>5 DEF NeedsUser
  <2> QED BY <1>5, <2>1 DEF HandleWhisperMsg, Keeper!GetUserById, Keeper!Asserts, Keeper!tables
<1> QED BY <1>1, <1>2, <1>3, <1>4, <1>5 DEF RecvMessage

LEMMA OperationKnows ==
  ASSUME ToldInv, UNCHANGED <<netVars, clientVars>>, mWorkerQueue # <<>>,
         NEW u, u = Head(mWorkerQueue).conn, Operation(u),
         \/ /\ Head(mWorkerQueue).op = "OP_RECV"
            /\ DOMAIN mIdUser \subseteq DOMAIN mIdUser'
         \/ /\ Head(mWorkerQueue).op = "OP_DROP"
            /\ DOMAIN mIdUser' = DOMAIN mIdUser \ {u}
  PROVE  Told' /\ (Asked /\ failed' # "lookup" => Asked')
<1> DEFINE h == Head(mWorkerQueue)
           t == Tail(mWorkerQueue)
<1> USE DEF ToldInv, Told, Asked, IInv
<1>1. PICK sent : Finish(sent) /\ AllSends(sent, mIdRoom', mIdUser')
  BY DEF Operation
<1>2. /\ h \in Range(mWorkerQueue) /\ IsQueue(t)
      /\ Range(mWorkerQueue) = {h} \cup Range(t)
      /\ \A y \in Range(t) : Before(mWorkerQueue, h, y)
  BY TailOfQueue DEF QueuesOK
<1>3. /\ mNetQueue' = mNetQueue
      /\ \A x \in Range(mWorkerQueue') :
           x \in Range(t) \/ (x.op = "OP_SEND" /\ (TellsRoom(x.msg) => x.conn \in DOMAIN mIdUser'))
  BY <1>1, <1>2, ConcatOfQueues DEF Finish, AllSends, TellsRoom
<1> HIDE DEF h, t
<1>4. /\ Accepted' = Accepted /\ Ids' = Ids
      /\ UNCHANGED <<mConns, toServer, toClient, mCurrentRoom>>
  BY <1>3, TheAcceptedStay DEF Ids, netVars, clientVars
<1>5. \A x : KnownRoom(x) => KnownRoom(x)'
  BY DEF Operation, KnownRoom
(* Who is removed has no connection and no message that waits.             *)
<1>6. DOMAIN mIdUser' \subseteq Ids
  BY <1>2 DEF Operation, ConnectionsOK, QueuesOK, h
<1>7. \A v \in DOMAIN mIdUser : v \in DOMAIN mConns => v \in DOMAIN mIdUser'
  BY <1>2 DEF WorkerDrops, h
<1>8. \A x \in Range(t) \cup Range(mNetQueue) : x.op = "OP_RECV" =>
        (x.conn \in DOMAIN mIdUser => x.conn \in DOMAIN mIdUser')
  <2>1. CASE h.op = "OP_RECV"
    BY <2>1 DEF h
  <2>2. CASE h.op = "OP_DROP" /\ DOMAIN mIdUser' = DOMAIN mIdUser \ {u}
    <3>1. \A x \in Range(t) : x.op = "OP_RECV" => x.conn # u
      BY <1>2, <2>2 DEF WorkerDrops, DropIsLast, h
    <3>2. \A x \in Range(mNetQueue) : x.op = "OP_RECV" => x.conn # u
      BY <1>2, <2>2 DEF WorkerDrops, NetDrops, h
    <3> QED BY <2>2, <3>1, <3>2
  <2> QED BY <2>1, <2>2 DEF h
<1>9. ASSUME SendersKnown
      PROVE  SendersKnown'
  <2>1. \A x \in Range(mWorkerQueue') \cup Range(mNetQueue') :
          x.op = "OP_RECV" => /\ NeedsUser(x.msg) => x.conn \in DOMAIN mIdUser'
                              /\ KnownRoom(x.msg)'
    BY <1>2, <1>3, <1>5, <1>8, <1>9 DEF SendersKnown
  <2>2. \A c \in Clients : \A m \in Range(toServer'[c]) : KnownRoom(m)'
    BY <1>4, <1>5, <1>9 DEF SendersKnown
  <2>3. \A v \in DOMAIN mConns' : \A m \in Range(toServer'[mConns'[v].socket]) :
          NeedsUser(m) => v \in DOMAIN mIdUser'
    BY <1>4, <1>7, <1>9 DEF SendersKnown
  <2> QED BY <2>1, <2>2, <2>3 DEF SendersKnown, KnownRoom
<1>10. ToldAreKnown'
  <2>1. \A x \in Range(mWorkerQueue') \cup Range(mNetQueue') :
          x.op = "OP_SEND" /\ TellsRoom(x.msg) =>
            x.conn \in Ids /\ (x.conn \in DOMAIN mConns => x.conn \in DOMAIN mIdUser')
    BY <1>2, <1>3, <1>6, <1>7 DEF ToldAreKnown
  <2> QED BY <1>4, <1>7, <2>1 DEF ToldAreKnown
<1>11. /\ StrangersSeeNothing' /\ (StrangersWait => StrangersWait') /\ OneConnectionEach'
       /\ failed' # "lookup" => LookupsSucceed'
  BY <1>4 DEF StrangersSeeNothing, StrangersWait, OneConnectionEach, LookupsSucceed
<1> QED BY <1>9, <1>10, <1>11

LEMMA WorkerStepKnows ==
  ASSUME ToldInv, WorkerStep
  PROVE  Told' /\ (Asked => Asked')
<1> DEFINE h == Head(mWorkerQueue)
<1> USE DEF ToldInv, IInv
<1>1. failed = "none" /\ UNCHANGED <<netVars, clientVars>>
  BY WorkerActs
<1>2. CASE ForwardSend
  <2>1. /\ mWorkerQueue # <<>> /\ h.op = "OP_SEND" /\ UNCHANGED keeperVars
        /\ mWorkerQueue' = Tail(mWorkerQueue) /\ mNetQueue' = Append(mNetQueue, h)
    BY <1>2 DEF ForwardSend, NextIs
  <2>2. Range(mWorkerQueue) = {h} \cup Range(mWorkerQueue')
    BY <2>1, TailOfQueue DEF QueuesOK
  <2>3. Range(mNetQueue') = Range(mNetQueue) \cup {h}
    BY <2>1, AppendToQueue DEF QueuesOK
  <2> HIDE DEF h
  <2>4. Accepted' = Accepted /\ Ids' = Ids
    BY <1>1, <2>1, <2>3 DEF Accepted, Accepts, Ids, netVars, clientVars
  <2> QED BY <1>1, <2>1, <2>2, <2>3, <2>4, NothingNewIsSaid DEF netVars, clientVars
<1>3. CASE mWorkerQueue # <<>> /\ Operation(h.conn) /\ RecvMessage /\ h.op = "OP_RECV"
  <2>1. h \in Range(mWorkerQueue)
    BY <1>3, TailOfQueue DEF QueuesOK
  <2>2. Asked => failed' # "lookup"
    BY <1>1, <1>3, <2>1, ReceivedFinds DEF Asked, SendersKnown
  <2> QED BY <1>1, <1>3, <2>2, ReceivedRemovesNobody, OperationKnows
<1>4. CASE /\ mWorkerQueue # <<>> /\ Operation(h.conn) /\ ProcessDrop /\ h.op = "OP_DROP"
           /\ DOMAIN mIdUser' = DOMAIN mIdUser \ {h.conn}
  <2>1. failed' # "lookup"
    BY <1>1, <1>4 DEF ProcessDrop, HandleDrop, Keeper!HandleDrop, Keeper!Asserts, Keeper!keeperVars
  <2> QED BY <1>1, <1>4, <2>1, OperationKnows
<1> QED BY <1>2, <1>3, <1>4, WorkerActs

-----------------------------------------------------------------------------
(* The NetService and the driver.                                          *)
LEMMA ReadFrameKnows ==
  ASSUME ToldInv, NEW id \in DOMAIN mConns, ReadFrame(id), UNCHANGED outsideVars
  PROVE  Told' /\ (Asked => Asked')
<1> DEFINE c == mConns[id].socket
           e == Recv(id, Head(toServer[c]))
<1> USE DEF ToldInv, Told, Asked, IInv
<1>1. /\ toServer[c] # <<>> /\ mNetQueue' = Append(mNetQueue, e)
      /\ toServer' = [toServer EXCEPT ![c] = Tail(toServer[c])]
      /\ UNCHANGED <<mConns, mMaxID, backlog, toClient, mWorkerQueue, outsideVars>>
  BY DEF ReadFrame
<1>2. c \in Clients
  BY Sockets
<1>3. /\ DOMAIN toServer = Clients /\ Head(toServer[c]) \in Range(toServer[c])
      /\ Range(Tail(toServer[c])) \subseteq Range(toServer[c])
  BY <1>1, <1>2, TailOfQueue DEF ClientsOK
<1>4. /\ e.op = "OP_RECV" /\ e.conn = id
      /\ SendersKnown => KnownRoom(e.msg) /\ (NeedsUser(e.msg) => id \in DOMAIN mIdUser)
  BY <1>2, <1>3 DEF Recv, SendersKnown
<1> HIDE DEF c, e
<1>5. Range(mNetQueue') = Range(mNetQueue) \cup {e}
  BY <1>1, AppendToQueue DEF QueuesOK
<1>6. Accepted' = Accepted /\ Ids' = Ids
  BY <1>1, <1>4, <1>5 DEF Accepted, Accepts, Ids, outsideVars, clientVars
<1>7. \A d \in Clients : Range(toServer'[d]) \subseteq Range(toServer[d])
  BY <1>1, <1>2, <1>3
<1>8. ASSUME SendersKnown
      PROVE  SendersKnown'
  <2>1. \A x \in Range(mWorkerQueue') \cup Range(mNetQueue') :
          x.op = "OP_RECV" => /\ NeedsUser(x.msg) => x.conn \in DOMAIN mIdUser
                              /\ KnownRoom(x.msg)
    BY <1>1, <1>4, <1>5, <1>8 DEF SendersKnown
  <2>2. \A d \in Clients : \A m \in Range(toServer'[d]) : KnownRoom(m)
    BY <1>7, <1>8 DEF SendersKnown
  <2>3. \A u \in DOMAIN mConns' : \A m \in Range(toServer'[mConns'[u].socket]) :
          NeedsUser(m) => u \in DOMAIN mIdUser
    BY <1>1, <1>7, Sockets, <1>8 DEF SendersKnown
  <2> QED BY <1>1, <2>1, <2>2, <2>3 DEF SendersKnown, KnownRoom, outsideVars, keeperVars
<1>9. ToldAreKnown'
  BY <1>1, <1>4, <1>5, <1>6 DEF ToldAreKnown, outsideVars, keeperVars, clientVars
<1>10. StrangersSeeNothing' /\ (StrangersWait => StrangersWait')
  BY <1>1, <1>6, <1>7 DEF StrangersSeeNothing, StrangersWait, outsideVars, clientVars
<1>11. OneConnectionEach' /\ (LookupsSucceed => LookupsSucceed')
  BY <1>1, <1>6 DEF OneConnectionEach, LookupsSucceed, outsideVars, keeperVars
<1> QED BY <1>8, <1>9, <1>10, <1>11

LEMMA AcceptSocketKnows ==
  ASSUME ToldInv, NEW c \in Clients, AcceptSocket(c), UNCHANGED outsideVars
  PROVE  Told' /\ (Asked => Asked')
<1> USE DEF ToldInv, IInv, outsideVars
<1>1. /\ c \in backlog /\ backlog' = backlog \ {c} /\ mNetQueue' = Append(mNetQueue, Accept(c))
      /\ UNCHANGED <<mConns, mMaxID, toServer, toClient, mWorkerQueue>>
  BY DEF AcceptSocket, wires
<1>2. Range(mNetQueue') = Range(mNetQueue) \cup {Accept(c)}
  BY <1>1, AppendToQueue DEF QueuesOK
<1>3. Accept(c).op = "OP_ACCEPT" /\ Accept(c).socket = c
  BY DEF Accept
<1>4. Accepted' = Accepted /\ Ids' = Ids
  <2>1. \A d : Accepts(mNetQueue', d) <=> Accepts(mNetQueue, d) \/ d = c
    BY <1>2, <1>3 DEF Accepts
  <2> QED BY <1>1, <2>1 DEF Accepted, Ids, clientVars
<1> QED BY <1>1, <1>2, <1>3, <1>4, NothingNewIsSaid DEF clientVars

LEMMA DropKnows ==
  ASSUME ToldInv, NEW id, mNetQueue' = Append(mNetQueue, Drop(id)),
         mConns' = mConns \/ Close(id), UNCHANGED <<mMaxID, backlog, wires, mWorkerQueue>>,
         UNCHANGED outsideVars
  PROVE  Told' /\ (Asked => Asked')
<1> USE DEF ToldInv, IInv, outsideVars
<1>1. Range(mNetQueue') = Range(mNetQueue) \cup {Drop(id)} /\ Drop(id).op = "OP_DROP"
  BY AppendToQueue DEF QueuesOK, Drop
<1>2. /\ DOMAIN mConns' = DOMAIN mConns
      /\ \A u \in DOMAIN mConns : mConns'[u].socket = mConns[u].socket
  BY DEF Close, ConnectionsOK
<1>3. Accepted' = Accepted /\ Ids' = Ids
  BY <1>1 DEF Accepted, Accepts, Ids, clientVars
<1> QED BY <1>1, <1>2, <1>3, NothingNewIsSaid DEF wires, clientVars

LEMMA DriverKnows ==
  ASSUME ToldInv, NEW c \in Clients, DriverAccept(c) \/ DriverRead(c)
  PROVE  Told' /\ (Asked => Asked')
<1>1. UNCHANGED outsideVars
  BY DEF DriverAccept, DriverRead, outsideVars
<1>2. CASE DriverAccept(c)
  BY <1>1, <1>2, AcceptSocketKnows DEF DriverAccept
<1>3. CASE DriverRead(c)
  <2>1. PICK id \in DOMAIN mConns : ReadFrame(id) \/ ReadEnd(id)
    BY <1>3 DEF DriverRead, ConnOf, ReadData
  <2>2. CASE ReadFrame(id)
    BY <1>1, <2>2, ReadFrameKnows
  <2>3. CASE ReadEnd(id)
    BY <1>1, <2>3, DropKnows DEF ReadEnd
  <2> QED BY <2>1, <2>2, <2>3
<1> QED BY <1>2, <1>3

LEMMA DriverLateKnows ==
  ASSUME ToldInv, DriverLate
  PROVE  Told' /\ (Asked => Asked')
<1>1. PICK id \in lateDrops : ReadNotOkay(id)
  BY DEF DriverLate
<1> QED BY <1>1, DropKnows DEF ReadNotOkay, DriverLate, outsideVars

(* A new connection: its client has not been told anything yet.            *)
LEMMA AcceptConnectionKnows ==
  ASSUME ToldInv, AcceptConnection, UNCHANGED outsideVars
  PROVE  Told' /\ (Asked => Asked')
<1> DEFINE h == Head(mNetQueue)
           c == h.socket
<1> USE DEF ToldInv, Told, Asked, IInv
<1>1. /\ mNetQueue # <<>> /\ h.op = "OP_ACCEPT" /\ mNetQueue' = Tail(mNetQueue)
      /\ mMaxID' = mMaxID + 1
      /\ DOMAIN mConns' = DOMAIN mConns \cup {mMaxID}
      /\ \A id \in DOMAIN mConns' :
           mConns'[id].socket = IF id = mMaxID THEN c ELSE mConns[id].socket
      /\ UNCHANGED <<backlog, toServer, toClient, mWorkerQueue, outsideVars>>
  BY DEF AcceptConnection, NextIs, NextConnId, wires
<1>2. /\ h \in Range(mNetQueue) /\ Range(mNetQueue) = {h} \cup Range(mNetQueue')
      /\ \A y \in Range(mNetQueue') : Before(mNetQueue, h, y)
  BY <1>1, TakenFromNet
<1>3. c \in Clients /\ phase[c] # "idle" /\ c \notin backlog
  BY <1>1, <1>2 DEF AcceptedOnce
<1> HIDE DEF h
<1>4. Accepted' = Accepted \cup {c} /\ c \notin Accepted
  <2>1. \A d : Accepts(mNetQueue, d) <=> Accepts(mNetQueue', d) \/ d = c
    BY <1>1, <1>2 DEF Accepts
  <2>2. ~Accepts(mNetQueue', c)
    BY <1>1, <1>2 DEF Accepts, AcceptedOnce
  <2> QED BY <1>1, <1>3, <2>1, <2>2 DEF Accepted, outsideVars, clientVars
<1> HIDE DEF c
<1>5. mMaxID \in Nat /\ Ids' = Ids \cup {mMaxID} /\ mMaxID \notin Ids /\ mMaxID \notin DOMAIN mConns
  BY <1>1 DEF ConnectionsOK, Ids
<1>6. /\ mCurrentRoom[c] = INVALID_ROOM_ID /\ toClient[c] = <<>>
      /\ StrangersWait => \A m \in Range(toServer[c]) : ~NeedsUser(m)
  BY <1>3, <1>4 DEF StrangersSeeNothing, StrangersWait
<1>7. SendersKnown /\ StrangersWait => SendersKnown'
  BY <1>1, <1>2, <1>5, <1>6 DEF SendersKnown, KnownRoom, outsideVars, keeperVars
<1>8. ToldAreKnown'
  <2>1. \A x \in Range(mWorkerQueue') \cup Range(mNetQueue') :
          x.op = "OP_SEND" /\ TellsRoom(x.msg) =>
            x.conn \in Ids' /\ (x.conn \in DOMAIN mConns' => x.conn \in DOMAIN mIdUser)
    BY <1>1, <1>2, <1>5 DEF ToldAreKnown
  <2>2. \A u \in DOMAIN mConns' :
          /\ \A m \in Range(toClient[mConns'[u].socket]) : TellsRoom(m) => u \in DOMAIN mIdUser
          /\ mCurrentRoom[mConns'[u].socket] # INVALID_ROOM_ID => u \in DOMAIN mIdUser
    BY <1>1, <1>5, <1>6, EmptyQueue DEF ToldAreKnown
  <2> QED BY <1>1, <2>1, <2>2 DEF ToldAreKnown, outsideVars, keeperVars, clientVars
<1>9. StrangersSeeNothing' /\ (StrangersWait => StrangersWait')
  BY <1>1, <1>4 DEF StrangersSeeNothing, StrangersWait, outsideVars, clientVars
<1>10. OneConnectionEach' /\ (LookupsSucceed => LookupsSucceed')
  BY <1>1, <1>4, <1>5 DEF OneConnectionEach, LookupsSucceed, outsideVars, keeperVars
<1> QED BY <1>7, <1>8, <1>9, <1>10

LEMMA SendWrittenKnows ==
  ASSUME ToldInv, SendWritten, UNCHANGED outsideVars
  PROVE  Told' /\ (Asked => Asked')
<1> DEFINE h == Head(mNetQueue)
           id == h.conn
           c == mConns[id].socket
<1> USE DEF ToldInv, Told, Asked, IInv
<1>1. /\ mNetQueue # <<>> /\ h.op = "OP_SEND" /\ id \in DOMAIN mConns
      /\ mNetQueue' = Tail(mNetQueue)
      /\ toClient' \in {toClient, [toClient EXCEPT ![c] = Append(toClient[c], h.msg)]}
      /\ UNCHANGED <<mConns, mMaxID, backlog, toServer, mWorkerQueue, outsideVars>>
  BY DEF SendWritten, NextIs, Writable
<1>2. h \in Range(mNetQueue) /\ Range(mNetQueue) = {h} \cup Range(mNetQueue')
  BY <1>1, TakenFromNet
<1>3. /\ c \in Clients /\ c \in Accepted /\ DOMAIN toClient = Clients
      /\ \A u \in DOMAIN mConns : mConns[u].socket = c => u = id
      /\ \A u \in DOMAIN mConns : mConns[u].socket \in Clients
  BY <1>1, Sockets DEF OneConnectionEach, ClientsOK
<1>4. TellsRoom(h.msg) => id \in DOMAIN mIdUser
  BY <1>1, <1>2 DEF ToldAreKnown
<1> HIDE DEF h, id, c
<1>5. Accepted' = Accepted /\ Ids' = Ids
  BY <1>1, <1>2 DEF Accepted, Accepts, Ids, outsideVars, clientVars
<1>6. /\ \A d \in Clients \ {c} : toClient'[d] = toClient[d]
      /\ Range(toClient'[c]) \subseteq Range(toClient[c]) \cup {h.msg}
  <2>1. Range(Append(toClient[c], h.msg)) = Range(toClient[c]) \cup {h.msg}
    BY <1>3, AppendToQueue DEF ClientsOK
  <2> QED BY <1>1, <1>3, <2>1
<1>7. SendersKnown => SendersKnown'
  BY <1>1, <1>2 DEF SendersKnown, KnownRoom, outsideVars, keeperVars
<1>8. ToldAreKnown'
  <2>1. \A x \in Range(mWorkerQueue') \cup Range(mNetQueue') :
          x.op = "OP_SEND" /\ TellsRoom(x.msg) =>
            x.conn \in Ids /\ (x.conn \in DOMAIN mConns => x.conn \in DOMAIN mIdUser)
    BY <1>1, <1>2 DEF ToldAreKnown
  <2>2. ASSUME NEW u \in DOMAIN mConns, NEW m \in Range(toClient'[mConns[u].socket]), TellsRoom(m)
        PROVE  u \in DOMAIN mIdUser
    <3>1. CASE u = id
      BY <1>3, <1>4, <1>6, <2>2, <3>1 DEF ToldAreKnown, c
    <3>2. CASE u # id
      BY <1>3, <1>6, <2>2, <3>2 DEF ToldAreKnown
    <3> QED BY <3>1, <3>2
  <2> QED BY <1>1, <1>5, <2>1, <2>2 DEF ToldAreKnown, outsideVars, keeperVars, clientVars
<1>9. StrangersSeeNothing' /\ (StrangersWait => StrangersWait')
  BY <1>1, <1>3, <1>5, <1>6 DEF StrangersSeeNothing, StrangersWait, outsideVars, clientVars
<1>10. OneConnectionEach' /\ (LookupsSucceed => LookupsSucceed')
  BY <1>1, <1>5 DEF OneConnectionEach, LookupsSucceed, outsideVars, keeperVars
<1> QED BY <1>7, <1>8, <1>9, <1>10

LEMMA NetStepKnows ==
  ASSUME ToldInv, NetStep
  PROVE  Told' /\ (Asked => Asked')
<1> DEFINE h == Head(mNetQueue)
           t == Tail(mNetQueue)
<1> USE DEF ToldInv, IInv
<1>1. UNCHANGED outsideVars
  BY DEF NetStep, outsideVars
<1>2. CASE AcceptConnection
  BY <1>1, <1>2, AcceptConnectionKnows
<1>3. CASE SendWritten
  BY <1>1, <1>3, SendWrittenKnows
<1>4. CASE SendKills
  <2>1. UNCHANGED <<mConns, mMaxID, backlog, wires, mWorkerQueue, mNetQueue, outsideVars>>
    BY <1>1, <1>4 DEF SendKills, queues
  <2>2. Accepted' = Accepted /\ Ids' = Ids
    BY <2>1 DEF Accepted, Accepts, Ids, outsideVars, clientVars
  <2> QED BY <2>1, <2>2, NothingNewIsSaid DEF wires, outsideVars, clientVars
<1>5. CASE ForwardRecv \/ SendDiscarded \/ SendFails \/ DropConnection
  <2>1. /\ mNetQueue # <<>> /\ h.op # "OP_ACCEPT"
        /\ UNCHANGED <<mMaxID, backlog, toClient, outsideVars>>
        /\ toServer' = toServer \/ \E c : toServer' = [toServer EXCEPT ![c] = <<>>]
    BY <1>1, <1>5 DEF ForwardRecv, SendDiscarded, SendFails, DropConnection, NextIs, netVars, wires
  <2>2. h \in Range(mNetQueue) /\ IsQueue(t) /\ Range(mNetQueue) = {h} \cup Range(t)
    BY <2>1, TakenFromNet
  <2>3. /\ DOMAIN mConns' \subseteq DOMAIN mConns
        /\ \A u \in DOMAIN mConns' : mConns'[u].socket = mConns[u].socket
    BY <1>5 DEF ForwardRecv, SendDiscarded, SendFails, DropConnection, netVars, Close, Restrict,
                ConnectionsOK
  <2>4. /\ mNetQueue' = t \/ \E id : mNetQueue' = Append(t, Drop(id))
        /\ \/ mWorkerQueue' = mWorkerQueue
           \/ mWorkerQueue' = Append(mWorkerQueue, h)
           \/ \E id : mWorkerQueue' = Append(mWorkerQueue, Drop(id))
    BY <1>5 DEF ForwardRecv, SendDiscarded, SendFails, DropConnection
  <2> HIDE DEF h, t
  <2>5. \A id : Drop(id).op = "OP_DROP"
    BY DEF Drop
  <2>6. /\ Range(t) \subseteq Range(mNetQueue')
        /\ \A x \in Range(mNetQueue') : x \in Range(t) \/ x.op = "OP_DROP"
    <3>1. ASSUME NEW id, mNetQueue' = Append(t, Drop(id))
          PROVE  Range(mNetQueue') = Range(t) \cup {Drop(id)}
      BY <2>2, <3>1, AppendToQueue
    <3>2. CASE mNetQueue' = t
      BY <3>2
    <3> QED BY <2>4, <2>5, <3>1, <3>2
  <2>7. \A x \in Range(mWorkerQueue') : x \in Range(mWorkerQueue) \/ x = h \/ x.op = "OP_DROP"
    <3>1. ASSUME NEW e, mWorkerQueue' = Append(mWorkerQueue, e)
          PROVE  Range(mWorkerQueue') = Range(mWorkerQueue) \cup {e}
      BY <3>1, AppendToQueue DEF QueuesOK
    <3>2. CASE mWorkerQueue' = mWorkerQueue
      BY <3>2
    <3> QED BY <2>4, <2>5, <3>1, <3>2
  <2>8. Accepted' = Accepted /\ Ids' = Ids
    <3>1. \A d : Accepts(mNetQueue', d) <=> Accepts(mNetQueue, d)
      BY <2>1, <2>2, <2>6 DEF Accepts
    <3> QED BY <2>1, <3>1 DEF Accepted, Ids, outsideVars, clientVars
  <2>9. \A c \in Clients : Range(toServer'[c]) \subseteq Range(toServer[c])
    <3>1. \A c \in Clients : toServer'[c] \in {toServer[c], <<>>}
      BY <2>1 DEF ClientsOK
    <3> QED BY <3>1, EmptyQueue
  <2> QED BY <2>1, <2>2, <2>3, <2>6, <2>7, <2>8, <2>9, NothingNewIsSaid DEF outsideVars, clientVars
<1> QED BY <1>2, <1>3, <1>4, <1>5 DEF NetStep, NetProcess, SendMsg

-----------------------------------------------------------------------------
LEMMA StepKnows == ToldInv /\ [Next]_vars => Told' /\ (PatientUsers /\ Asked => Asked')
<1> SUFFICES ASSUME ToldInv, [Next]_vars
             PROVE  Told' /\ (PatientUsers /\ Asked => Asked')
  OBVIOUS
<1>1. CASE WorkerStep \/ NetStep \/ DriverLate
  BY <1>1, WorkerStepKnows, NetStepKnows, DriverLateKnows
<1>2. ASSUME NEW c \in Clients, DriverAccept(c) \/ DriverRead(c)
      PROVE  Told' /\ (PatientUsers /\ Asked => Asked')
  BY <1>2, DriverKnows
<1>3. ASSUME NEW c \in Clients, NEW n \in UserNames, StartClient(c, n)
      PROVE  Told' /\ (PatientUsers /\ Asked => Asked')
  BY <1>3, StartKnows
<1>4. ASSUME NEW c \in Clients, TypeInput(c) \/ Exit(c) \/ RecvFromServer(c)
      PROVE  Told' /\ (PatientUsers /\ Asked => Asked')
  BY <1>4, InputKnows, ExitKnows, ReceptionKnows
<1>5. CASE UNCHANGED vars
  <2>1. Accepted' = Accepted /\ Ids' = Ids
    BY <1>5 DEF vars, Accepted, Accepts, Ids, queues, netVars, clientVars
  <2> QED BY <1>5, <2>1, NothingNewIsSaid DEF vars, queues, netVars, clientVars
<1> QED BY <1>1, <1>2, <1>3, <1>4, <1>5 DEF Next

(* No message makes the server look up a sender or a room it does not      *)
(* know, if its users see a room before they type.                         *)
THEOREM LookupsAlwaysSucceed == PatientUsers => (Spec => []LookupsSucceed)
<1> SUFFICES ASSUME PatientUsers
             PROVE  Spec => []LookupsSucceed
  OBVIOUS
<1>1. Init => ToldInv /\ Asked
  BY InitIInv, InitKnows DEF ToldInv
<1>2. ToldInv /\ Asked /\ [Next]_vars => (ToldInv /\ Asked)'
  BY StepIInv, StepKnows DEF ToldInv
<1>3. Asked => LookupsSucceed
  BY DEF Asked
<1> QED BY <1>1, <1>2, <1>3, PTL DEF Spec

-----------------------------------------------------------------------------
(* What the clients show: the room their user is in, its members, the list *)
(* of rooms, and each chat message while its room shows.                   *)
(*                                                                         *)
(* What is under way to a client passes three queues: its socket, the      *)
(* NetService's and the Worker's.  The proof reckons with what a stretch   *)
(* of queue, read by a client that shows v, makes it show (After), and     *)
(* whether each chat in it meets its room (Fits).  Both compose, so a      *)
(* context that moves from the head of one queue to the end of the next    *)
(* changes nothing; what an operation enqueues (Informs) takes a client    *)
(* that shows how the registry was to one that shows how it is.            *)

(* The last context of a queue that tells a client something.              *)
LEMMA LastOfSome ==
  ASSUME NEW n \in Nat, NEW S \in SUBSET (1 .. n), S # {}
  PROVE  Max(S) \in S /\ \A i \in S : i <= Max(S)
<1> DEFINE T == {n - i : i \in S}
<1>1. T \subseteq Nat /\ T # {}
  <2>1. \A i \in S : n - i \in Nat
    OBVIOUS
  <2>2. PICK i \in S : TRUE
    OBVIOUS
  <2> QED BY <2>1, <2>2
<1>2. PICK x \in T : \A y \in T : <<y, x>> \notin OpToRel(<, Nat)
  BY <1>1, NatLessThanWellFounded, WFMin
<1>3. \A y \in T : ~(y < x)
  BY <1>1, <1>2 DEF OpToRel
<1>4. PICK m \in S : x = n - m
  OBVIOUS
<1>5. \A i \in S : n - i \in T /\ i \in Nat
  OBVIOUS
<1> HIDE DEF T
<1>6. \A i \in S : m >= i
  <2> TAKE i \in S
  <2>1. ~(n - i < n - m)
    BY <1>3, <1>4, <1>5
  <2> QED BY <1>5, <2>1
<1>7. Max(S) \in S /\ \A i \in S : Max(S) >= i
  BY <1>6 DEF Max
<1> QED BY <1>5, <1>7

(* Nobody tells client id a message of a type; the i-th context is the last *)
(* of the first n to do so.                                                *)
Silent(q, n, id, type) == \A i \in 1 .. n : ~Tells(q[i], id, type)
IsLast(q, n, id, type, i) ==
  Tells(q[i], id, type) /\ \A j \in 1 .. n : Tells(q[j], id, type) => j <= i

LEMMA LastToldIs ==
  ASSUME NEW q, NEW n \in Nat, NEW id, NEW v
  PROVE  /\ Silent(q, n, id, v.type) => LastTold(q, n, id, v) = v
         /\ \A i \in 1 .. n : IsLast(q, n, id, v.type, i) => LastTold(q, n, id, v) = q[i].msg
         /\ Silent(q, n, id, v.type) \/ \E i \in 1 .. n : IsLast(q, n, id, v.type, i)
<1> DEFINE tells(i) == Tells(q[i], id, v.type)
           told == {i \in 1 .. n : tells(i)}
<1>1. LastTold(q, n, id, v) = IF told = {} THEN v ELSE q[Max(told)].msg
  BY DEF LastTold
<1>2. told \subseteq 1 .. n /\ \A i \in told : i \in Nat
  OBVIOUS
<1>3. told = {} <=> Silent(q, n, id, v.type)
  BY DEF Silent
<1>4. \A i \in 1 .. n : IsLast(q, n, id, v.type, i) <=> i \in told /\ \A j \in told : j <= i
  BY DEF IsLast
<1> HIDE DEF told
<1>5. PICK m : m = Max(told) /\ (told # {} => m \in told /\ \A i \in told : i <= m)
  BY <1>2, LastOfSome
<1>6. ASSUME NEW i \in 1 .. n, IsLast(q, n, id, v.type, i)
      PROVE  LastTold(q, n, id, v) = q[i].msg
  <2>1. i \in told /\ \A j \in told : j <= i
    BY <1>4, <1>6
  <2>2. m \in told /\ i <= m /\ m <= i
    BY <1>5, <2>1
  <2>3. Max(told) = i
    BY <1>2, <1>5, <2>1, <2>2
  <2> QED BY <1>1, <2>1, <2>3
<1>7. told # {} => \E i \in 1 .. n : IsLast(q, n, id, v.type, i)
  <2> SUFFICES ASSUME told # {}
               PROVE  m \in 1 .. n /\ IsLast(q, n, id, v.type, m)
    OBVIOUS
  <2> QED BY <1>2, <1>4, <1>5
<1> QED BY <1>1, <1>3, <1>6, <1>7

(* Positions in one queue behind another.                                  *)
LEMMA PositionsInTurn ==
  ASSUME NEW q, NEW s, IsQueue(q), IsQueue(s)
  PROVE  /\ Len(q) \in Nat /\ Len(s) \in Nat
         /\ Len(q \o s) = Len(q) + Len(s)
         /\ DOMAIN (q \o s) = 1 .. Len(q) + Len(s)
         /\ \A i \in 1 .. Len(q) : (q \o s)[i] = q[i]
         /\ \A i \in 1 .. Len(s) : (q \o s)[Len(q) + i] = s[i]
<1> DEFINE S == Range(q) \cup Range(s)
<1>1. q \in Seq(S) /\ s \in Seq(S)
  BY SeqMonotonic DEF IsQueue
<1>2. Len(q) \in Nat /\ Len(s) \in Nat
  BY QueueDomain
<1>3. /\ q \o s \in Seq(S) /\ Len(q \o s) = Len(q) + Len(s)
      /\ \A i \in 1 .. Len(q) + Len(s) :
           (q \o s)[i] = IF i <= Len(q) THEN q[i] ELSE s[i - Len(q)]
  BY <1>1, ConcatProperties
<1>4. DOMAIN (q \o s) = 1 .. Len(q) + Len(s)
  BY <1>3, LenProperties
<1> HIDE DEF S
<1>5. /\ \A i \in 1 .. Len(q) : i \in 1 .. Len(q) + Len(s) /\ i <= Len(q)
      /\ \A i \in 1 .. Len(s) : /\ Len(q) + i \in 1 .. Len(q) + Len(s)
                                /\ ~(Len(q) + i <= Len(q)) /\ (Len(q) + i) - Len(q) = i
  BY <1>2
<1> QED BY <1>2, <1>3, <1>4, <1>5

(* What a client that shows v shows when a whole queue has reached it.     *)
After(q, id, v) == LastTold(q, Len(q), id, v)

LEMMA ToldKeepsType ==
  ASSUME NEW q, NEW n \in Nat, NEW id, NEW v
  PROVE  LastTold(q, n, id, v).type = v.type
  BY LastToldIs DEF IsLast, Tells

(* The first n contexts of one queue behind another tell what those of the *)
(* first queue tell, and then those of the second.                         *)
LEMMA ToldInTurn ==
  ASSUME NEW q, NEW s, IsQueue(q), IsQueue(s), NEW id, NEW v
  PROVE  /\ \A n \in 0 .. Len(q) : LastTold(q \o s, n, id, v) = LastTold(q, n, id, v)
         /\ \A n \in 0 .. Len(s) :
              LastTold(q \o s, Len(q) + n, id, v) = LastTold(s, n, id, After(q, id, v))
         /\ After(q \o s, id, v) = After(s, id, After(q, id, v))
<1> DEFINE c == q \o s
           k == Len(q)
           w == After(q, id, v)
           type == v.type
<1>1. /\ k \in Nat /\ Len(s) \in Nat /\ Len(c) = k + Len(s)
      /\ \A i \in 1 .. k : c[i] = q[i]
      /\ \A i \in 1 .. Len(s) : c[k + i] = s[i]
  BY PositionsInTurn
<1>2. w.type = type
  BY <1>1, ToldKeepsType DEF After
<1> HIDE DEF c, k, w
<1>3. ASSUME NEW n \in 0 .. k
      PROVE  LastTold(c, n, id, v) = LastTold(q, n, id, v)
  <2>1. n \in Nat /\ \A i \in 1 .. n : c[i] = q[i]
    BY <1>1
  <2>2. /\ Silent(c, n, id, type) <=> Silent(q, n, id, type)
        /\ \A i \in 1 .. n : IsLast(c, n, id, type, i) <=> IsLast(q, n, id, type, i)
    BY <2>1 DEF Silent, IsLast
  <2>3. CASE Silent(q, n, id, type)
    BY <2>1, <2>2, <2>3, LastToldIs
  <2>4. ASSUME NEW i \in 1 .. n, IsLast(q, n, id, type, i)
        PROVE  LastTold(c, n, id, v) = LastTold(q, n, id, v)
    BY <2>1, <2>2, <2>4, LastToldIs
  <2> QED BY <2>1, <2>3, <2>4, LastToldIs
<1>4. ASSUME NEW n \in 0 .. Len(s)
      PROVE  LastTold(c, k + n, id, v) = LastTold(s, n, id, w)
  <2>1. n \in Nat /\ k + n \in Nat
    BY <1>1
  <2>2. \A i \in 1 .. n : k + i \in 1 .. k + n /\ c[k + i] = s[i]
    BY <1>1
  <2>3. \A j \in 1 .. k + n : j \in 1 .. k \/ \E i \in 1 .. n : j = k + i
    <3> TAKE j \in 1 .. k + n
    <3>1. CASE j > k
      <4>1. j - k \in 1 .. n /\ j = k + (j - k)
        BY <1>1, <3>1
      <4> QED BY <4>1
    <3> QED BY <1>1, <3>1
  <2>4. ASSUME NEW i \in 1 .. n, IsLast(s, n, id, type, i)
        PROVE  LastTold(c, k + n, id, v) = LastTold(s, n, id, w)
    <3>1. Tells(c[k + i], id, type)
      BY <2>2, <2>4 DEF IsLast
    <3>2. ASSUME NEW j \in 1 .. k + n, Tells(c[j], id, type)
          PROVE  j <= k + i
      <4>1. CASE j \in 1 .. k
        BY <1>1, <4>1
      <4>2. ASSUME NEW l \in 1 .. n, j = k + l
            PROVE  j <= k + i
        <5>1. Tells(s[l], id, type)
          BY <2>2, <3>2, <4>2
        <5>2. l <= i
          BY <2>4, <5>1 DEF IsLast
        <5> QED BY <1>1, <4>2, <5>2
      <4> QED BY <2>3, <4>1, <4>2
    <3>3. IsLast(c, k + n, id, type, k + i)
      BY <3>1, <3>2 DEF IsLast
    <3>4. LastTold(c, k + n, id, v) = c[k + i].msg
      BY <2>1, <2>2, <3>3, LastToldIs DEF type
    <3>5. LastTold(s, n, id, w) = s[i].msg
      <4>1. IsLast(s, n, id, w.type, i)
        BY <1>2, <2>4
      <4> QED BY <2>1, <4>1, LastToldIs
    <3> QED BY <2>2, <3>4, <3>5
  <2>5. ASSUME Silent(s, n, id, type)
        PROVE  LastTold(c, k + n, id, v) = LastTold(s, n, id, w)
    <3>1. LastTold(s, n, id, w) = w
      BY <1>2, <2>1, <2>5, LastToldIs
    <3>2. \A j \in 1 .. k + n : Tells(c[j], id, type) => j \in 1 .. k
      BY <2>2, <2>3, <2>5 DEF Silent
    <3>3. \A j \in 1 .. k : j \in 1 .. k + n
      BY <1>1, <2>1
    <3>4. CASE Silent(q, k, id, type)
      <4>1. Silent(c, k + n, id, type)
        BY <1>1, <3>2, <3>4 DEF Silent
      <4> QED BY <1>1, <2>1, <3>1, <3>4, <4>1, LastToldIs DEF w, k, After
    <3>5. ASSUME NEW i \in 1 .. k, IsLast(q, k, id, type, i)
          PROVE  LastTold(c, k + n, id, v) = w
      <4>1. IsLast(c, k + n, id, type, i)
        <5>1. Tells(c[i], id, type)
          BY <1>1, <3>5 DEF IsLast
        <5>2. ASSUME NEW j \in 1 .. k + n, Tells(c[j], id, type)
              PROVE  j <= i
          <6>1. j \in 1 .. k /\ Tells(q[j], id, type)
            BY <1>1, <3>2, <5>2
          <6> QED BY <3>5, <6>1 DEF IsLast
        <5> QED BY <5>1, <5>2 DEF IsLast
      <4>2. LastTold(c, k + n, id, v) = c[i].msg
        BY <2>1, <3>3, <4>1, LastToldIs
      <4>3. w = q[i].msg
        BY <1>1, <3>5, LastToldIs DEF w, k, After
      <4> QED BY <1>1, <4>2, <4>3
    <3> QED BY <1>1, <3>1, <3>4, <3>5, LastToldIs
  <2> QED BY <1>2, <2>1, <2>4, <2>5, LastToldIs
<1>5. After(c, id, v) = After(s, id, w)
  BY <1>1, <1>4 DEF After
<1> QED BY <1>3, <1>4, <1>5 DEF c, k, w

-----------------------------------------------------------------------------
(* A chat message finds its room shown when it arrives.                    *)
Fits(q, id, v) ==
  \A n \in DOMAIN q :
    Tells(q[n], id, "s2c_room_chat_msg") => q[n].msg.room = LastTold(q, n - 1, id, v).room

LEMMA FitsInTurn ==
  ASSUME NEW q, NEW s, IsQueue(q), IsQueue(s), NEW id, NEW v
  PROVE  Fits(q \o s, id, v) <=> Fits(q, id, v) /\ Fits(s, id, After(q, id, v))
<1> DEFINE c == q \o s
           k == Len(q)
           l == Len(s)
           w == After(q, id, v)
           fits(ctx, shown) == Tells(ctx, id, "s2c_room_chat_msg") => ctx.msg.room = shown.room
<1>1. /\ k \in Nat /\ l \in Nat /\ DOMAIN c = 1 .. k + l
      /\ DOMAIN q = 1 .. k /\ DOMAIN s = 1 .. l
      /\ \A i \in 1 .. k : c[i] = q[i]
      /\ \A i \in 1 .. l : c[k + i] = s[i]
  BY PositionsInTurn, QueueDomain
<1>2. /\ \A n \in 0 .. k : LastTold(c, n, id, v) = LastTold(q, n, id, v)
      /\ \A n \in 0 .. l : LastTold(c, k + n, id, v) = LastTold(s, n, id, w)
  BY ToldInTurn
<1>3. /\ Fits(q, id, v) <=> \A n \in 1 .. k : fits(q[n], LastTold(q, n - 1, id, v))
      /\ Fits(s, id, w) <=> \A n \in 1 .. l : fits(s[n], LastTold(s, n - 1, id, w))
      /\ Fits(c, id, v) <=> \A n \in 1 .. k + l : fits(c[n], LastTold(c, n - 1, id, v))
  BY <1>1 DEF Fits
<1> HIDE DEF c, k, l, w, fits
<1>4. \A n \in 1 .. k : /\ n \in 1 .. k + l /\ n - 1 \in 0 .. k
                        /\ fits(c[n], LastTold(c, n - 1, id, v))
                             <=> fits(q[n], LastTold(q, n - 1, id, v))
  <2> TAKE n \in 1 .. k
  <2>1. n \in 1 .. k + l /\ n - 1 \in 0 .. k
    BY <1>1
  <2> QED BY <1>1, <1>2, <2>1
<1>5. \A n \in 1 .. l : /\ k + n \in 1 .. k + l
                        /\ fits(c[k + n], LastTold(c, (k + n) - 1, id, v))
                             <=> fits(s[n], LastTold(s, n - 1, id, w))
  <2> TAKE n \in 1 .. l
  <2>1. k + n \in 1 .. k + l /\ n - 1 \in 0 .. l /\ (k + n) - 1 = k + (n - 1)
    BY <1>1
  <2> QED BY <1>1, <1>2, <2>1
<1>6. \A j \in 1 .. k + l : j \in 1 .. k \/ \E i \in 1 .. l : j = k + i
  <2> TAKE j \in 1 .. k + l
  <2>1. CASE j > k
    <3>1. j - k \in 1 .. l /\ j = k + (j - k)
      BY <1>1, <2>1
    <3> QED BY <3>1
  <2> QED BY <1>1, <2>1
<1>7. (\A n \in 1 .. k + l : fits(c[n], LastTold(c, n - 1, id, v)))
        <=> /\ \A n \in 1 .. k : fits(c[n], LastTold(c, n - 1, id, v))
            /\ \A n \in 1 .. l : fits(c[k + n], LastTold(c, (k + n) - 1, id, v))
  BY <1>4, <1>5, <1>6
<1> QED BY <1>3, <1>4, <1>5, <1>7 DEF c, w

-----------------------------------------------------------------------------
(* What a queue tells, from who is told what in it.                        *)
LEMMA NobodyIsTold ==
  ASSUME NEW q, IsQueue(q), NEW id, NEW v, \A x \in Range(q) : ~Tells(x, id, v.type)
  PROVE  After(q, id, v) = v /\ \A n \in 0 .. Len(q) : LastTold(q, n, id, v) = v
<1>1. Len(q) \in Nat /\ DOMAIN q = 1 .. Len(q)
  BY QueueDomain
<1>2. \A n \in 0 .. Len(q) : n \in Nat /\ Silent(q, n, id, v.type)
  BY <1>1 DEF Range, Silent
<1>3. \A n \in 0 .. Len(q) : LastTold(q, n, id, v) = v
  BY <1>2, LastToldIs
<1> QED BY <1>1, <1>3 DEF After

LEMMA AllAreTold ==
  ASSUME NEW q, IsQueue(q), NEW id, NEW v, NEW msg,
         \E x \in Range(q) : Tells(x, id, v.type),
         \A x \in Range(q) : Tells(x, id, v.type) => x.msg = msg
  PROVE  After(q, id, v) = msg
<1>1. Len(q) \in Nat /\ DOMAIN q = 1 .. Len(q)
  BY QueueDomain
<1>2. ~Silent(q, Len(q), id, v.type)
  BY <1>1 DEF Range, Silent
<1>3. PICK i \in 1 .. Len(q) : IsLast(q, Len(q), id, v.type, i)
  BY <1>1, <1>2, LastToldIs
<1>4. After(q, id, v) = q[i].msg
  BY <1>1, <1>3, LastToldIs DEF After
<1>5. q[i] \in Range(q) /\ Tells(q[i], id, v.type)
  BY <1>1, <1>3 DEF Range, IsLast
<1> QED BY <1>4, <1>5

LEMMA NoChatFits ==
  ASSUME NEW q, NEW id, NEW v,
         \A x \in Range(q) : ~Tells(x, id, "s2c_room_chat_msg")
  PROVE  Fits(q, id, v)
  BY DEF Fits, Range

LEMMA ChatsFit ==
  ASSUME NEW q, IsQueue(q), NEW id, NEW v, \A x \in Range(q) : ~Tells(x, id, v.type),
         \A x \in Range(q) : Tells(x, id, "s2c_room_chat_msg") => x.msg.room = v.room
  PROVE  Fits(q, id, v)
<1>1. Len(q) \in Nat /\ DOMAIN q = 1 .. Len(q)
  BY QueueDomain
<1>2. \A n \in DOMAIN q : n - 1 \in 0 .. Len(q) /\ q[n] \in Range(q)
  BY <1>1 DEF Range
<1> QED BY <1>2, NobodyIsTold DEF Fits

(* One context.                                                            *)
LEMMA OneTells ==
  ASSUME NEW e, NEW id, NEW v
  PROVE  /\ IsQueue(<<e>>)
         /\ After(<<e>>, id, v) = IF Tells(e, id, v.type) THEN e.msg ELSE v
         /\ Fits(<<e>>, id, v)
              <=> (Tells(e, id, "s2c_room_chat_msg") => e.msg.room = v.room)
<1>1. IsQueue(<<e>>) /\ Range(<<e>>) = {e} /\ Len(<<e>>) = 1 /\ <<e>>[1] = e
  BY SingleQueue
<1>2. After(<<e>>, id, v) = IF Tells(e, id, v.type) THEN e.msg ELSE v
  <2>1. CASE Tells(e, id, v.type)
    <3> DEFINE q == <<e>>
            msg == e.msg
    <3>1. IsQueue(q) /\ Range(q) = {e}
      BY <1>1
    <3> HIDE DEF q
    <3>2. \E x \in Range(q) : Tells(x, id, v.type)
      BY <3>1, <2>1
    <3>3. \A x \in Range(q) : Tells(x, id, v.type) => x.msg = msg
      BY <3>1
    <3> HIDE DEF msg
    <3>4. After(q, id, v) = msg
      BY <3>1, <3>2, <3>3, AllAreTold
    <3> QED BY <2>1, <3>4 DEF q, msg
  <2>2. CASE ~Tells(e, id, v.type)
    BY <1>1, <2>2, NobodyIsTold
  <2> QED BY <2>1, <2>2
<1>3. DOMAIN <<e>> = {1} /\ 1 - 1 = 0
  BY <1>1, QueueDomain
<1>4. LastTold(<<e>>, 0, id, v) = v
  <2>1. Silent(<<e>>, 0, id, v.type)
    BY DEF Silent
  <2> QED BY <2>1, LastToldIs
<1>5. Fits(<<e>>, id, v) <=> (Tells(e, id, "s2c_room_chat_msg") => e.msg.room = v.room)
  BY <1>1, <1>3, <1>4 DEF Fits
<1> QED BY <1>1, <1>2, <1>5

-----------------------------------------------------------------------------
(* Two stretches of queue that are the same news to a client.              *)
SameNews(q, s, id) ==
  \A v : After(q, id, v) = After(s, id, v) /\ (Fits(q, id, v) <=> Fits(s, id, v))

LEMMA AppendedNews ==
  ASSUME NEW q, IsQueue(q), NEW e, NEW id, NEW v
  PROVE  /\ After(Append(q, e), id, v) = After(<<e>>, id, After(q, id, v))
         /\ Fits(Append(q, e), id, v) <=> Fits(q, id, v) /\ Fits(<<e>>, id, After(q, id, v))
<1>1. Append(q, e) = q \o <<e>>
  <2>1. q \in Seq(Range(q) \cup {e})
    BY SeqMonotonic DEF IsQueue
  <2> QED BY <2>1, AppendIsConcat
<1> QED BY <1>1, SingleQueue, ToldInTurn, FitsInTurn

LEMMA HeadNews ==
  ASSUME NEW q, IsQueue(q), q # <<>>, NEW id, NEW v
  PROVE  /\ After(q, id, v) = After(Tail(q), id, After(<<Head(q)>>, id, v))
         /\ Fits(q, id, v) <=> /\ Fits(<<Head(q)>>, id, v)
                               /\ Fits(Tail(q), id, After(<<Head(q)>>, id, v))
<1>1. IsQueue(Tail(q)) /\ IsQueue(<<Head(q)>>)
  BY TailOfQueue, SingleQueue
<1>2. q = <<Head(q)>> \o Tail(q)
  <2>1. q \in Seq(Range(q)) /\ Head(q) \in Range(q) /\ Tail(q) \in Seq(Range(q))
    BY TailOfQueue, HeadTailProperties DEF IsQueue
  <2> QED BY <2>1, HeadTailProperties, ConcatProperties
<1>3. \A x : /\ After(<<Head(q)>> \o Tail(q), id, x) = After(Tail(q), id, After(<<Head(q)>>, id, x))
             /\ Fits(<<Head(q)>> \o Tail(q), id, x)
                  <=> /\ Fits(<<Head(q)>>, id, x)
                      /\ Fits(Tail(q), id, After(<<Head(q)>>, id, x))
  BY <1>1, ToldInTurn, FitsInTurn
<1> QED BY <1>2, <1>3

-----------------------------------------------------------------------------
(* What is written to a socket, as OnTheWay has it.                        *)
Written(q, id) == [i \in DOMAIN q |-> Send(id, q[i])]

LEMMA WrittenQueue ==
  ASSUME NEW q, IsQueue(q), NEW id
  PROVE  /\ IsQueue(Written(q, id))
         /\ Range(Written(q, id)) = {Send(id, m) : m \in Range(q)}
<1> DEFINE w == Written(q, id)
<1>1. Len(q) \in Nat /\ DOMAIN q = 1 .. Len(q)
  BY QueueDomain
<1>2. w = [i \in 1 .. Len(q) |-> Send(id, q[i])]
  BY <1>1 DEF Written
<1>3. Range(w) = {Send(id, m) : m \in Range(q)}
  BY <1>1, <1>2 DEF Range
<1> HIDE DEF w
<1>4. w \in [1 .. Len(q) -> Range(w)]
  BY <1>2 DEF Range
<1>5. w \in Seq(Range(w))
  BY <1>1, <1>4, SeqDef
<1> QED BY <1>3, <1>5 DEF w, IsQueue

LEMMA WrittenMore ==
  ASSUME NEW q, IsQueue(q), NEW id, NEW m
  PROVE  Written(Append(q, m), id) = Append(Written(q, id), Send(id, m))
<1> DEFINE k == Len(q)
           a == Append(q, m)
           b == Append(Written(q, id), Send(id, m))
<1>1. k \in Nat /\ DOMAIN q = 1 .. k
  BY QueueDomain
<1>2. q \in Seq(Range(q) \cup {m}) /\ m \in Range(q) \cup {m}
  BY SeqMonotonic DEF IsQueue
<1>3. DOMAIN a = 1 .. k + 1 /\ (\A i \in 1 .. k : a[i] = q[i]) /\ a[k + 1] = m
  <2>1. /\ a \in Seq(Range(q) \cup {m}) /\ Len(a) = k + 1
        /\ (\A i \in 1 .. k : a[i] = q[i]) /\ a[k + 1] = m
    BY <1>2, AppendProperties
  <2> QED BY <2>1, LenProperties
<1>4. /\ Written(q, id) \in Seq(Range(Written(q, id)) \cup {Send(id, m)})
      /\ Len(Written(q, id)) = k
  <2>1. Written(q, id) \in Seq(Range(Written(q, id)) \cup {Send(id, m)})
    BY WrittenQueue, SeqMonotonic DEF IsQueue
  <2>2. DOMAIN Written(q, id) = 1 .. k
    BY <1>1 DEF Written
  <2> QED BY <1>1, <2>1, <2>2, LenProperties
<1>5. /\ b \in Seq(Range(Written(q, id)) \cup {Send(id, m)}) /\ Len(b) = k + 1
      /\ (\A i \in 1 .. k : b[i] = Written(q, id)[i]) /\ b[k + 1] = Send(id, m)
  BY <1>4, AppendProperties
<1>6. b = [i \in 1 .. k + 1 |-> b[i]]
  BY <1>5, LenProperties
<1> HIDE DEF a, b, k
<1>7. \A i \in 1 .. k + 1 : b[i] = Send(id, a[i])
  <2> TAKE i \in 1 .. k + 1
  <2>1. CASE i = k + 1
    BY <1>3, <1>5, <2>1
  <2>2. CASE i \in 1 .. k
    BY <1>1, <1>3, <1>5, <2>2 DEF Written
  <2> QED BY <1>1, <2>1, <2>2
<1> QED BY <1>3, <1>6, <1>7 DEF Written, a, b

LEMMA WrittenHead ==
  ASSUME NEW q, IsQueue(q), q # <<>>, NEW id
  PROVE  /\ Written(q, id) # <<>>
         /\ Head(Written(q, id)) = Send(id, Head(q))
         /\ Tail(Written(q, id)) = Written(Tail(q), id)
<1> DEFINE k == Len(q)
           t == Tail(q)
           w == Written(q, id)
<1>1. k \in Nat /\ DOMAIN q = 1 .. k
  BY QueueDomain
<1>2. /\ Head(q) = q[1] /\ t \in Seq(Range(q)) /\ Len(t) = k - 1
      /\ \A i \in 1 .. Len(t) : t[i] = q[i + 1]
  BY HeadTailProperties DEF IsQueue
<1>3. k # 0
  BY EmptySeq DEF IsQueue
<1>4. DOMAIN t = 1 .. k - 1
  BY <1>2, LenProperties
<1>5. w \in Seq(Range(w)) /\ Len(w) = k /\ \A i \in 1 .. k : w[i] = Send(id, q[i])
  <2>1. w \in Seq(Range(w))
    BY WrittenQueue DEF IsQueue
  <2>2. DOMAIN w = 1 .. k /\ \A i \in 1 .. k : w[i] = Send(id, q[i])
    BY <1>1 DEF Written
  <2> HIDE DEF w, k
  <2> QED BY <1>1, <2>1, <2>2, LenProperties
<1> HIDE DEF w, k
<1>6. w # <<>>
  BY <1>3, <1>5, EmptySeq
<1>7. /\ Head(w) = w[1] /\ Tail(w) \in Seq(Range(w)) /\ Len(Tail(w)) = k - 1
      /\ \A i \in 1 .. Len(Tail(w)) : Tail(w)[i] = w[i + 1]
  BY <1>5, <1>6, HeadTailProperties
<1>8. Tail(w) = [i \in 1 .. k - 1 |-> Tail(w)[i]]
  BY <1>7, LenProperties
<1>9. 1 \in 1 .. k /\ \A i \in 1 .. k - 1 : i + 1 \in 1 .. k
  BY <1>1, <1>3
<1>10. \A i \in 1 .. k - 1 : Tail(w)[i] = Send(id, t[i])
  BY <1>2, <1>5, <1>7, <1>9 DEF k
<1> HIDE DEF t
<1>11. Written(t, id) = [i \in 1 .. k - 1 |-> Send(id, t[i])]
  BY <1>4 DEF Written
<1> QED BY <1>2, <1>5, <1>6, <1>7, <1>8, <1>9, <1>10, <1>11 DEF w, t

(* Three queues one behind the other.                                      *)
LEMMA NewsInStages ==
  ASSUME NEW q, NEW r, NEW s, IsQueue(q), IsQueue(r), IsQueue(s), NEW id, NEW v
  PROVE  /\ IsQueue(q \o r \o s)
         /\ After(q \o r \o s, id, v) = After(s, id, After(r, id, After(q, id, v)))
         /\ Fits(q \o r \o s, id, v)
              <=> /\ Fits(q, id, v)
                  /\ Fits(r, id, After(q, id, v))
                  /\ Fits(s, id, After(r, id, After(q, id, v)))
<1>1. IsQueue(q \o r) /\ IsQueue(q \o r \o s)
  BY ConcatOfQueues
<1>2. /\ After(q \o r, id, v) = After(r, id, After(q, id, v))
      /\ Fits(q \o r, id, v) <=> Fits(q, id, v) /\ Fits(r, id, After(q, id, v))
  BY ToldInTurn, FitsInTurn
<1>3. /\ After(q \o r \o s, id, v) = After(s, id, After(q \o r, id, v))
      /\ Fits(q \o r \o s, id, v) <=> Fits(q \o r, id, v) /\ Fits(s, id, After(q \o r, id, v))
  BY <1>1, ToldInTurn, FitsInTurn
<1> QED BY <1>1, <1>2, <1>3

-----------------------------------------------------------------------------
(* What the Worker's messages tell one user.                               *)
LEMMA AllTold ==
  ASSUME NEW users \in SUBSET Nat, IsFiniteSet(users), NEW msg, NEW id, NEW v
  PROVE  /\ IsQueue(SendToAll(users, msg))
         /\ After(SendToAll(users, msg), id, v)
              = IF id \in users /\ msg.type = v.type THEN msg ELSE v
         /\ msg.type # "s2c_room_chat_msg" => Fits(SendToAll(users, msg), id, v)
         /\ msg.type # v.type /\ (id \in users => msg.room = v.room)
              => Fits(SendToAll(users, msg), id, v)
<1> DEFINE q == SendToAll(users, msg)
<1>1. IsQueue(q) /\ Range(q) = {Send(u, msg) : u \in users}
  BY SendToAllSends
<1>2. \A u : Send(u, msg).op = "OP_SEND" /\ Send(u, msg).conn = u /\ Send(u, msg).msg = msg
  BY DEF Send
<1>3. \A type : \A x \in Range(q) : Tells(x, id, type) <=> x.conn = id /\ type = msg.type
  BY <1>1, <1>2 DEF Tells
<1>4. \A x \in Range(q) : x.msg = msg /\ x.conn \in users
  BY <1>1, <1>2
<1>5. id \in users => \E x \in Range(q) : x.conn = id
  BY <1>1, <1>2
<1> HIDE DEF q
<1>6. CASE id \in users /\ msg.type = v.type
  <2>1. \E x \in Range(q) : Tells(x, id, v.type)
    BY <1>3, <1>5, <1>6
  <2>2. After(q, id, v) = msg
    BY <1>1, <1>4, <2>1, AllAreTold
  <2>3. msg.type # "s2c_room_chat_msg" => Fits(q, id, v)
    BY <1>3, NoChatFits
  <2> QED BY <1>1, <1>6, <2>2, <2>3 DEF q
<1>7. CASE ~(id \in users /\ msg.type = v.type)
  <2>1. \A x \in Range(q) : ~Tells(x, id, v.type)
    BY <1>3, <1>4, <1>7
  <2>2. After(q, id, v) = v
    BY <1>1, <2>1, NobodyIsTold
  <2>3. msg.type # "s2c_room_chat_msg" => Fits(q, id, v)
    BY <1>3, NoChatFits
  <2>4. (id \in users => msg.room = v.room) => Fits(q, id, v)
    BY <1>1, <1>3, <1>4, <2>1, ChatsFit
  <2> QED BY <1>1, <1>7, <2>2, <2>3, <2>4 DEF q
<1> QED BY <1>6, <1>7

LEMMA AnswerTold ==
  ASSUME NEW u, NEW msg, NEW id, NEW v
  PROVE  /\ IsQueue(<<Send(u, msg)>>)
         /\ After(<<Send(u, msg)>>, id, v) = IF u = id /\ msg.type = v.type THEN msg ELSE v
         /\ msg.type # "s2c_room_chat_msg" => Fits(<<Send(u, msg)>>, id, v)
<1>1. \A type : Tells(Send(u, msg), id, type) <=> u = id /\ msg.type = type
  BY DEF Tells, Send
<1>2. Send(u, msg).msg = msg
  BY DEF Send
<1> QED BY <1>1, <1>2, OneTells

LEMMA NothingTold ==
  ASSUME NEW id, NEW v
  PROVE  IsQueue(<<>>) /\ After(<<>>, id, v) = v /\ Fits(<<>>, id, v)
  BY EmptyQueue, NobodyIsTold, NoChatFits

-----------------------------------------------------------------------------
(* Every user is in the one room its record names.                         *)
Housed(rooms, users) ==
  /\ Members(rooms, users)
  /\ \A u \in DOMAIN users : users[u].roomId \in DOMAIN rooms
  /\ \A r \in DOMAIN rooms, u \in DOMAIN users :
       u \in rooms[r].users <=> users[u].roomId = r

RoomOf(rooms, users, id) == RoomInfoMsg(rooms, users[id].roomId)

LEMMA RegistryHouses ==
  /\ KP!IInv => Housed(mIdRoom, mIdUser)
  /\ KP!IInv' => Housed(mIdRoom', mIdUser')
<1>1. KP!IInv => Housed(mIdRoom, mIdUser)
  BY RegistryMembers DEF Housed, Members, KP!IInv, KP!OneRoomEach
<1>2. KP!IInv' => Housed(mIdRoom', mIdUser')
  BY RegistryMembers DEF Housed, Members, KP!IInv, KP!OneRoomEach
<1> QED BY <1>1, <1>2

(* Publishing a room tells its members the room they are in.               *)
LEMMA RoomIsTold ==
  ASSUME NEW rooms, NEW users, Housed(rooms, users), IsFiniteSet(DOMAIN users),
         NEW r \in DOMAIN rooms, NEW id \in DOMAIN users, NEW v
  PROVE  /\ IsQueue(PublishRoomInfo(rooms, r))
         /\ After(PublishRoomInfo(rooms, r), id, v)
              = IF users[id].roomId = r /\ v.type = "s2c_room_info"
                THEN RoomOf(rooms, users, id) ELSE v
         /\ Fits(PublishRoomInfo(rooms, r), id, v)
<1> DEFINE S == rooms[r].users
           msg == RoomInfoMsg(rooms, r)
<1>1. S \subseteq DOMAIN users /\ S \subseteq UserIds /\ (id \in S <=> users[id].roomId = r)
  BY DEF Housed, Members
<1>2. S \in SUBSET Nat /\ IsFiniteSet(S)
  BY <1>1, FS_Subset, RegistryAssumption
<1>3. msg.type = "s2c_room_info"
  BY DEF RoomInfoMsg
<1>4. users[id].roomId = r => msg = RoomOf(rooms, users, id)
  BY DEF RoomOf
<1>5. PublishRoomInfo(rooms, r) = SendToAll(S, msg)
  BY DEF PublishRoomInfo
<1> HIDE DEF S, msg
<1> QED BY <1>1, <1>2, <1>3, <1>4, <1>5, AllTold

(* Publishing the rooms tells one user, or all of them.                    *)
LEMMA ListIsTold ==
  ASSUME NEW rooms, NEW users, Housed(rooms, users), IsFiniteSet(DOMAIN users),
         NEW u, NEW id \in DOMAIN users, NEW v
  PROVE  /\ IsQueue(PublishRoomList(u, rooms, users))
         /\ After(PublishRoomList(u, rooms, users), id, v)
              = IF u \in {0, id} /\ v.type = "s2c_room_list" THEN RoomListMsg(rooms) ELSE v
         /\ Fits(PublishRoomList(u, rooms, users), id, v)
<1> DEFINE msg == RoomListMsg(rooms)
           S == DOMAIN users
<1>1. S \in SUBSET Nat
  BY RegistryAssumption DEF Housed, Members
<1>2. msg.type = "s2c_room_list"
  BY DEF RoomListMsg
<1>3. PublishRoomList(u, rooms, users) = IF u # 0 THEN <<Send(u, msg)>> ELSE SendToAll(S, msg)
  BY DEF PublishRoomList
<1> HIDE DEF msg, S
<1>4. CASE u # 0
  <2>1. PublishRoomList(u, rooms, users) = <<Send(u, msg)>> /\ (u \in {0, id} <=> u = id)
    BY <1>3, <1>4
  <2>2. /\ IsQueue(<<Send(u, msg)>>) /\ Fits(<<Send(u, msg)>>, id, v)
        /\ After(<<Send(u, msg)>>, id, v) = IF u = id /\ msg.type = v.type THEN msg ELSE v
    BY <1>2, AnswerTold
  <2> QED BY <1>2, <2>1, <2>2 DEF msg
<1>5. CASE u = 0
  <2>1. id \in S
    BY DEF S
  <2>2. PublishRoomList(u, rooms, users) = SendToAll(S, msg) /\ u \in {0, id}
    BY <1>3, <1>5
  <2>3. /\ IsQueue(SendToAll(S, msg)) /\ Fits(SendToAll(S, msg), id, v)
        /\ After(SendToAll(S, msg), id, v) = IF id \in S /\ msg.type = v.type THEN msg ELSE v
    BY <1>1, <1>2, AllTold DEF S
  <2> QED BY <1>2, <2>1, <2>2, <2>3 DEF msg
<1> QED BY <1>4, <1>5

-----------------------------------------------------------------------------
(* After what an operation enqueues, a client that showed how things were, *)
(* and one whose user has just logged on, show how they are.               *)
Informs(sent) ==
  \A id \in DOMAIN mIdUser' :
    /\ \A v : v.type = "s2c_room_info" /\ (id \in DOMAIN mIdUser => v = RoomOf(mIdRoom, mIdUser, id))
         => After(sent, id, v) = RoomOf(mIdRoom', mIdUser', id) /\ Fits(sent, id, v)
    /\ \A v : v.type = "s2c_room_list" /\ (id \in DOMAIN mIdUser => v = RoomListMsg(mIdRoom))
         => After(sent, id, v) = RoomListMsg(mIdRoom')

LEMMA LogonInforms ==
  ASSUME KP!IInv, KP!IInv', IsFiniteSet(DOMAIN mIdUser), NEW u, NEW n, HandleLogon(u, n)
  PROVE  \E sent : IsQueue(sent) /\ Finish(sent) /\ Informs(sent)
<1> DEFINE err == Keeper!LogonErr(u, n)
           hall == mRoomNames[HALL_NAME]
           info == IF err = "ok" THEN PublishRoomInfo(mIdRoom', hall) ELSE <<>>
           answer == <<Send(u, Reply("s2c_logon_res", err))>>
           list == PublishRoomList(u, mIdRoom', mIdUser')
           sent == info \o answer \o list
<1>1. Keeper!HandleLogon(u, n) /\ Finish(sent)
  BY DEF HandleLogon
<1>2. Housed(mIdRoom, mIdUser) /\ Housed(mIdRoom', mIdUser')
  BY RegistryHouses
<1>3. CASE err = "ok"
  <2>1. /\ u \notin DOMAIN mIdUser
        /\ mIdUser' = Keeper!Put(mIdUser, u, [name |-> n, roomId |-> hall])
        /\ mIdRoom' = Keeper!AddUser(mIdRoom, hall, u)
    BY <1>1, <1>3 DEF Keeper!HandleLogon, Keeper!LogonErr
  <2>2. /\ DOMAIN mIdUser' = DOMAIN mIdUser \cup {u}
        /\ mIdUser'[u].roomId = hall
        /\ \A id \in DOMAIN mIdUser : mIdUser'[id] = mIdUser[id]
        /\ DOMAIN mIdRoom' = DOMAIN mIdRoom
        /\ \A r \in DOMAIN mIdRoom : r # hall => mIdRoom'[r] = mIdRoom[r]
    BY <2>1 DEF Keeper!Put, Keeper!AddUser
  <2>3. hall \in DOMAIN mIdRoom' /\ IsFiniteSet(DOMAIN mIdUser')
    <3>1. hall \in DOMAIN mIdRoom
      BY DEF KP!IInv, KP!RoomsAgree
    <3> QED BY <2>2, <3>1, FS_AddElement
  <2>4. info = PublishRoomInfo(mIdRoom', hall)
    BY <1>3
  <2>5. RoomListMsg(mIdRoom') = RoomListMsg(mIdRoom)
    BY <2>2 DEF RoomListMsg
  <2>6. \A type, e : Reply(type, e).type = type
    BY DEF Reply
  <2> HIDE DEF info, err, hall
  <2>7. \A id \in DOMAIN mIdUser' : \A v :
          /\ After(info, id, v) = IF mIdUser'[id].roomId = hall /\ v.type = "s2c_room_info"
                                  THEN RoomOf(mIdRoom', mIdUser', id) ELSE v
          /\ Fits(info, id, v)
          /\ v.type \in {"s2c_room_info", "s2c_room_list"} => After(answer, id, v) = v
          /\ Fits(answer, id, v)
          /\ After(list, id, v) = IF u \in {0, id} /\ v.type = "s2c_room_list"
                                  THEN RoomListMsg(mIdRoom') ELSE v
          /\ Fits(list, id, v)
          /\ IsQueue(info) /\ IsQueue(answer) /\ IsQueue(list)
    BY <1>2, <2>3, <2>4, <2>6, RoomIsTold, AnswerTold, ListIsTold
  <2>8. u \in DOMAIN mIdUser'
    BY <2>2
  <2>9. IsQueue(info) /\ IsQueue(answer) /\ IsQueue(list)
    BY <2>7, <2>8
  <2> HIDE DEF answer, list
  <2>10. \A id \in DOMAIN mIdUser' : \A v :
           /\ After(sent, id, v) = After(list, id, After(answer, id, After(info, id, v)))
           /\ Fits(sent, id, v)
    BY <2>7, <2>9, NewsInStages
  <2>11. \A id : RoomOf(mIdRoom', mIdUser', id).type = "s2c_room_info"
    BY DEF RoomOf, RoomInfoMsg
  <2>12. \A id \in DOMAIN mIdUser' : mIdUser'[id].roomId # hall =>
           id \in DOMAIN mIdUser /\ RoomOf(mIdRoom', mIdUser', id) = RoomOf(mIdRoom, mIdUser, id)
    BY <1>2, <2>2 DEF RoomOf, RoomInfoMsg, Housed
  <2> HIDE DEF sent
  <2>13. ASSUME NEW id \in DOMAIN mIdUser', NEW v, v.type = "s2c_room_info",
                id \in DOMAIN mIdUser => v = RoomOf(mIdRoom, mIdUser, id)
         PROVE  After(sent, id, v) = RoomOf(mIdRoom', mIdUser', id)
    <3> DEFINE w == After(info, id, v)
    <3>1. w = RoomOf(mIdRoom', mIdUser', id)
      BY <2>7, <2>12, <2>13
    <3>2. w.type = "s2c_room_info"
      BY <2>11, <3>1
    <3> HIDE DEF w
    <3> QED BY <2>7, <2>10, <3>1, <3>2 DEF w
  <2>14. ASSUME NEW id \in DOMAIN mIdUser', NEW v, v.type = "s2c_room_list",
                id \in DOMAIN mIdUser => v = RoomListMsg(mIdRoom)
         PROVE  After(sent, id, v) = RoomListMsg(mIdRoom')
    <3>1. After(sent, id, v) = After(list, id, v)
      BY <2>7, <2>10, <2>14
    <3>2. id # u => v = RoomListMsg(mIdRoom')
      BY <2>2, <2>5, <2>14
    <3> QED BY <2>7, <2>14, <3>1, <3>2
  <2>15. IsQueue(sent)
    BY <2>9, NewsInStages DEF sent
  <2> QED BY <1>1, <2>10, <2>13, <2>14, <2>15 DEF Informs
<1>4. CASE err # "ok"
  <2>1. mIdUser' = mIdUser /\ mIdRoom' = mIdRoom
    BY <1>1, <1>4 DEF Keeper!HandleLogon, Keeper!keeperVars
  <2>2. info = <<>>
    BY <1>4
  <2>3. \A type, e : Reply(type, e).type = type
    BY DEF Reply
  <2> HIDE DEF info, err
  <2>4. \A id \in DOMAIN mIdUser' : \A v :
          /\ After(info, id, v) = v
          /\ Fits(info, id, v)
          /\ v.type \in {"s2c_room_info", "s2c_room_list"} => After(answer, id, v) = v
          /\ Fits(answer, id, v)
          /\ After(list, id, v) = IF u \in {0, id} /\ v.type = "s2c_room_list"
                                  THEN RoomListMsg(mIdRoom') ELSE v
          /\ Fits(list, id, v)
    BY <1>2, <2>1, <2>2, <2>3, NothingTold, AnswerTold, ListIsTold
  <2>5. IsQueue(info) /\ IsQueue(answer) /\ IsQueue(list)
    <3>1. AllSends(list, mIdRoom', mIdUser')
      BY <1>2, <2>1, ListIsSent DEF Housed
    <3> QED BY <2>2, <3>1, NothingTold, AnswerTold DEF AllSends
  <2> HIDE DEF answer, list
  <2>6. IsQueue(sent) /\ \A id \in DOMAIN mIdUser' : \A v :
           /\ After(sent, id, v) = After(list, id, After(answer, id, After(info, id, v)))
           /\ Fits(sent, id, v)
    BY <2>4, <2>5, NewsInStages
  <2> HIDE DEF sent
  <2>7. Informs(sent)
    BY <2>1, <2>4, <2>6 DEF Informs
  <2> QED BY <1>1, <2>6, <2>7
<1> QED BY <1>3, <1>4

-----------------------------------------------------------------------------
(* An operation that leaves users and rooms alone and tells neither.       *)
LEMMA SameInforms ==
  ASSUME NEW sent, IsQueue(sent), mIdUser' = mIdUser, mIdRoom' = mIdRoom,
         \A id \in DOMAIN mIdUser : \A v :
           /\ v.type \in {"s2c_room_info", "s2c_room_list"} => After(sent, id, v) = v
           /\ v.type = "s2c_room_info" /\ v = RoomOf(mIdRoom, mIdUser, id) => Fits(sent, id, v)
  PROVE  Informs(sent)
  BY DEF Informs

LEMMA ChatInforms ==
  ASSUME KP!IInv, IsFiniteSet(DOMAIN mIdUser), NEW u, NEW r, PublishChatMessage(u, r)
  PROVE  \E sent : IsQueue(sent) /\ Finish(sent) /\ Informs(sent)
<1> DEFINE S == mIdRoom[r].users
           msg == ChatMsg(r)
           sent == IF Keeper!ChatLookups(r, u) THEN SendToAll(S, msg) ELSE <<>>
<1>1. Finish(sent) /\ mIdUser' = mIdUser /\ mIdRoom' = mIdRoom
  BY DEF PublishChatMessage, Keeper!PublishRoomMessage, Keeper!tables
<1>2. CASE Keeper!ChatLookups(r, u)
  <2>1. r \in DOMAIN mIdRoom /\ Housed(mIdRoom, mIdUser)
    BY <1>2, RegistryHouses DEF Keeper!ChatLookups
  <2>2. S \in SUBSET Nat /\ IsFiniteSet(S)
    BY <2>1, FS_Subset, RegistryAssumption DEF Housed, Members
  <2>3. msg.type = "s2c_room_chat_msg" /\ msg.room = r
    BY DEF ChatMsg
  <2>4. \A id \in DOMAIN mIdUser : id \in S => RoomOf(mIdRoom, mIdUser, id).room = r
    BY <2>1 DEF Housed, RoomOf, RoomInfoMsg
  <2>5. sent = SendToAll(S, msg)
    BY <1>2
  <2> HIDE DEF S, msg, sent
  <2>6. \A id, v : /\ IsQueue(sent)
                   /\ After(sent, id, v) = IF id \in S /\ msg.type = v.type THEN msg ELSE v
                   /\ msg.type # v.type /\ (id \in S => msg.room = v.room) => Fits(sent, id, v)
    BY <2>2, <2>5, AllTold
  <2>7. Informs(sent)
    BY <1>1, <2>3, <2>4, <2>6, SameInforms
  <2> QED BY <1>1, <2>6, <2>7
<1>3. CASE ~Keeper!ChatLookups(r, u)
  <2>1. sent = <<>>
    BY <1>3
  <2> HIDE DEF sent
  <2> QED BY <1>1, <2>1, NothingTold, SameInforms
<1> QED BY <1>2, <1>3

LEMMA WhisperInforms ==
  ASSUME KP!IInv, IsFiniteSet(DOMAIN mIdUser), NEW u, NEW n, HandleWhisperMsg(u, n)
  PROVE  \E sent : IsQueue(sent) /\ Finish(sent) /\ Informs(sent)
<1> DEFINE target == Keeper!GetUserByName(n)
           failure == [type |-> "s2c_whisper_msg_failed"]
           whisper == [type |-> "s2c_whisper_msg"]
           sent == IF target = {} THEN <<Send(u, failure)>> ELSE SendToAll(target, whisper)
<1>1. Finish(sent) /\ mIdUser' = mIdUser /\ mIdRoom' = mIdRoom
  BY DEF HandleWhisperMsg, Keeper!GetUserById, Keeper!tables
<1>2. target \in SUBSET Nat /\ IsFiniteSet(target)
  <2>1. target \subseteq DOMAIN mIdUser
    BY DEF Keeper!GetUserByName
  <2>2. DOMAIN mIdUser \subseteq UserIds
    BY RegistryMembers DEF Members
  <2> HIDE DEF target
  <2> QED BY <2>1, <2>2, RegistryAssumption, FS_Subset
<1>3. failure.type = "s2c_whisper_msg_failed" /\ whisper.type = "s2c_whisper_msg"
  OBVIOUS
<1> HIDE DEF target, failure, whisper
<1>4. \A id, v : /\ IsQueue(<<Send(u, failure)>>) /\ IsQueue(SendToAll(target, whisper))
                 /\ Fits(<<Send(u, failure)>>, id, v) /\ Fits(SendToAll(target, whisper), id, v)
                 /\ v.type \in {"s2c_room_info", "s2c_room_list"} =>
                      /\ After(<<Send(u, failure)>>, id, v) = v
                      /\ After(SendToAll(target, whisper), id, v) = v
  BY <1>2, <1>3, AllTold, AnswerTold
<1>5. \A id, v : /\ IsQueue(sent) /\ Fits(sent, id, v)
                 /\ v.type \in {"s2c_room_info", "s2c_room_list"} => After(sent, id, v) = v
  BY <1>4
<1> HIDE DEF sent
<1> QED BY <1>1, <1>5, SameInforms

LEMMA CreateInforms ==
  ASSUME KP!IInv, KP!IInv', IsFiniteSet(DOMAIN mIdUser), NEW u, NEW n, NEW p,
         HandleCreateRoom(u, n, p)
  PROVE  \E sent : IsQueue(sent) /\ Finish(sent) /\ Informs(sent)
<1> DEFINE answer == <<Send(u, Reply("s2c_create_room_res", Keeper!CreateErr(n)))>>
           list == PublishRoomList(0, mIdRoom', mIdUser')
           sent == answer \o list
<1>1. Keeper!CreateRoom(n, p) /\ Finish(sent)
  BY DEF HandleCreateRoom
<1>2. Housed(mIdRoom, mIdUser) /\ Housed(mIdRoom', mIdUser')
  BY RegistryHouses
<1>3. mIdUser' = mIdUser /\ \A r \in DOMAIN mIdRoom : mIdRoom'[r] = mIdRoom[r]
  <2>1. mRoomId \notin DOMAIN mIdRoom
    BY DEF KP!IInv, KP!TypeOK
  <2> QED BY <1>1, <2>1 DEF Keeper!CreateRoom, Keeper!Put, Keeper!keeperVars
<1>4. \A id \in DOMAIN mIdUser : RoomOf(mIdRoom', mIdUser', id) = RoomOf(mIdRoom, mIdUser, id)
  BY <1>2, <1>3 DEF RoomOf, RoomInfoMsg, Housed
<1>5. \A e : Reply("s2c_create_room_res", e).type = "s2c_create_room_res"
  BY DEF Reply
<1>6. \A id \in DOMAIN mIdUser' : \A v :
        /\ v.type \in {"s2c_room_info", "s2c_room_list"} => After(answer, id, v) = v
        /\ Fits(answer, id, v)
        /\ After(list, id, v) = IF v.type = "s2c_room_list" THEN RoomListMsg(mIdRoom') ELSE v
        /\ Fits(list, id, v)
  BY <1>2, <1>3, <1>5, AnswerTold, ListIsTold
<1>7. IsQueue(answer) /\ IsQueue(list)
  <2>1. AllSends(list, mIdRoom', mIdUser')
    BY <1>2, <1>3, ListIsSent DEF Housed
  <2> QED BY <2>1, AnswerTold DEF AllSends
<1> HIDE DEF answer, list
<1>8. IsQueue(sent) /\ \A id, v : /\ After(sent, id, v) = After(list, id, After(answer, id, v))
                                  /\ Fits(sent, id, v) <=> /\ Fits(answer, id, v)
                                                           /\ Fits(list, id, After(answer, id, v))
  BY <1>7, ConcatOfQueues, ToldInTurn, FitsInTurn
<1> HIDE DEF sent
<1>9. Informs(sent)
  BY <1>3, <1>4, <1>6, <1>8 DEF Informs
<1> QED BY <1>1, <1>8, <1>9

(* A drop tells the room that was left; nobody else's has changed.         *)
LEMMA DropInforms ==
  ASSUME KP!IInv, KP!IInv', IsFiniteSet(DOMAIN mIdUser), NEW u, HandleDrop(u)
  PROVE  \E sent : IsQueue(sent) /\ Finish(sent) /\ Informs(sent)
<1> DEFINE room == mIdUser[u].roomId
           sent == IF u \in DOMAIN mIdUser THEN PublishRoomInfo(mIdRoom', room) ELSE <<>>
<1>1. Keeper!HandleDrop(u) /\ Finish(sent)
  BY DEF HandleDrop
<1>2. Housed(mIdRoom, mIdUser) /\ Housed(mIdRoom', mIdUser')
  BY RegistryHouses
<1>3. CASE u \in DOMAIN mIdUser
  <2>1. /\ mIdRoom' = Keeper!HandleUserLeave(mIdRoom, room, u)
        /\ mIdUser' = Keeper!Without(mIdUser, u)
    BY <1>1, <1>3 DEF Keeper!HandleDrop
  <2>2. /\ DOMAIN mIdUser' = DOMAIN mIdUser \ {u}
        /\ \A id \in DOMAIN mIdUser' : mIdUser'[id] = mIdUser[id]
        /\ DOMAIN mIdRoom' = DOMAIN mIdRoom
        /\ \A r \in DOMAIN mIdRoom : r # room => mIdRoom'[r] = mIdRoom[r]
    BY <2>1 DEF Keeper!HandleUserLeave, Keeper!Without, Keeper!Restrict
  <2>3. room \in DOMAIN mIdRoom' /\ IsFiniteSet(DOMAIN mIdUser')
    BY <1>2, <1>3, <2>2, FS_Subset DEF Housed
  <2>4. sent = PublishRoomInfo(mIdRoom', room)
    BY <1>3
  <2>5. RoomListMsg(mIdRoom') = RoomListMsg(mIdRoom)
    BY <2>2 DEF RoomListMsg
  <2> HIDE DEF sent, room
  <2>6. \A id \in DOMAIN mIdUser' : \A v :
          /\ After(sent, id, v) = IF mIdUser'[id].roomId = room /\ v.type = "s2c_room_info"
                                  THEN RoomOf(mIdRoom', mIdUser', id) ELSE v
          /\ Fits(sent, id, v)
    BY <1>2, <2>3, <2>4, RoomIsTold
  <2>7. \A id \in DOMAIN mIdUser' : mIdUser'[id].roomId # room =>
          RoomOf(mIdRoom', mIdUser', id) = RoomOf(mIdRoom, mIdUser, id)
    BY <1>2, <2>2 DEF RoomOf, RoomInfoMsg, Housed
  <2>8. IsQueue(sent)
    <3>1. AllSends(sent, mIdRoom', mIdUser')
      BY <1>2, <2>3, <2>4, RoomIsSent DEF Housed
    <3> QED BY <3>1 DEF AllSends
  <2>9. Informs(sent)
    BY <2>2, <2>5, <2>6, <2>7 DEF Informs
  <2> QED BY <1>1, <2>8, <2>9
<1>4. CASE u \notin DOMAIN mIdUser
  <2>1. sent = <<>> /\ mIdUser' = mIdUser /\ mIdRoom' = mIdRoom
    BY <1>1, <1>4 DEF Keeper!HandleDrop, Keeper!keeperVars
  <2> HIDE DEF sent
  <2> QED BY <1>1, <2>1, NothingTold, SameInforms
<1> QED BY <1>3, <1>4

(* A join tells the room that is joined, then the room that is left.       *)
LEMMA JoinInforms ==
  ASSUME KP!IInv, KP!IInv', IsFiniteSet(DOMAIN mIdUser), NEW u, NEW n, NEW p,
         HandleJoinRoom(u, n, p)
  PROVE  \E sent : IsQueue(sent) /\ Finish(sent) /\ Informs(sent)
<1> DEFINE err == Keeper!HandleJoinErr(n, p, u)
           new == mRoomNames[n]
           old == Keeper!LeftRoom(u)
           newInfo == PublishRoomInfo(mIdRoom', new)
           oldInfo == PublishRoomInfo(mIdRoom', old)
           answer == <<Send(u, Reply("s2c_join_room_res", err))>>
           sent == (IF err = "ok" THEN newInfo \o oldInfo ELSE <<>>) \o answer
<1>1. Keeper!HandleJoinRoom(n, p, u) /\ Finish(sent)
  BY DEF HandleJoinRoom
<1>2. Housed(mIdRoom, mIdUser) /\ Housed(mIdRoom', mIdUser')
  BY RegistryHouses
<1>3. \A e : Reply("s2c_join_room_res", e).type = "s2c_join_room_res"
  BY DEF Reply
<1>4. IsQueue(answer) /\ \A id, v :
        /\ v.type \in {"s2c_room_info", "s2c_room_list"} => After(answer, id, v) = v
        /\ Fits(answer, id, v)
  BY <1>3, AnswerTold
<1> HIDE DEF answer
<1>5. CASE err = "ok"
  <2>1. u \in DOMAIN mIdUser /\ n \in DOMAIN mRoomNames
    BY <1>5 DEF Keeper!HandleJoinErr, Keeper!JoinErr
  <2>2. new \in DOMAIN mIdRoom /\ old \in DOMAIN mIdRoom
    BY <2>1 DEF Keeper!LeftRoom, KP!IInv, KP!RoomsAgree, KP!OneRoomEach
  <2>3. sent = newInfo \o oldInfo \o answer
    BY <1>5
  <2>4. /\ mIdUser' = [mIdUser EXCEPT ![u].roomId = new]
        /\ mIdRoom' = Keeper!HandleUserLeave(Keeper!AddUser(mIdRoom, new, u), old, u)
    BY <1>1, <1>5 DEF Keeper!HandleJoinRoom
  <2> HIDE DEF sent, new, old
  <2>5. /\ DOMAIN mIdUser' = DOMAIN mIdUser /\ DOMAIN mIdRoom' = DOMAIN mIdRoom
        /\ mIdUser'[u].roomId = new
        /\ \A id \in DOMAIN mIdUser : id # u => mIdUser'[id] = mIdUser[id]
        /\ \A r \in DOMAIN mIdRoom : r \notin {new, old} => mIdRoom'[r] = mIdRoom[r]
    <3>1. mIdUser \in [DOMAIN mIdUser -> KP!UserRecord]
      BY DEF KP!IInv, KP!TypeOK
    <3>2. mIdUser'[u].roomId = new
      BY <2>1, <2>4, <3>1 DEF KP!UserRecord
    <3> QED BY <2>4, <3>2 DEF Keeper!HandleUserLeave, Keeper!AddUser
  <2>6. \A id \in DOMAIN mIdUser' : \A v :
          /\ After(newInfo, id, v) = IF mIdUser'[id].roomId = new /\ v.type = "s2c_room_info"
                                     THEN RoomOf(mIdRoom', mIdUser', id) ELSE v
          /\ Fits(newInfo, id, v)
          /\ After(oldInfo, id, v) = IF mIdUser'[id].roomId = old /\ v.type = "s2c_room_info"
                                     THEN RoomOf(mIdRoom', mIdUser', id) ELSE v
          /\ Fits(oldInfo, id, v)
    BY <1>2, <2>2, <2>5, RoomIsTold
  <2>7. IsQueue(newInfo) /\ IsQueue(oldInfo)
    <3>1. AllSends(newInfo, mIdRoom', mIdUser') /\ AllSends(oldInfo, mIdRoom', mIdUser')
      BY <1>2, <2>2, <2>5, RoomIsSent DEF Housed
    <3> QED BY <3>1 DEF AllSends
  <2> HIDE DEF newInfo, oldInfo
  <2>8. IsQueue(sent) /\ \A id \in DOMAIN mIdUser' : \A v :
          /\ After(sent, id, v) = After(answer, id, After(oldInfo, id, After(newInfo, id, v)))
          /\ Fits(sent, id, v)
    BY <1>4, <2>3, <2>6, <2>7, NewsInStages
  <2>9. /\ RoomListMsg(mIdRoom') = RoomListMsg(mIdRoom)
        /\ \A id : RoomOf(mIdRoom', mIdUser', id).type = "s2c_room_info"
    BY <2>5 DEF RoomListMsg, RoomOf, RoomInfoMsg
  <2>10. \A id \in DOMAIN mIdUser' : mIdUser'[id].roomId \notin {new, old} =>
           RoomOf(mIdRoom', mIdUser', id) = RoomOf(mIdRoom, mIdUser, id)
    BY <1>2, <2>5 DEF RoomOf, RoomInfoMsg, Housed
  <2>11. ASSUME NEW id \in DOMAIN mIdUser', NEW v, v.type = "s2c_room_info",
                v = RoomOf(mIdRoom, mIdUser, id)
         PROVE  After(sent, id, v) = RoomOf(mIdRoom', mIdUser', id)
    <3>1. CASE mIdUser'[id].roomId = new
      <4>1. After(newInfo, id, v) = RoomOf(mIdRoom', mIdUser', id)
        BY <2>6, <2>11, <3>1
      <4> QED BY <1>4, <2>6, <2>8, <2>9, <4>1
    <3>2. CASE mIdUser'[id].roomId # new
      <4>1. After(newInfo, id, v) = v
        BY <2>6, <3>2
      <4>2. After(oldInfo, id, v) = RoomOf(mIdRoom', mIdUser', id)
        BY <2>6, <2>10, <2>11, <3>2
      <4> QED BY <1>4, <2>8, <2>9, <4>1, <4>2
    <3> QED BY <3>1, <3>2
  <2>12. ASSUME NEW id \in DOMAIN mIdUser', NEW v, v.type = "s2c_room_list",
                v = RoomListMsg(mIdRoom)
         PROVE  After(sent, id, v) = RoomListMsg(mIdRoom')
    BY <1>4, <2>6, <2>8, <2>9, <2>12
  <2>13. Informs(sent)
    BY <2>5, <2>8, <2>11, <2>12 DEF Informs
  <2> QED BY <1>1, <2>8, <2>13
<1>6. CASE err # "ok"
  <2>1. mIdUser' = mIdUser /\ mIdRoom' = mIdRoom /\ sent = <<>> \o answer
    BY <1>1, <1>6 DEF Keeper!HandleJoinRoom, Keeper!tables
  <2> HIDE DEF sent
  <2>2. IsQueue(sent) /\ \A id, v :
          /\ After(sent, id, v) = After(answer, id, v)
          /\ Fits(sent, id, v)
    BY <1>4, <2>1, NothingTold, ConcatOfQueues, ToldInTurn, FitsInTurn
  <2> QED BY <1>1, <1>4, <2>1, <2>2, SameInforms
<1> QED BY <1>5, <1>6

-----------------------------------------------------------------------------
(* Only a client that is gone has closed its socket, and only then does    *)
(* the server close its end.                                               *)
Closed ==
  /\ \A c \in peerClosed : c \in Clients /\ phase[c] = "exited"
  /\ \A id \in DOMAIN mConns : mConns[id].state = "closed" => mConns[id].socket \in peerClosed

LEMMA StepClosed == IInv /\ Closed /\ [Next]_vars => Closed'
<1> SUFFICES ASSUME IInv, Closed, [Next]_vars
             PROVE  Closed'
  OBVIOUS
<1>1. /\ phase \in [Clients -> {"idle", "up", "exited"}]
      /\ \A id \in DOMAIN mConns : mConns[id] \in [socket : Clients, state : {"open", "closed"}]
  BY DEF IInv, ClientsOK, ConnectionsOK
<1>2. ASSUME UNCHANGED <<mConns, peerClosed, phase>>
      PROVE  Closed'
  BY <1>2 DEF Closed
<1>3. ASSUME NEW c \in Clients, Leaves(c)
      PROVE  Closed'
  BY <1>1, <1>3 DEF Leaves, Closed
<1>4. ASSUME NEW id \in DOMAIN mConns, Close(id), mConns[id].socket \in peerClosed,
             UNCHANGED <<peerClosed, phase>>
      PROVE  Closed'
  BY <1>1, <1>4 DEF Close, Closed
<1>5. CASE WorkerStep \/ DriverLate
  BY <1>2, <1>5 DEF WorkerStep, DriverLate, ReadNotOkay, netVars, clientVars, wires
<1>6. CASE NetStep
  <2>1. UNCHANGED <<phase, peerClosed>>
    BY <1>6 DEF NetStep, NetProcess, SendMsg, AcceptConnection, ForwardRecv, SendDiscarded,
                SendWritten, SendFails, SendKills, DropConnection, netVars, clientVars, wires
  <2>2. CASE AcceptConnection
    BY <1>1, <2>1, <2>2 DEF AcceptConnection, Closed
  <2>3. CASE DropConnection
    BY <2>1, <2>3 DEF DropConnection, Restrict, Closed
  <2>4. CASE SendFails
    BY <1>4, <2>1, <2>4 DEF SendFails, Writable
  <2>5. CASE ForwardRecv \/ SendDiscarded \/ SendWritten \/ SendKills
    BY <1>2, <2>1, <2>5 DEF ForwardRecv, SendDiscarded, SendWritten, SendKills, netVars
  <2> QED BY <1>6, <2>2, <2>3, <2>4, <2>5 DEF NetStep, NetProcess, SendMsg
<1>7. ASSUME NEW c \in Clients, DriverAccept(c) \/ DriverRead(c)
      PROVE  Closed'
  <2>1. CASE DriverAccept(c)
    BY <1>2, <2>1 DEF DriverAccept, AcceptSocket, clientVars, wires
  <2>2. CASE DriverRead(c)
    <3>1. PICK id \in DOMAIN mConns : ReadFrame(id) \/ ReadEnd(id)
      BY <2>2 DEF DriverRead, ConnOf, ReadData
    <3>2. UNCHANGED <<phase, peerClosed>>
      BY <2>2, <3>1 DEF DriverRead, ReadFrame, ReadEnd, clientVars, wires
    <3> QED BY <1>2, <1>4, <3>1, <3>2 DEF ReadFrame, ReadEnd
  <2> QED BY <1>7, <2>1, <2>2
<1>8. ASSUME NEW c \in Clients, NEW n \in UserNames, StartClient(c, n)
      PROVE  Closed'
  BY <1>1, <1>8 DEF StartClient, Closed
<1>9. ASSUME NEW c \in Clients, TypeInput(c) \/ Exit(c) \/ RecvFromServer(c)
      PROVE  Closed'
  <2>1. CASE TypeInput(c)
    BY <1>2, <2>1 DEF TypeInput, TypeChat, TypeCreate, TypeJoin, TypeWhisper, TypeLeave, Types
  <2>2. CASE Exit(c)
    BY <1>3, <2>2 DEF Exit
  <2>3. CASE RecvFromServer(c)
    BY <1>2, <1>3, <2>3 DEF RecvFromServer, ParseRoomInfo, HandleUpdateRoomList, HandleLogonRes,
                            ShowMessage, Taken
  <2> QED BY <1>9, <2>1, <2>2, <2>3
<1>10. CASE UNCHANGED vars
  BY <1>2, <1>10 DEF vars, netVars, clientVars
<1> QED BY <1>5, <1>6, <1>7, <1>8, <1>9, <1>10 DEF Next

-----------------------------------------------------------------------------
(* Changes of a queue that are no news to a client.                        *)
LEMMA SameTwice ==
  ASSUME NEW q, NEW s, NEW r, NEW id, SameNews(q, s, id), SameNews(s, r, id)
  PROVE  SameNews(q, r, id)
BY DEF SameNews

LEMMA QuietContext ==
  ASSUME NEW e, NEW id, ~(e.op = "OP_SEND" /\ e.conn = id), NEW q, IsQueue(q)
  PROVE  /\ SameNews(Append(q, e), q, id)
         /\ q # <<>> /\ Head(q) = e => SameNews(Tail(q), q, id)
<1>1. \A v : After(<<e>>, id, v) = v /\ Fits(<<e>>, id, v)
  BY OneTells DEF Tells
<1>2. SameNews(Append(q, e), q, id)
  BY <1>1, AppendedNews DEF SameNews
<1>3. ASSUME q # <<>>, Head(q) = e
      PROVE  SameNews(Tail(q), q, id)
  BY <1>1, <1>3, HeadNews DEF SameNews
<1> QED BY <1>2, <1>3

LEMMA SameIsSame == \A q, id : SameNews(q, q, id)
  BY DEF SameNews

LEMMA SameStages ==
  ASSUME NEW q, NEW r, NEW s, IsQueue(q), IsQueue(r), IsQueue(s), NEW id,
         NEW r1, NEW s1, IsQueue(r1), IsQueue(s1), SameNews(r1, r, id), SameNews(s1, s, id)
  PROVE  SameNews(q \o r1 \o s1, q \o r \o s, id)
<1>1. \A v : /\ After(q \o r \o s, id, v) = After(s, id, After(r, id, After(q, id, v)))
             /\ Fits(q \o r \o s, id, v)
                  <=> /\ Fits(q, id, v)
                      /\ Fits(r, id, After(q, id, v))
                      /\ Fits(s, id, After(r, id, After(q, id, v)))
             /\ After(q \o r1 \o s1, id, v) = After(s1, id, After(r1, id, After(q, id, v)))
             /\ Fits(q \o r1 \o s1, id, v)
                  <=> /\ Fits(q, id, v)
                      /\ Fits(r1, id, After(q, id, v))
                      /\ Fits(s1, id, After(r1, id, After(q, id, v)))
  BY NewsInStages
<1> QED BY <1>1 DEF SameNews

(* A context that moves from the head of one queue to the end of the one   *)
(* before it.                                                              *)
LEMMA MovedNews ==
  ASSUME NEW r, NEW s, IsQueue(r), IsQueue(s), s # <<>>, NEW id, NEW v
  PROVE  /\ After(Tail(s), id, After(Append(r, Head(s)), id, v)) = After(s, id, After(r, id, v))
         /\ Fits(Append(r, Head(s)), id, v) /\ Fits(Tail(s), id, After(Append(r, Head(s)), id, v))
              <=> Fits(r, id, v) /\ Fits(s, id, After(r, id, v))
<1> DEFINE e == Head(s)
           w == After(r, id, v)
           x == After(<<e>>, id, w)
<1>1. /\ After(Append(r, e), id, v) = x
      /\ Fits(Append(r, e), id, v) <=> Fits(r, id, v) /\ Fits(<<e>>, id, w)
  BY AppendedNews
<1>2. /\ After(s, id, w) = After(Tail(s), id, x)
      /\ Fits(s, id, w) <=> Fits(<<e>>, id, w) /\ Fits(Tail(s), id, x)
  BY HeadNews
<1> HIDE DEF e, w, x
<1> QED BY <1>1, <1>2 DEF e, w

-----------------------------------------------------------------------------
(* What is under way over a connection, in three queues, brings what its   *)
(* client shows up to date, and every chat message while its room shows.   *)
Arrives(wire, net, worker, id, room, list, rooms, users) ==
  LET way == Written(wire, id) \o net \o worker
  IN  /\ After(way, id, room) = RoomOf(rooms, users, id)
      /\ After(way, id, list) = RoomListMsg(rooms)
      /\ Fits(way, id, room)

Serves(c, id) ==
  /\ phase[c] = "up"
  /\ id \in DOMAIN mConns /\ mConns[id].socket = c
  /\ id \in DOMAIN mIdUser

Current(c, id) ==
  Arrives(toClient[c], mNetQueue, mWorkerQueue, id, RoomShown(c), ListShown(c), mIdRoom, mIdUser)

AllCurrent == \A c \in Clients, id \in DOMAIN mConns : Serves(c, id) => Current(c, id)

(* The inductive invariant. *)
ViewInv == ToldInv /\ Closed /\ AllCurrent

-----------------------------------------------------------------------------
LEMMA ArrivesInStages ==
  ASSUME NEW wire, NEW net, NEW worker, IsQueue(wire), IsQueue(net), IsQueue(worker),
         NEW id, NEW room, NEW list, NEW rooms, NEW users
  PROVE  Arrives(wire, net, worker, id, room, list, rooms, users)
           <=> /\ After(worker, id, After(net, id, After(Written(wire, id), id, room)))
                    = RoomOf(rooms, users, id)
               /\ After(worker, id, After(net, id, After(Written(wire, id), id, list)))
                    = RoomListMsg(rooms)
               /\ Fits(Written(wire, id), id, room)
               /\ Fits(net, id, After(Written(wire, id), id, room))
               /\ Fits(worker, id, After(net, id, After(Written(wire, id), id, room)))
<1>1. IsQueue(Written(wire, id))
  BY WrittenQueue
<1>2. \A v : LET way == Written(wire, id) \o net \o worker IN
             /\ After(way, id, v)
                  = After(worker, id, After(net, id, After(Written(wire, id), id, v)))
             /\ Fits(way, id, v)
                  <=> /\ Fits(Written(wire, id), id, v)
                      /\ Fits(net, id, After(Written(wire, id), id, v))
                      /\ Fits(worker, id, After(net, id, After(Written(wire, id), id, v)))
  BY <1>1, NewsInStages
<1> QED BY <1>2 DEF Arrives

LEMMA SameArrives ==
  ASSUME NEW wire, NEW net, NEW worker, IsQueue(wire), IsQueue(net), IsQueue(worker),
         NEW net1, NEW worker1, IsQueue(net1), IsQueue(worker1),
         NEW id, NEW room, NEW list, NEW rooms, NEW users,
         SameNews(net1, net, id), SameNews(worker1, worker, id),
         Arrives(wire, net, worker, id, room, list, rooms, users)
  PROVE  Arrives(wire, net1, worker1, id, room, list, rooms, users)
<1>1. IsQueue(Written(wire, id))
  BY WrittenQueue
<1>2. SameNews(Written(wire, id) \o net1 \o worker1, Written(wire, id) \o net \o worker, id)
  BY <1>1, SameStages
<1> QED BY <1>2 DEF Arrives, SameNews

LEMMA QueuesInOrder ==
  ASSUME IInv
  PROVE  /\ IsQueue(mNetQueue) /\ IsQueue(mWorkerQueue)
         /\ \A c \in Clients : IsQueue(toClient[c])
  BY DEF IInv, QueuesOK, ClientsOK

(* Steps that leave what is under way to those who are served alone.       *)
LEMMA Unmoved ==
  ASSUME AllCurrent, UNCHANGED <<mIdUser, mIdRoom, mNetQueue, mWorkerQueue>>,
         \A c \in Clients, id \in DOMAIN mConns' : Serves(c, id)' =>
           /\ Serves(c, id)
           /\ toClient'[c] = toClient[c]
           /\ mCurrentRoom'[c] = mCurrentRoom[c] /\ mOnlines'[c] = mOnlines[c]
           /\ mRooms'[c] = mRooms[c]
  PROVE  AllCurrent'
<1> SUFFICES ASSUME NEW c \in Clients, NEW id \in DOMAIN mConns', Serves(c, id)'
             PROVE  Current(c, id)'
  BY DEF AllCurrent
<1>1. Serves(c, id)
  OBVIOUS
<1>2. Current(c, id)
  BY <1>1 DEF AllCurrent, Serves
<1>3. RoomShown(c)' = RoomShown(c) /\ ListShown(c)' = ListShown(c) /\ toClient'[c] = toClient[c]
  BY DEF RoomShown, ListShown
<1> QED BY <1>2, <1>3 DEF Current

(* Steps on which the two queues change, but not for those who are served. *)
LEMMA NoNews ==
  ASSUME AllCurrent, IInv, IInv', UNCHANGED <<mIdUser, mIdRoom, toClient, phase, views>>,
         \A id \in DOMAIN mConns' \cap DOMAIN mIdUser : \A c \in Clients :
           mConns'[id].socket = c /\ phase[c] = "up" =>
             /\ id \in DOMAIN mConns /\ mConns[id].socket = c
             /\ SameNews(mNetQueue', mNetQueue, id)
             /\ SameNews(mWorkerQueue', mWorkerQueue, id)
  PROVE  AllCurrent'
<1> SUFFICES ASSUME NEW c \in Clients, NEW id \in DOMAIN mConns', Serves(c, id)'
             PROVE  Current(c, id)'
  BY DEF AllCurrent
<1>1. /\ Serves(c, id)
      /\ SameNews(mNetQueue', mNetQueue, id) /\ SameNews(mWorkerQueue', mWorkerQueue, id)
  BY DEF Serves
<1>2. Current(c, id)
  BY <1>1 DEF AllCurrent, Serves
<1>3. RoomShown(c)' = RoomShown(c) /\ ListShown(c)' = ListShown(c)
  BY DEF RoomShown, ListShown, views
<1>4. IsQueue(toClient[c]) /\ IsQueue(mNetQueue) /\ IsQueue(mWorkerQueue)
  BY QueuesInOrder
<1>5. IsQueue(mNetQueue') /\ IsQueue(mWorkerQueue')
  BY DEF IInv, QueuesOK
<1>6. Arrives(toClient[c], mNetQueue', mWorkerQueue', id, RoomShown(c), ListShown(c), mIdRoom, mIdUser)
  BY <1>1, <1>2, <1>4, <1>5, SameArrives DEF Current
<1> QED BY <1>3, <1>6 DEF Current

-----------------------------------------------------------------------------
(* The clients.                                                            *)
LEMMA StartCurrent ==
  ASSUME ViewInv, NEW c \in Clients, NEW n \in UserNames, StartClient(c, n)
  PROVE  AllCurrent'
<1> USE DEF ViewInv, ToldInv
<1>1. /\ phase[c] = "idle" /\ phase' = [phase EXCEPT ![c] = "up"]
      /\ UNCHANGED <<keeperVars, mWorkerQueue, mNetQueue, mConns, toClient, views>>
  BY DEF StartClient, queues
<1>2. c \notin Accepted /\ phase \in [Clients -> {"idle", "up", "exited"}]
  BY <1>1 DEF Accepted, IInv, ClientsOK
<1>3. \A id \in DOMAIN mConns : mConns[id].socket # c
  BY <1>2 DEF Told, OneConnectionEach
<1>4. \A d \in Clients, id \in DOMAIN mConns' : Serves(d, id)' => Serves(d, id)
  BY <1>1, <1>2, <1>3 DEF Serves, keeperVars
<1> QED BY <1>1, <1>4, Unmoved DEF keeperVars, views

LEMMA InputCurrent ==
  ASSUME ViewInv, NEW c \in Clients, TypeInput(c)
  PROVE  AllCurrent'
<1> USE DEF ViewInv
<1>1. UNCHANGED <<keeperVars, mWorkerQueue, mNetQueue, mConns, toClient, views, phase>>
  BY DEF TypeInput, TypeChat, TypeCreate, TypeJoin, TypeWhisper, TypeLeave, Types, queues
<1>2. \A d \in Clients, id \in DOMAIN mConns' : Serves(d, id)' => Serves(d, id)
  BY <1>1 DEF Serves, keeperVars
<1> QED BY <1>1, <1>2, Unmoved DEF keeperVars, views

LEMMA LeavesCurrent ==
  ASSUME ViewInv, NEW c \in Clients, Leaves(c)
  PROVE  AllCurrent'
<1> USE DEF ViewInv, ToldInv, IInv, ClientsOK
<1>1. /\ UNCHANGED <<keeperVars, mWorkerQueue, mNetQueue, mConns>>
      /\ phase' = [phase EXCEPT ![c] = "exited"]
      /\ \A d \in Clients \ {c} :
           /\ toClient'[d] = toClient[d] /\ mCurrentRoom'[d] = mCurrentRoom[d]
           /\ mOnlines'[d] = mOnlines[d] /\ mRooms'[d] = mRooms[d]
  BY DEF Leaves, queues
<1>2. \A d \in Clients, id \in DOMAIN mConns' : Serves(d, id)' => Serves(d, id) /\ d # c
  BY <1>1 DEF Serves, keeperVars
<1> QED BY <1>1, <1>2, Unmoved DEF keeperVars

(* What arrives first is what is shown next.                               *)
LEMMA HeadArrives ==
  ASSUME NEW wire, NEW net, NEW worker, IsQueue(wire), IsQueue(net), IsQueue(worker), wire # <<>>,
         NEW id, NEW room, NEW list, NEW rooms, NEW users,
         Arrives(wire, net, worker, id, room, list, rooms, users)
  PROVE  Arrives(Tail(wire), net, worker, id,
                 After(<<Send(id, Head(wire))>>, id, room),
                 After(<<Send(id, Head(wire))>>, id, list), rooms, users)
<1>1. IsQueue(Tail(wire)) /\ IsQueue(Written(wire, id))
  BY TailOfQueue, WrittenQueue
<1>2. /\ Written(wire, id) # <<>>
      /\ Head(Written(wire, id)) = Send(id, Head(wire))
      /\ Tail(Written(wire, id)) = Written(Tail(wire), id)
  BY WrittenHead
<1> DEFINE e == Send(id, Head(wire))
           q == Written(wire, id)
           t == Written(Tail(wire), id)
<1>3. IsQueue(q) /\ q # <<>> /\ Head(q) = e /\ Tail(q) = t
  BY <1>1, <1>2
<1>4. ASSUME NEW v
      PROVE  /\ After(q, id, v) = After(t, id, After(<<e>>, id, v))
             /\ Fits(q, id, v) => Fits(t, id, After(<<e>>, id, v))
  <2> HIDE DEF e, q, t
  <2>1. After(q, id, v) = After(Tail(q), id, After(<<Head(q)>>, id, v))
    BY <1>3, HeadNews
  <2>2. Fits(q, id, v) => Fits(Tail(q), id, After(<<Head(q)>>, id, v))
    BY <1>3, HeadNews
  <2> QED BY <1>3, <2>1, <2>2
<1> HIDE DEF e, q, t
<1> DEFINE room1 == After(<<e>>, id, room)
           list1 == After(<<e>>, id, list)
<1>5. /\ After(worker, id, After(net, id, After(q, id, room))) = RoomOf(rooms, users, id)
      /\ After(worker, id, After(net, id, After(q, id, list))) = RoomListMsg(rooms)
      /\ Fits(q, id, room)
      /\ Fits(net, id, After(q, id, room))
      /\ Fits(worker, id, After(net, id, After(q, id, room)))
  BY ArrivesInStages DEF q
<1>6. /\ After(worker, id, After(net, id, After(t, id, room1))) = RoomOf(rooms, users, id)
      /\ After(worker, id, After(net, id, After(t, id, list1))) = RoomListMsg(rooms)
      /\ Fits(t, id, room1)
      /\ Fits(net, id, After(t, id, room1))
      /\ Fits(worker, id, After(net, id, After(t, id, room1)))
  BY <1>4, <1>5
<1> HIDE DEF room1, list1
<1>7. Arrives(Tail(wire), net, worker, id, room1, list1, rooms, users)
  BY <1>1, <1>6, ArrivesInStages DEF t
<1> QED BY <1>7 DEF room1, list1, e

LEMMA ReceptionCurrent ==
  ASSUME ViewInv, NEW c \in Clients, RecvFromServer(c)
  PROVE  AllCurrent'
<1> DEFINE m == Head(toClient[c])
<1> USE DEF ViewInv, ToldInv
<1>1. toClient[c] # <<>>
  BY DEF RecvFromServer, ParseRoomInfo, HandleUpdateRoomList, HandleLogonRes, ShowMessage, Receives
<1>2. FromServer(m, mIdRoom) /\ DOMAIN toClient = Clients
  <2>1. IsQueue(toClient[c]) /\ \A x \in Range(toClient[c]) : FromServer(x, mIdRoom)
    BY DEF IInv, ClientsOK
  <2> QED BY <1>1, <2>1, TailOfQueue DEF IInv, ClientsOK
<1>3. /\ mCurrentRoom \in [Clients -> DOMAIN mIdRoom \cup {INVALID_ROOM_ID}]
      /\ mOnlines \in [Clients -> SUBSET UserIds] /\ mRooms \in [Clients -> SUBSET DOMAIN mIdRoom]
  BY DEF IInv, ClientsOK
<1> HIDE DEF m
<1>4. CASE HandleLogonRes(c)
  BY <1>4, LeavesCurrent DEF HandleLogonRes
<1>5. ASSUME Taken(c),
             \A d \in Clients \ {c} : RoomShown(d)' = RoomShown(d) /\ ListShown(d)' = ListShown(d),
             RoomShown(c)' = IF m.type = "s2c_room_info" THEN m ELSE RoomShown(c),
             ListShown(c)' = IF m.type = "s2c_room_list" THEN m ELSE ListShown(c)
      PROVE  AllCurrent'
  <2>1. /\ UNCHANGED <<mIdUser, mIdRoom, mNetQueue, mWorkerQueue, mConns, phase>>
        /\ toClient' = [toClient EXCEPT ![c] = Tail(toClient[c])]
    BY <1>5 DEF Taken, keeperVars, queues
  <2> SUFFICES ASSUME NEW d \in Clients, NEW id \in DOMAIN mConns', Serves(d, id)'
               PROVE  Current(d, id)'
    BY DEF AllCurrent
  <2>2. Serves(d, id)
    BY <2>1 DEF Serves
  <2>3. Current(d, id)
    BY <2>2 DEF AllCurrent, Serves
  <2>4. CASE d # c
    BY <1>2, <1>5, <2>1, <2>3, <2>4 DEF Current
  <2>5. CASE d = c
    <3>1. Arrives(toClient[c], mNetQueue, mWorkerQueue, id, RoomShown(c), ListShown(c),
                  mIdRoom, mIdUser)
      BY <2>3, <2>5 DEF Current
    <3>2. IsQueue(toClient[c]) /\ IsQueue(mNetQueue) /\ IsQueue(mWorkerQueue)
      BY QueuesInOrder
    <3>3. Arrives(Tail(toClient[c]), mNetQueue, mWorkerQueue, id,
                  After(<<Send(id, m)>>, id, RoomShown(c)),
                  After(<<Send(id, m)>>, id, ListShown(c)), mIdRoom, mIdUser)
      BY <1>1, <3>1, <3>2, HeadArrives DEF m
    <3>4. RoomShown(c).type = "s2c_room_info" /\ ListShown(c).type = "s2c_room_list"
      BY DEF RoomShown, ListShown
    <3>5. /\ After(<<Send(id, m)>>, id, RoomShown(c)) = RoomShown(c)'
          /\ After(<<Send(id, m)>>, id, ListShown(c)) = ListShown(c)'
      BY <1>5, <3>4, AnswerTold
    <3>6. toClient'[c] = Tail(toClient[c])
      BY <1>2, <2>1
    <3> QED BY <2>1, <2>5, <3>3, <3>5, <3>6 DEF Current
  <2> QED BY <2>4, <2>5
<1>6. CASE ParseRoomInfo(c)
  <2>1. /\ Taken(c) /\ m.type = "s2c_room_info" /\ mRooms' = mRooms
        /\ mCurrentRoom' = [mCurrentRoom EXCEPT ![c] = m.room]
        /\ mOnlines' = [mOnlines EXCEPT ![c] = m.users]
    BY <1>6 DEF ParseRoomInfo, m
  <2>2. m = [type |-> "s2c_room_info", room |-> m.room, users |-> m.users]
    BY <1>2, <2>1 DEF FromServer
  <2>3. /\ \A d \in Clients \ {c} : RoomShown(d)' = RoomShown(d)
        /\ RoomShown(c)' = m
    BY <1>3, <2>1, <2>2 DEF RoomShown
  <2>4. \A d \in Clients : ListShown(d)' = ListShown(d)
    BY <2>1 DEF ListShown
  <2> QED BY <1>5, <2>1, <2>3, <2>4
<1>7. CASE HandleUpdateRoomList(c)
  <2>1. /\ Taken(c) /\ m.type = "s2c_room_list" /\ UNCHANGED <<mCurrentRoom, mOnlines>>
        /\ mRooms' = [mRooms EXCEPT ![c] = m.rooms]
    BY <1>7 DEF HandleUpdateRoomList, m
  <2>2. m = [type |-> "s2c_room_list", rooms |-> m.rooms]
    BY <1>2, <2>1 DEF FromServer
  <2>3. /\ \A d \in Clients \ {c} : ListShown(d)' = ListShown(d)
        /\ ListShown(c)' = m
    BY <1>3, <2>1, <2>2 DEF ListShown
  <2>4. \A d \in Clients : RoomShown(d)' = RoomShown(d)
    BY <2>1 DEF RoomShown
  <2> QED BY <1>5, <2>1, <2>3, <2>4
<1>8. CASE ShowMessage(c)
  <2>1. Taken(c) /\ m.type \notin {"s2c_room_info", "s2c_room_list"} /\ UNCHANGED views
    BY <1>8 DEF ShowMessage, m
  <2>2. \A d \in Clients : RoomShown(d)' = RoomShown(d) /\ ListShown(d)' = ListShown(d)
    BY <2>1 DEF RoomShown, ListShown, views
  <2> QED BY <1>5, <2>1, <2>2
<1> QED BY <1>4, <1>6, <1>7, <1>8 DEF RecvFromServer

-----------------------------------------------------------------------------
(* A client that is served has not closed its socket, and no other         *)
(* connection has it.                                                      *)
LEMMA ServedIsOpen ==
  ASSUME ViewInv, NEW c \in Clients, NEW id, Serves(c, id)
  PROVE  /\ Writable(id) /\ mConns[id].socket \notin peerClosed
         /\ \A i \in DOMAIN mConns : mConns[i].socket = c => i = id
<1>1. c \notin peerClosed /\ id \in DOMAIN mConns /\ mConns[id].socket = c
  BY DEF ViewInv, Closed, Serves
<1>2. mConns[id].state \in {"open", "closed"}
  BY <1>1 DEF ViewInv, ToldInv, IInv, ConnectionsOK
<1>3. mConns[id].state = "open"
  BY <1>1, <1>2 DEF ViewInv, Closed
<1> QED BY <1>1, <1>3 DEF Writable, ViewInv, ToldInv, Told, OneConnectionEach

(* The driver adds to the NetService's queue what no client is told.       *)
LEMMA DriverCurrent ==
  ASSUME ViewInv, IInv', NEW e, e.op # "OP_SEND", mNetQueue' = Append(mNetQueue, e),
         UNCHANGED <<mIdUser, mIdRoom, mWorkerQueue, toClient, phase, views>>,
         DOMAIN mConns' = DOMAIN mConns,
         \A id \in DOMAIN mConns : mConns'[id].socket = mConns[id].socket
  PROVE  AllCurrent'
<1>1. IsQueue(mNetQueue)
  BY QueuesInOrder DEF ViewInv, ToldInv
<1>2. \A id : SameNews(mNetQueue', mNetQueue, id) /\ SameNews(mWorkerQueue', mWorkerQueue, id)
  BY <1>1, QuietContext, SameIsSame
<1> QED BY <1>2, NoNews DEF ViewInv, ToldInv

LEMMA DriverStepCurrent ==
  ASSUME ViewInv, IInv', NEW c \in Clients, DriverAccept(c) \/ DriverRead(c) \/ DriverLate
  PROVE  AllCurrent'
<1>1. UNCHANGED <<mIdUser, mIdRoom, phase, views>>
  BY DEF DriverAccept, DriverRead, DriverLate, keeperVars, clientVars, views
<1>2. \A id, s, m : /\ Drop(id).op # "OP_SEND" /\ Accept(s).op # "OP_SEND"
                    /\ Recv(id, m).op # "OP_SEND"
  BY DEF Drop, Accept, Recv
<1>3. CASE DriverAccept(c)
  BY <1>1, <1>2, <1>3, DriverCurrent DEF DriverAccept, AcceptSocket, wires
<1>4. CASE DriverLate
  BY <1>1, <1>2, <1>4, DriverCurrent DEF DriverLate, ReadNotOkay, wires
<1>5. CASE DriverRead(c)
  <2>1. PICK id \in DOMAIN mConns : ReadFrame(id) \/ ReadEnd(id)
    BY <1>5 DEF DriverRead, ConnOf, ReadData
  <2>2. CASE ReadFrame(id)
    BY <1>1, <1>2, <2>2, DriverCurrent DEF ReadFrame
  <2>3. CASE ReadEnd(id)
    <3>1. /\ DOMAIN mConns' = DOMAIN mConns
          /\ \A i \in DOMAIN mConns : mConns'[i].socket = mConns[i].socket
      BY <2>3 DEF ReadEnd, Close, ViewInv, ToldInv, IInv, ConnectionsOK
    <3> QED BY <1>1, <1>2, <2>3, <3>1, DriverCurrent DEF ReadEnd, wires
  <2> QED BY <2>1, <2>2, <2>3
<1> QED BY <1>3, <1>4, <1>5

-----------------------------------------------------------------------------
(* The NetService.                                                         *)
LEMMA NetNoNews ==
  ASSUME ViewInv, IInv', AcceptConnection \/ ForwardRecv \/ SendDiscarded \/ SendFails
                         \/ SendKills \/ DropConnection,
         UNCHANGED <<keeperVars, clientVars>>
  PROVE  AllCurrent'
<1> DEFINE h == Head(mNetQueue)
           t == Tail(mNetQueue)
<1> USE DEF ViewInv, ToldInv
<1>1. /\ mNetQueue # <<>>
      /\ UNCHANGED <<mIdUser, mIdRoom, toClient, phase, views>>
  BY DEF AcceptConnection, ForwardRecv, SendDiscarded, SendFails, SendKills, DropConnection, NextIs,
         netVars, wires, keeperVars, clientVars, views
<1>2. IsQueue(mNetQueue) /\ IsQueue(mWorkerQueue) /\ IsQueue(t)
  BY <1>1, TakenFromNet, QueuesInOrder
<1>3. ASSUME NEW id, h.op # "OP_SEND" \/ h.conn # id
      PROVE  /\ SameNews(t, mNetQueue, id)
             /\ h.op # "OP_SEND" => SameNews(Append(mWorkerQueue, h), mWorkerQueue, id)
  <2> HIDE DEF h
  <2> SUFFICES /\ Head(mNetQueue) = h => SameNews(Tail(mNetQueue), mNetQueue, id)
               /\ h.op # "OP_SEND" => SameNews(Append(mWorkerQueue, h), mWorkerQueue, id)
    BY DEF h
  <2> QED BY <1>1, <1>2, <1>3, QuietContext
<1>4. \A id, i : /\ SameNews(Append(mWorkerQueue, Drop(i)), mWorkerQueue, id)
                 /\ SameNews(Append(t, Drop(i)), t, id)
  <2> HIDE DEF t
  <2>1. \A i : Drop(i).op # "OP_SEND"
    BY DEF Drop
  <2> QED BY <1>2, <2>1, QuietContext
<1> HIDE DEF h, t
<1>5. CASE SendKills
  BY <1>1, <1>5, NoNews, SameIsSame DEF SendKills, queues
<1>6. CASE AcceptConnection
  <2>1. /\ h.op = "OP_ACCEPT" /\ mNetQueue' = t /\ mWorkerQueue' = mWorkerQueue
        /\ DOMAIN mConns' = DOMAIN mConns \cup {mMaxID}
        /\ \A id \in DOMAIN mConns : id # mMaxID => mConns'[id].socket = mConns[id].socket
    BY <1>6 DEF AcceptConnection, NextIs, h, t
  <2>2. mMaxID \notin DOMAIN mIdUser
    BY DEF IInv, ConnectionsOK, Ids
  <2> QED BY <1>1, <1>3, <2>1, <2>2, NoNews, SameIsSame
<1>7. CASE ForwardRecv
  <2>1. /\ h.op = "OP_RECV" /\ mNetQueue' = t /\ mWorkerQueue' = Append(mWorkerQueue, h)
        /\ mConns' = mConns
    BY <1>7 DEF ForwardRecv, NextIs, h, t, netVars
  <2> QED BY <1>1, <1>3, <2>1, NoNews
<1>8. CASE SendDiscarded
  <2>1. /\ ~Writable(h.conn) /\ mNetQueue' = t /\ mWorkerQueue' = mWorkerQueue
        /\ mConns' = mConns
    BY <1>8 DEF SendDiscarded, h, t, netVars
  <2>2. \A c \in Clients, id \in DOMAIN mConns : Serves(c, id) => id # h.conn
    BY <2>1, ServedIsOpen
  <2> QED BY <1>1, <1>3, <2>1, <2>2, NoNews, SameIsSame DEF Serves
<1>9. CASE SendFails
  <2>1. /\ h.conn \in DOMAIN mConns /\ mConns[h.conn].socket \in peerClosed
        /\ mNetQueue' = Append(t, Drop(h.conn)) /\ mWorkerQueue' = mWorkerQueue
        /\ DOMAIN mConns' = DOMAIN mConns
        /\ \A i \in DOMAIN mConns : mConns'[i].socket = mConns[i].socket
    BY <1>9 DEF SendFails, Writable, Close, h, t, IInv, ConnectionsOK
  <2>2. \A c \in Clients, id \in DOMAIN mConns : Serves(c, id) => id # h.conn
    BY <2>1, ServedIsOpen
  <2>3. \A id : id # h.conn => SameNews(mNetQueue', mNetQueue, id)
    <3> SUFFICES ASSUME NEW id, id # h.conn
                 PROVE  SameNews(mNetQueue', mNetQueue, id)
      OBVIOUS
    <3>1. SameNews(t, mNetQueue, id)
      BY <1>3
    <3>2. SameNews(mNetQueue', t, id)
      BY <1>4, <2>1
    <3> QED BY <3>1, <3>2, SameTwice
  <2> QED BY <1>1, <2>1, <2>2, <2>3, NoNews, SameIsSame DEF Serves
<1>10. CASE DropConnection
  <2>1. /\ h.op = "OP_DROP" /\ mNetQueue' = t
        /\ mWorkerQueue' = Append(mWorkerQueue, Drop(h.conn))
        /\ DOMAIN mConns' \subseteq DOMAIN mConns
        /\ \A i \in DOMAIN mConns' : mConns'[i].socket = mConns[i].socket
    BY <1>10 DEF DropConnection, NextIs, Restrict, h, t
  <2> QED BY <1>1, <1>3, <1>4, <2>1, NoNews
<1> QED BY <1>5, <1>6, <1>7, <1>8, <1>9, <1>10

(* The first context of the NetService is written to its client's socket.  *)
LEMMA WrittenArrives ==
  ASSUME NEW wire, NEW net, NEW worker, IsQueue(wire), IsQueue(net), IsQueue(worker), net # <<>>,
         Head(net).op = "OP_SEND", NEW room, NEW list, NEW rooms, NEW users,
         NEW id, id = Head(net).conn, Arrives(wire, net, worker, id, room, list, rooms, users)
  PROVE  Arrives(Append(wire, Head(net).msg), Tail(net), worker, id, room, list, rooms, users)
<1> DEFINE h == Head(net)
           s == Send(id, h.msg)
           q == Written(wire, id)
           r == Written(Append(wire, h.msg), id)
           t == Tail(net)
<1>1. IsQueue(q) /\ IsQueue(t) /\ IsQueue(Append(wire, h.msg)) /\ r = Append(q, s)
  <2>1. IsQueue(q) /\ IsQueue(t)
    BY WrittenQueue, TailOfQueue
  <2> HIDE DEF h
  <2>2. IsQueue(Append(wire, h.msg)) /\ r = Append(q, s)
    BY AppendToQueue, WrittenMore
  <2> QED BY <2>1, <2>2
<1>2. \A type : Tells(h, id, type) <=> Tells(s, id, type)
  BY DEF Tells, Send
<1>3. h.msg = s.msg
  BY DEF Send
<1> HIDE DEF h, s, q, r, t
<1>4. ASSUME NEW v
      PROVE  /\ After(<<h>>, id, v) = After(<<s>>, id, v)
             /\ Fits(<<h>>, id, v) <=> Fits(<<s>>, id, v)
  BY <1>2, <1>3, OneTells
<1>5. ASSUME NEW v
      PROVE  /\ After(r, id, v) = After(<<s>>, id, After(q, id, v))
             /\ Fits(r, id, v) <=> Fits(q, id, v) /\ Fits(<<s>>, id, After(q, id, v))
  BY <1>1, AppendedNews
<1>6. ASSUME NEW v
      PROVE  /\ After(net, id, v) = After(t, id, After(<<h>>, id, v))
             /\ Fits(net, id, v) <=> /\ Fits(<<h>>, id, v)
                                     /\ Fits(t, id, After(<<h>>, id, v))
  <2>1. After(net, id, v) = After(Tail(net), id, After(<<Head(net)>>, id, v))
    BY HeadNews
  <2>2. Fits(net, id, v) <=> /\ Fits(<<Head(net)>>, id, v)
                             /\ Fits(Tail(net), id, After(<<Head(net)>>, id, v))
    BY HeadNews
  <2> QED BY <2>1, <2>2 DEF h, t
<1>7. ASSUME NEW v
      PROVE  /\ After(t, id, After(r, id, v)) = After(net, id, After(q, id, v))
             /\ Fits(r, id, v) /\ Fits(t, id, After(r, id, v))
                  <=> Fits(q, id, v) /\ Fits(net, id, After(q, id, v))
  <2> DEFINE w == After(q, id, v)
             x == After(<<s>>, id, w)
  <2>1. After(r, id, v) = x /\ (Fits(r, id, v) <=> Fits(q, id, v) /\ Fits(<<s>>, id, w))
    BY <1>5
  <2>2. After(<<h>>, id, w) = x /\ (Fits(<<h>>, id, w) <=> Fits(<<s>>, id, w))
    BY <1>4
  <2>3. /\ After(net, id, w) = After(t, id, After(<<h>>, id, w))
        /\ Fits(net, id, w) <=> Fits(<<h>>, id, w) /\ Fits(t, id, After(<<h>>, id, w))
    BY <1>6
  <2> HIDE DEF w, x
  <2> QED BY <2>1, <2>2, <2>3 DEF w
<1>8. /\ After(worker, id, After(net, id, After(q, id, room))) = RoomOf(rooms, users, id)
      /\ After(worker, id, After(net, id, After(q, id, list))) = RoomListMsg(rooms)
      /\ Fits(q, id, room)
      /\ Fits(net, id, After(q, id, room))
      /\ Fits(worker, id, After(net, id, After(q, id, room)))
  BY ArrivesInStages DEF q
<1>9. /\ After(worker, id, After(t, id, After(r, id, room))) = RoomOf(rooms, users, id)
      /\ After(worker, id, After(t, id, After(r, id, list))) = RoomListMsg(rooms)
      /\ Fits(r, id, room)
      /\ Fits(t, id, After(r, id, room))
      /\ Fits(worker, id, After(t, id, After(r, id, room)))
  BY <1>7, <1>8
<1>10. Arrives(Append(wire, h.msg), t, worker, id, room, list, rooms, users)
  BY <1>1, <1>9, ArrivesInStages DEF r
<1> QED BY <1>10 DEF h, t

LEMMA SendWrittenCurrent ==
  ASSUME ViewInv, IInv', SendWritten, UNCHANGED <<keeperVars, clientVars>>
  PROVE  AllCurrent'
<1> DEFINE h == Head(mNetQueue)
           t == Tail(mNetQueue)
<1> USE DEF ViewInv, ToldInv
<1>1. /\ mNetQueue # <<>> /\ h.op = "OP_SEND" /\ h.conn \in DOMAIN mConns
      /\ UNCHANGED <<mIdUser, mIdRoom, phase, views, mConns, mWorkerQueue>>
      /\ toClient' = IF mConns[h.conn].socket \in peerClosed THEN toClient
                     ELSE [toClient EXCEPT ![mConns[h.conn].socket]
                             = Append(toClient[mConns[h.conn].socket], h.msg)]
      /\ mNetQueue' = t
  BY DEF SendWritten, NextIs, Writable, keeperVars, clientVars, views
<1>2. IsQueue(mNetQueue) /\ IsQueue(mWorkerQueue) /\ IsQueue(t) /\ DOMAIN toClient = Clients
  BY <1>1, TakenFromNet, QueuesInOrder DEF IInv, ClientsOK
<1> SUFFICES ASSUME NEW c \in Clients, NEW id \in DOMAIN mConns', Serves(c, id)'
             PROVE  Current(c, id)'
  BY DEF AllCurrent
<1>3. Serves(c, id)
  BY <1>1 DEF Serves
<1>4. Current(c, id) /\ id \in DOMAIN mConns /\ mConns[id].socket = c
  BY <1>3 DEF AllCurrent, Serves
<1>5. RoomShown(c)' = RoomShown(c) /\ ListShown(c)' = ListShown(c)
  BY <1>1 DEF RoomShown, ListShown, views
<1>6. /\ mConns[id].socket \notin peerClosed
      /\ \A i \in DOMAIN mConns : mConns[i].socket = c => i = id
  BY <1>3, ServedIsOpen
<1>7. CASE id = h.conn
  <2>1. toClient'[c] = Append(toClient[c], h.msg)
    BY <1>1, <1>2, <1>4, <1>6, <1>7
  <2>2. Arrives(toClient[c], mNetQueue, mWorkerQueue, id, RoomShown(c), ListShown(c),
                mIdRoom, mIdUser)
    BY <1>4 DEF Current
  <2>3. Arrives(Append(toClient[c], h.msg), t, mWorkerQueue, id, RoomShown(c), ListShown(c),
                mIdRoom, mIdUser)
    BY <1>1, <1>2, <1>7, <2>2, WrittenArrives, QueuesInOrder
  <2> HIDE DEF h, t
  <2> QED BY <1>1, <1>5, <2>1, <2>3 DEF Current
<1>8. CASE id # h.conn
  <2>1. toClient'[c] = toClient[c]
    BY <1>1, <1>2, <1>6, <1>8
  <2>2. SameNews(t, mNetQueue, id)
    <3> HIDE DEF h
    <3> SUFFICES Head(mNetQueue) = h => SameNews(Tail(mNetQueue), mNetQueue, id)
      BY DEF h
    <3> QED BY <1>1, <1>2, <1>8, QuietContext
  <2>3. Arrives(toClient[c], mNetQueue, mWorkerQueue, id, RoomShown(c), ListShown(c),
                mIdRoom, mIdUser)
    BY <1>4 DEF Current
  <2> HIDE DEF h, t
  <2>4. Arrives(toClient[c], t, mWorkerQueue, id, RoomShown(c), ListShown(c), mIdRoom, mIdUser)
    BY <1>2, <2>2, <2>3, SameArrives, SameIsSame, QueuesInOrder
  <2> QED BY <1>1, <1>5, <2>1, <2>4 DEF Current
<1> QED BY <1>7, <1>8

LEMMA NetStepCurrent ==
  ASSUME ViewInv, IInv', NetStep
  PROVE  AllCurrent'
  BY NetNoNews, SendWrittenCurrent DEF NetStep, NetProcess, SendMsg

-----------------------------------------------------------------------------
(* A context of the Worker's goes to the NetService.                       *)
LEMMA ForwardedArrives ==
  ASSUME NEW wire, NEW net, NEW worker, IsQueue(wire), IsQueue(net), IsQueue(worker),
         worker # <<>>, NEW room, NEW list, NEW rooms, NEW users,
         NEW id, Arrives(wire, net, worker, id, room, list, rooms, users)
  PROVE  Arrives(wire, Append(net, Head(worker)), Tail(worker), id, room, list, rooms, users)
<1> DEFINE n == Append(net, Head(worker))
           t == Tail(worker)
           room1 == After(Written(wire, id), id, room)
           list1 == After(Written(wire, id), id, list)
<1>1. IsQueue(n) /\ IsQueue(t)
  BY TailOfQueue, AppendToQueue
<1>2. ASSUME NEW v
      PROVE  /\ After(t, id, After(n, id, v)) = After(worker, id, After(net, id, v))
             /\ Fits(n, id, v) /\ Fits(t, id, After(n, id, v))
                  <=> Fits(net, id, v) /\ Fits(worker, id, After(net, id, v))
  <2>1. After(t, id, After(n, id, v)) = After(worker, id, After(net, id, v))
    BY MovedNews
  <2>2. Fits(n, id, v) /\ Fits(t, id, After(n, id, v))
          <=> Fits(net, id, v) /\ Fits(worker, id, After(net, id, v))
    BY MovedNews
  <2> QED BY <2>1, <2>2
<1> HIDE DEF n, t, room1, list1
<1>3. /\ After(worker, id, After(net, id, room1)) = RoomOf(rooms, users, id)
      /\ After(worker, id, After(net, id, list1)) = RoomListMsg(rooms)
      /\ Fits(Written(wire, id), id, room)
      /\ Fits(net, id, room1)
      /\ Fits(worker, id, After(net, id, room1))
  BY ArrivesInStages DEF room1, list1
<1>4. /\ After(t, id, After(n, id, room1)) = RoomOf(rooms, users, id)
      /\ After(t, id, After(n, id, list1)) = RoomListMsg(rooms)
      /\ Fits(n, id, room1)
      /\ Fits(t, id, After(n, id, room1))
  BY <1>2, <1>3
<1>5. Arrives(wire, n, t, id, room, list, rooms, users)
  BY <1>1, <1>3, <1>4, ArrivesInStages DEF room1, list1
<1> QED BY <1>5 DEF n, t

LEMMA ForwardSendCurrent ==
  ASSUME ViewInv, IInv', ForwardSend, UNCHANGED <<netVars, clientVars>>
  PROVE  AllCurrent'
<1> USE DEF ViewInv, ToldInv
<1>1. /\ mWorkerQueue # <<>>
      /\ mNetQueue' = Append(mNetQueue, Head(mWorkerQueue)) /\ mWorkerQueue' = Tail(mWorkerQueue)
      /\ UNCHANGED <<mIdUser, mIdRoom, phase, views, mConns, toClient>>
  BY DEF ForwardSend, NextIs, keeperVars, netVars, clientVars, views
<1> SUFFICES ASSUME NEW c \in Clients, NEW id \in DOMAIN mConns', Serves(c, id)'
             PROVE  Current(c, id)'
  BY DEF AllCurrent
<1>2. Current(c, id)
  BY <1>1 DEF AllCurrent, Serves
<1>3. RoomShown(c)' = RoomShown(c) /\ ListShown(c)' = ListShown(c)
  BY <1>1 DEF RoomShown, ListShown, views
<1>4. Arrives(toClient[c], mNetQueue', mWorkerQueue', id, RoomShown(c), ListShown(c),
              mIdRoom, mIdUser)
  BY <1>1, <1>2, QueuesInOrder, ForwardedArrives DEF Current
<1> QED BY <1>1, <1>3, <1>4 DEF Current

(* Everything else the Worker does tells the users what has changed.       *)
LEMMA OperationInforms ==
  ASSUME ViewInv, IInv', WorkerStep, RecvMessage \/ ProcessDrop
  PROVE  \E sent : IsQueue(sent) /\ Finish(sent) /\ Informs(sent)
<1> DEFINE u == Head(mWorkerQueue).conn
           msg == Head(mWorkerQueue).msg
<1>1. KP!IInv /\ KP!IInv' /\ IsFiniteSet(DOMAIN mIdUser)
  BY IdsAreUserIds DEF ViewInv, ToldInv, IInv
<1>2. CASE ProcessDrop
  BY <1>1, <1>2, DropInforms DEF ProcessDrop
<1>3. CASE RecvMessage
  <2>1. \/ HandleLogon(u, msg.name)
        \/ PublishChatMessage(u, msg.room)
        \/ HandleCreateRoom(u, msg.name, msg.passwd)
        \/ HandleJoinRoom(u, msg.name, msg.passwd)
        \/ HandleWhisperMsg(u, msg.to)
    BY <1>3 DEF RecvMessage
  <2> HIDE DEF u, msg
  <2> QED BY <1>1, <2>1, LogonInforms, ChatInforms, CreateInforms, JoinInforms, WhisperInforms
<1> QED BY <1>2, <1>3

LEMMA OperationCurrent ==
  ASSUME ViewInv, IInv', WorkerStep, RecvMessage \/ ProcessDrop
  PROVE  AllCurrent'
<1> USE DEF ViewInv, ToldInv
<1>1. PICK sent : IsQueue(sent) /\ Finish(sent) /\ Informs(sent)
  BY OperationInforms
<1> DEFINE h == Head(mWorkerQueue)
           t == Tail(mWorkerQueue)
<1>2. /\ mWorkerQueue # <<>> /\ h.op # "OP_SEND"
      /\ mWorkerQueue' = t \o sent /\ mNetQueue' = mNetQueue
      /\ UNCHANGED <<phase, views, mConns, toClient>>
  BY <1>1 DEF RecvMessage, ProcessDrop, NextIs, Finish, WorkerStep, netVars, clientVars, views
<1>3. /\ IsQueue(mNetQueue) /\ IsQueue(mWorkerQueue) /\ IsQueue(t)
      /\ Range(t) \subseteq Range(mWorkerQueue)
  BY <1>2, TailOfQueue, QueuesInOrder
<1> SUFFICES ASSUME NEW c \in Clients, NEW id \in DOMAIN mConns', Serves(c, id)'
             PROVE  Current(c, id)'
  BY DEF AllCurrent
<1>4. /\ id \in DOMAIN mIdUser' /\ id \in DOMAIN mConns /\ mConns[id].socket = c
      /\ id \in DOMAIN mIdUser => Serves(c, id)
  BY <1>2 DEF Serves
<1>5. RoomShown(c)' = RoomShown(c) /\ ListShown(c)' = ListShown(c) /\ toClient'[c] = toClient[c]
  BY <1>2 DEF RoomShown, ListShown, views
<1> DEFINE W == Written(toClient[c], id)
           room == After(t, id, After(mNetQueue, id, After(W, id, RoomShown(c))))
           list == After(t, id, After(mNetQueue, id, After(W, id, ListShown(c))))
<1>6. IsQueue(toClient[c]) /\ IsQueue(W)
  BY QueuesInOrder, WrittenQueue
<1>7. SameNews(t, mWorkerQueue, id)
  <2> HIDE DEF h
  <2> SUFFICES Head(mWorkerQueue) = h => SameNews(Tail(mWorkerQueue), mWorkerQueue, id)
    BY DEF h
  <2> QED BY <1>2, <1>3, QuietContext
<1> HIDE DEF h
<1>8. /\ room.type = "s2c_room_info" /\ list.type = "s2c_room_list"
  <2>1. \A q, v : IsQueue(q) => After(q, id, v).type = v.type
    BY QueueDomain, ToldKeepsType DEF After
  <2>2. RoomShown(c).type = "s2c_room_info" /\ ListShown(c).type = "s2c_room_list"
    BY DEF RoomShown, ListShown
  <2> HIDE DEF W, t
  <2> QED BY <1>3, <1>6, <2>1, <2>2
<1>9. /\ Fits(W, id, RoomShown(c))
      /\ Fits(mNetQueue, id, After(W, id, RoomShown(c)))
      /\ Fits(t, id, After(mNetQueue, id, After(W, id, RoomShown(c))))
      /\ id \in DOMAIN mIdUser => /\ room = RoomOf(mIdRoom, mIdUser, id)
                                  /\ list = RoomListMsg(mIdRoom)
  <2>1. CASE id \in DOMAIN mIdUser
    <3>1. Arrives(toClient[c], mNetQueue, mWorkerQueue, id, RoomShown(c), ListShown(c),
                  mIdRoom, mIdUser)
      BY <1>4, <2>1 DEF AllCurrent, Current
    <3>2. Arrives(toClient[c], mNetQueue, t, id, RoomShown(c), ListShown(c), mIdRoom, mIdUser)
      <4> HIDE DEF t
      <4> QED BY <1>3, <1>6, <1>7, <3>1, SameArrives, SameIsSame
    <3> HIDE DEF t
    <3> QED BY <1>3, <1>6, <3>2, ArrivesInStages
  <2>2. CASE id \notin DOMAIN mIdUser
    <3>1. \A x \in Range(t) \cup Range(mNetQueue) : ~Tells(x, id, "s2c_room_chat_msg")
      BY <1>3, <1>4, <2>2 DEF Told, ToldAreKnown, Tells, TellsRoom
    <3>2. \A m \in Range(toClient[c]) : m.type # "s2c_room_chat_msg"
      BY <1>4, <2>2 DEF Told, ToldAreKnown, TellsRoom
    <3>3. \A x \in Range(W) : ~Tells(x, id, "s2c_room_chat_msg")
      BY <1>6, <3>2, WrittenQueue DEF Tells, Send
    <3> HIDE DEF W, t
    <3> QED BY <2>2, <3>1, <3>3, NoChatFits
  <2> QED BY <2>1, <2>2
<1> HIDE DEF W, t, room, list
<1>10. /\ After(sent, id, room) = RoomOf(mIdRoom', mIdUser', id)
       /\ After(sent, id, list) = RoomListMsg(mIdRoom')
       /\ Fits(sent, id, room)
  BY <1>1, <1>4, <1>8, <1>9 DEF Informs
<1> DEFINE q == t \o sent
<1>11. IsQueue(q)
  BY <1>1, <1>3, ConcatOfQueues
<1>12. ASSUME NEW v
       PROVE  /\ After(q, id, v) = After(sent, id, After(t, id, v))
              /\ Fits(q, id, v) <=> Fits(t, id, v) /\ Fits(sent, id, After(t, id, v))
  <2>1. After(q, id, v) = After(sent, id, After(t, id, v))
    BY <1>1, <1>3, ToldInTurn
  <2>2. Fits(q, id, v) <=> Fits(t, id, v) /\ Fits(sent, id, After(t, id, v))
    BY <1>1, <1>3, FitsInTurn
  <2> QED BY <2>1, <2>2
<1> HIDE DEF q
<1>13. /\ After(q, id, After(mNetQueue, id, After(W, id, RoomShown(c))))
            = RoomOf(mIdRoom', mIdUser', id)
       /\ After(q, id, After(mNetQueue, id, After(W, id, ListShown(c)))) = RoomListMsg(mIdRoom')
       /\ Fits(q, id, After(mNetQueue, id, After(W, id, RoomShown(c))))
  BY <1>9, <1>10, <1>12 DEF room, list
<1>14. Arrives(toClient[c], mNetQueue, q, id, RoomShown(c), ListShown(c), mIdRoom', mIdUser')
  BY <1>3, <1>6, <1>9, <1>11, <1>13, ArrivesInStages DEF W
<1> QED BY <1>2, <1>5, <1>14 DEF Current, q

LEMMA WorkerStepCurrent ==
  ASSUME ViewInv, IInv', WorkerStep
  PROVE  AllCurrent'
  BY ForwardSendCurrent, OperationCurrent DEF WorkerStep, WorkerProcess

-----------------------------------------------------------------------------
LEMMA InitView == Init => ViewInv
<1> SUFFICES ASSUME Init
             PROVE  ViewInv
  OBVIOUS
<1>1. ToldInv
  BY InitIInv, InitKnows DEF ToldInv
<1>2. Closed /\ AllCurrent
  BY DEF Init, NetInit, Closed, AllCurrent
<1> QED BY <1>1, <1>2 DEF ViewInv

LEMMA StepView == ViewInv /\ [Next]_vars => ViewInv'
<1> SUFFICES ASSUME ViewInv, [Next]_vars
             PROVE  ViewInv'
  OBVIOUS
<1>1. ToldInv' /\ Closed'
  BY StepIInv, StepKnows, StepClosed DEF ViewInv, ToldInv
<1>2. IInv'
  BY <1>1 DEF ToldInv
<1>3. AllCurrent'
  <2>1. CASE WorkerStep \/ NetStep
    BY <1>2, <2>1, WorkerStepCurrent, NetStepCurrent
  <2>2. CASE DriverLate
    <3>1. CASE Clients = {}
      BY <3>1 DEF AllCurrent
    <3> QED BY <1>2, <2>2, <3>1, DriverStepCurrent
  <2>3. ASSUME NEW c \in Clients, DriverAccept(c) \/ DriverRead(c)
        PROVE  AllCurrent'
    BY <1>2, <2>3, DriverStepCurrent
  <2>4. ASSUME NEW c \in Clients, NEW n \in UserNames, StartClient(c, n)
        PROVE  AllCurrent'
    BY <2>4, StartCurrent
  <2>5. ASSUME NEW c \in Clients, TypeInput(c) \/ Exit(c) \/ RecvFromServer(c)
        PROVE  AllCurrent'
    BY <2>5, InputCurrent, LeavesCurrent, ReceptionCurrent DEF Exit
  <2>6. CASE UNCHANGED vars
    <3>1. \A c \in Clients, id \in DOMAIN mConns' : Serves(c, id)' => Serves(c, id)
      BY <2>6 DEF vars, netVars, clientVars, keeperVars, Serves
    <3> QED BY <2>6, <3>1, Unmoved DEF ViewInv, vars, keeperVars, queues, netVars, clientVars
  <2> QED BY <2>1, <2>2, <2>3, <2>4, <2>5, <2>6 DEF Next
<1> QED BY <1>1, <1>3 DEF ViewInv

LEMMA ViewsHold == Spec => []ViewInv
  BY InitView, StepView, PTL DEF Spec

(* What ViewInv says of a registered user whose client is there.           *)
LEMMA ServedAreCurrent ==
  ASSUME ViewInv, NEW s \in Served
  PROVE  /\ After(OnTheWay(s[1], s[2]), s[2], RoomShown(s[1]))
              = RoomInfoMsg(mIdRoom, mIdUser[s[2]].roomId)
         /\ After(OnTheWay(s[1], s[2]), s[2], ListShown(s[1])) = RoomListMsg(mIdRoom)
         /\ Fits(OnTheWay(s[1], s[2]), s[2], RoomShown(s[1]))
<1> DEFINE c == s[1]
           id == s[2]
<1>1. c \in Clients /\ Serves(c, id) /\ id \in DOMAIN mConns
  BY DEF Served, Serves, ConnOf
<1> HIDE DEF c, id
<1>2. Current(c, id)
  BY <1>1 DEF ViewInv, AllCurrent
<1>3. OnTheWay(c, id) = Written(toClient[c], id) \o mNetQueue \o mWorkerQueue
  BY DEF OnTheWay, Written
<1>4. /\ After(OnTheWay(c, id), id, RoomShown(c)) = RoomInfoMsg(mIdRoom, mIdUser[id].roomId)
      /\ After(OnTheWay(c, id), id, ListShown(c)) = RoomListMsg(mIdRoom)
      /\ Fits(OnTheWay(c, id), id, RoomShown(c))
  BY <1>2, <1>3 DEF Current, Arrives, RoomOf
<1> QED BY <1>4 DEF c, id

(* No user is told stale news last: once what is under way has arrived, a  *)
(* client shows the room its user is in and that room's members.  Every    *)
(* handler of the Worker publishes the rooms whose members it changes.     *)
THEOREM ViewsStayCurrent == Spec => []ViewsAreCurrent
<1>1. ViewInv => ViewsAreCurrent
  BY ServedAreCurrent DEF ViewsAreCurrent, After
<1> QED BY <1>1, ViewsHold, PTL

(* The same for the list of rooms, which logon and create publish.         *)
THEOREM RoomListsStayCurrent == Spec => []RoomListsAreCurrent
<1>1. ViewInv => RoomListsAreCurrent
  BY ServedAreCurrent DEF RoomListsAreCurrent, After
<1> QED BY <1>1, ViewsHold, PTL

(* A client shows a chat message while it shows the room the message was   *)
(* published in: the handlers enqueue a user's new room before any chat in *)
(* it, and the queues keep their order.                                    *)
THEOREM ChatsArriveInTheirRoom == Spec => []ChatShownInItsRoom
<1>1. ViewInv => ChatShownInItsRoom
  BY ServedAreCurrent DEF ChatShownInItsRoom, Fits
<1> QED BY <1>1, ViewsHold, PTL

===============================================================================
