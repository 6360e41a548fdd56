-------------------------------- MODULE Worker --------------------------------
(***************************************************************************)
(* The Worker: src/src/Main/server/Worker.cpp.  One thread takes contexts  *)
(* from mWorkerQueue.  A message received from a connection runs one       *)
(* operation of the RoomKeeper; everything the operation sends is put on   *)
(* the Worker's own queue as OP_SEND contexts, in order, and handed to the *)
(* NetService when their turn comes.                                       *)
(*                                                                         *)
(* A message is a record: its type and the fields the rest of the system   *)
(* tells apart.  Texts are left out.  `room' of a chat message to a client *)
(* is the room it was published in; the client is not sent it.             *)
(***************************************************************************)
EXTENDS Contexts, Naturals, FiniteSets, SequencesExt

CONSTANTS UserIds, UserNames, RoomNames, Passwords, HALL_NAME, NoPasswd,
          INVALID_ROOM_ID

(* What RoomKeeper assumes of its constants.                               *)
ASSUME RegistryAssumption ==
  /\ UserIds \subseteq Nat
  /\ HALL_NAME \in RoomNames
  /\ INVALID_ROOM_ID \in Nat
  /\ NoPasswd \in Passwords

VARIABLES mIdUser, mUserNames, mIdRoom, mRoomNames, mRoomId, failed

Keeper == INSTANCE RoomKeeper

keeperVars == <<mIdUser, mUserNames, mIdRoom, mRoomNames, mRoomId, failed>>

-----------------------------------------------------------------------------
(* Messages from clients.                                                  *)
C2sLogon(name)         == [type |-> "c2s_logon", name |-> name]
C2sChat(roomId)        == [type |-> "c2s_publish_chat_msg", room |-> roomId]
C2sCreate(name, pw)    == [type |-> "c2s_create_room", name |-> name, passwd |-> pw]
C2sJoin(name, pw)      == [type |-> "c2s_join_room", name |-> name, passwd |-> pw]
C2sWhisper(to)         == [type |-> "c2s_whisper_msg", to |-> to]

(* Messages to clients.                                                    *)
RoomInfoMsg(rooms, r)  == [type |-> "s2c_room_info", room |-> r, users |-> rooms[r].users]
RoomListMsg(rooms)     == [type |-> "s2c_room_list", rooms |-> DOMAIN rooms]
ChatMsg(roomId)        == [type |-> "s2c_room_chat_msg", room |-> roomId]
Reply(type, err)       == [type |-> type, err |-> err]

(* A set of users as the code iterates over it: its sets and maps are       *)
(* ordered by id.                                                          *)
InOrder(users) ==
  CHOOSE ids \in [1 .. Cardinality(users) -> users] :
    \A i, j \in 1 .. Cardinality(users) : i < j => ids[i] < ids[j]

(* One copy of a message to each of a set of users.                        *)
SendToAll_OffByOne(users, msg) ==            \* bug: the last user is skipped
  [i \in 1 .. Cardinality(users) - 1 |-> Send(InOrder(users)[i], msg)]

SendToAll(users, msg) ==
  [i \in 1 .. Cardinality(users) |-> Send(InOrder(users)[i], msg)]

PublishRoomInfo(rooms, r) == SendToAll(rooms[r].users, RoomInfoMsg(rooms, r))

(* A connection id of 0 stands for "all users", also when it is the id of  *)
(* a connection.                                                           *)
PublishRoomList_Requester(connId, rooms, users) ==   \* bug: nobody else is sent it
  <<Send(connId, RoomListMsg(rooms))>>

PublishRoomList(connId, rooms, users) ==
  IF connId # 0 THEN <<Send(connId, RoomListMsg(rooms))>>
  ELSE SendToAll(DOMAIN users, RoomListMsg(rooms))

(* The context being processed is gone, `sent' is enqueued.                *)
Finish(sent) == mWorkerQueue' = Tail(mWorkerQueue) \o sent /\ UNCHANGED mNetQueue

-----------------------------------------------------------------------------
HandleLogon(connId, name) ==
  LET err == Keeper!LogonErr(connId, name) IN
  /\ Keeper!HandleLogon(connId, name)
  /\ Finish((IF err = "ok" THEN PublishRoomInfo(mIdRoom', mRoomNames[HALL_NAME])
                           ELSE <<>>)
            \o <<Send(connId, Reply("s2c_logon_res", err))>>
            \o PublishRoomList(connId, mIdRoom', mIdUser'))

PublishChatMessage_ToEverybody(connId, roomId) ==    \* bug: the room is ignored
  /\ Keeper!PublishRoomMessage(roomId, connId)
  /\ Finish(SendToAll(DOMAIN mIdUser, ChatMsg(roomId)))

PublishChatMessage(connId, roomId) ==
  /\ Keeper!PublishRoomMessage(roomId, connId)
  /\ Finish(IF Keeper!ChatLookups(roomId, connId)
            THEN SendToAll(mIdRoom[roomId].users, ChatMsg(roomId)) ELSE <<>>)

HandleCreateRoom(connId, name, passwd) ==
  LET err == Keeper!CreateErr(name) IN
  /\ Keeper!CreateRoom(name, passwd)
  /\ Finish(<<Send(connId, Reply("s2c_create_room_res", err))>>
            \o PublishRoomList(0, mIdRoom', mIdUser'))

HandleJoinRoom_OldRoomUntold(connId, name, passwd) ==   \* bug: only the new room is told
  LET err == Keeper!HandleJoinErr(name, passwd, connId) IN
  /\ Keeper!HandleJoinRoom(name, passwd, connId)
  /\ Finish((IF err = "ok" THEN PublishRoomInfo(mIdRoom', mRoomNames[name]) ELSE <<>>)
            \o <<Send(connId, Reply("s2c_join_room_res", err))>>)

(* The new room is told first, then the room that was left, then the user. *)
HandleJoinRoom(connId, name, passwd) ==
  LET err == Keeper!HandleJoinErr(name, passwd, connId) IN
  /\ Keeper!HandleJoinRoom(name, passwd, connId)
  /\ Finish((IF err = "ok"
             THEN PublishRoomInfo(mIdRoom', mRoomNames[name])
                  \o PublishRoomInfo(mIdRoom', Keeper!LeftRoom(connId))
             ELSE <<>>)
            \o <<Send(connId, Reply("s2c_join_room_res", err))>>)

HandleWhisperMsg(connId, to) ==
  LET target == Keeper!GetUserByName(to) IN
  /\ Keeper!GetUserById(connId)
  /\ Finish(IF target = {} THEN <<Send(connId, [type |-> "s2c_whisper_msg_failed"])>>
            ELSE SendToAll(target, [type |-> "s2c_whisper_msg"]))

HandleDrop_Unpublished(connId) ==            \* bug: the room is not told
  Keeper!HandleDrop(connId) /\ Finish(<<>>)

HandleDrop(connId) ==
  /\ Keeper!HandleDrop(connId)
  /\ Finish(IF connId \in DOMAIN mIdUser
            THEN PublishRoomInfo(mIdRoom', mIdUser[connId].roomId) ELSE <<>>)

-----------------------------------------------------------------------------
(* Process(ctx): what the thread does with the context at the head.        *)
RecvMessage ==
  /\ NextIs(mWorkerQueue, "OP_RECV")
  /\ LET connId == Head(mWorkerQueue).conn
         msg == Head(mWorkerQueue).msg IN
     \/ msg.type = "c2s_logon" /\ HandleLogon(connId, msg.name)
     \/ msg.type = "c2s_publish_chat_msg" /\ PublishChatMessage(connId, msg.room)
     \/ msg.type = "c2s_create_room" /\ HandleCreateRoom(connId, msg.name, msg.passwd)
     \/ msg.type = "c2s_join_room" /\ HandleJoinRoom(connId, msg.name, msg.passwd)
     \/ msg.type = "c2s_whisper_msg" /\ HandleWhisperMsg(connId, msg.to)

ForwardSend ==
  /\ NextIs(mWorkerQueue, "OP_SEND")
  /\ mNetQueue' = Append(mNetQueue, Head(mWorkerQueue))
  /\ mWorkerQueue' = Tail(mWorkerQueue)
  /\ UNCHANGED keeperVars

ProcessDrop ==
  /\ NextIs(mWorkerQueue, "OP_DROP")
  /\ HandleDrop(Head(mWorkerQueue).conn)

WorkerProcess == failed = "none" /\ (RecvMessage \/ ForwardSend \/ ProcessDrop)

WorkerInit == mWorkerQueue = <<>> /\ Keeper!Init

===============================================================================
