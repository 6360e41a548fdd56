------------------------------ MODULE ChatSystem ------------------------------
(***************************************************************************)
(* The server's threads and its clients together.                          *)
(*                                                                         *)
(* A client (src/src/Main/client/Client.cpp) is one process with one       *)
(* connection.  Its user types, its CRClient service handles what the      *)
(* server sends.  Its own queues and its socket are one FIFO each way.     *)
(***************************************************************************)
EXTENDS Worker, NetService

CONSTANTS MaxInputs,      \* how many commands the users, together, type
          TypedRooms,     \* the rooms they name in /c and /j
          InputKinds,     \* which kinds of commands they type; "exit" lets
                          \* a client end at any time
          PatientUsers    \* users type nothing before they see a room

ASSUME ClientAssumption ==
  /\ MaxInputs \in Nat
  /\ TypedRooms \subseteq RoomNames
  /\ InputKinds \subseteq {"chat", "create", "join", "leave", "whisper", "exit"}
  /\ PatientUsers \in BOOLEAN

(* A client connects once, so there are as many connection ids as clients. *)
ASSUME ConnectionIds ==
  /\ IsFiniteSet(Clients)
  /\ 0 .. (Cardinality(Clients) - 1) \subseteq UserIds

VARIABLES phase,          \* "idle", "up" or "exited", per client
          mCurrentRoom,   \* the id of the room a client shows
          mOnlines,       \* the users it shows there
          mRooms,         \* the rooms it lists
          typed           \* the kinds of commands typed, each at most once

clientVars == <<phase, mCurrentRoom, mOnlines, mRooms, typed>>
views == <<mCurrentRoom, mOnlines, mRooms>>
vars == <<keeperVars, queues, netVars, clientVars>>

ClientInit ==
  /\ phase = [c \in Clients |-> "idle"]
  /\ mCurrentRoom = [c \in Clients |-> INVALID_ROOM_ID]
  /\ mOnlines = [c \in Clients |-> {}]
  /\ mRooms = [c \in Clients |-> {}]
  /\ typed = {}

-----------------------------------------------------------------------------
(* CRClient::Init connects, the first thing Layout does is SendLogon.      *)
StartClient(c, name) ==
  /\ phase[c] = "idle"
  /\ phase' = [phase EXCEPT ![c] = "up"]
  /\ backlog' = backlog \cup {c}
  /\ toServer' = [toServer EXCEPT ![c] = <<C2sLogon(name)>>]
  /\ UNCHANGED <<keeperVars, queues, mConns, mMaxID, lateDrops, killed, toClient, peerClosed,
                 views, typed>>

(* The user gives a command: CRClient::HandleInput.  /w and /q take a way   *)
(* of their own through the CRClient's queue; for them this is the moment  *)
(* CRClient handles the command and sends what comes of it, so a command   *)
(* typed after them may be sent before them.                               *)
Types(c, kind, msg) ==
  /\ phase[c] = "up"
  /\ kind \in InputKinds
  /\ kind \notin typed
  /\ Cardinality(typed) < MaxInputs
  /\ PatientUsers => mCurrentRoom[c] # INVALID_ROOM_ID
  /\ typed' = typed \cup {kind}
  /\ toServer' = [toServer EXCEPT ![c] = Append(@, msg)]
  /\ UNCHANGED <<keeperVars, queues, mConns, mMaxID, lateDrops, killed, backlog, toClient,
                 peerClosed, phase, views>>

(* Anything that is not a command goes to the room the client shows.       *)
TypeChat(c) == Types(c, "chat", C2sChat(mCurrentRoom[c]))

(* The parser accepts no empty password with /c and /j.                    *)
TypeCreate(c) == \E r \in TypedRooms, p \in Passwords \ {NoPasswd} :
                   Types(c, "create", C2sCreate(r, p))
TypeJoin(c) == \E r \in TypedRooms, p \in Passwords \ {NoPasswd} :
                 Types(c, "join", C2sJoin(r, p))
TypeWhisper(c) == \E n \in UserNames : Types(c, "whisper", C2sWhisper(n))

(* /q: in the Hall it ends the program (Exit), elsewhere it joins the Hall. *)
TypeLeave(c) == /\ mCurrentRoom[c] # Keeper!HALL_ID
                /\ Types(c, "leave", C2sJoin(HALL_NAME, NoPasswd))

TypeInput(c) == \/ TypeChat(c) \/ TypeCreate(c) \/ TypeJoin(c)
                \/ TypeWhisper(c) \/ TypeLeave(c)

(* The process ends: /e, /q in the Hall, a refused logon, a crash.  What   *)
(* the client had not yet sent is lost.                                    *)
Leaves(c) ==
  /\ phase' = [phase EXCEPT ![c] = "exited"]
  /\ peerClosed' = peerClosed \cup {c}
  /\ toClient' = [toClient EXCEPT ![c] = <<>>]
  /\ mCurrentRoom' = [mCurrentRoom EXCEPT ![c] = INVALID_ROOM_ID]
  /\ mOnlines' = [mOnlines EXCEPT ![c] = {}]
  /\ mRooms' = [mRooms EXCEPT ![c] = {}]
  /\ UNCHANGED <<keeperVars, queues, mConns, mMaxID, lateDrops, killed, backlog, typed>>

Exit(c) ==
  /\ phase[c] = "up"
  /\ "exit" \in InputKinds
  /\ Leaves(c)
  /\ \E k \in 0 .. Len(toServer[c]) :
       toServer' = [toServer EXCEPT ![c] = SubSeq(@, 1, k)]

(* CRClient::RecvMessage, for the messages that change what it shows.      *)
Receives(c) == /\ phase[c] = "up"
               /\ toClient[c] # <<>>
Taken(c) == /\ toClient' = [toClient EXCEPT ![c] = Tail(@)]
            /\ UNCHANGED <<keeperVars, queues, mConns, mMaxID, lateDrops, killed, backlog,
                           toServer, peerClosed, phase, typed>>

ParseRoomInfo(c) ==
  /\ Receives(c)
  /\ LET msg == Head(toClient[c]) IN
     /\ msg.type = "s2c_room_info"
     /\ mCurrentRoom' = [mCurrentRoom EXCEPT ![c] = msg.room]
     /\ mOnlines' = [mOnlines EXCEPT ![c] = msg.users]
  /\ UNCHANGED mRooms
  /\ Taken(c)

HandleUpdateRoomList(c) ==
  /\ Receives(c)
  /\ LET msg == Head(toClient[c]) IN
     /\ msg.type = "s2c_room_list"
     /\ mRooms' = [mRooms EXCEPT ![c] = msg.rooms]
  /\ UNCHANGED <<mCurrentRoom, mOnlines>>
  /\ Taken(c)

LogonRefused(c) == /\ Head(toClient[c]).type = "s2c_logon_res"
                   /\ Head(toClient[c]).err # "ok"

(* A refused logon: exit(err).                                             *)
HandleLogonRes(c) ==
  /\ Receives(c)
  /\ LogonRefused(c)
  /\ Leaves(c)
  /\ UNCHANGED toServer

(* Chats, whispers and answers are only shown.                             *)
ShowMessage(c) ==
  /\ Receives(c)
  /\ Head(toClient[c]).type \notin {"s2c_room_info", "s2c_room_list"}
  /\ ~LogonRefused(c)
  /\ UNCHANGED views
  /\ Taken(c)

RecvFromServer(c) == \/ ParseRoomInfo(c) \/ HandleUpdateRoomList(c)
                     \/ HandleLogonRes(c) \/ ShowMessage(c)

-----------------------------------------------------------------------------
ServerUp == failed = "none" /\ ~killed

WorkerStep == ServerUp /\ WorkerProcess /\ UNCHANGED <<netVars, clientVars>>
NetStep == ServerUp /\ NetProcess /\ UNCHANGED <<keeperVars, clientVars>>
DriverAccept(c) == ServerUp /\ AcceptSocket(c) /\ UNCHANGED <<keeperVars, clientVars>>

(* TcpConnection::ReadData.  Every peer here is a CRClient, whose messages *)
(* begin with their type: no length is below sizeof(int), and the third    *)
(* outcome, ReadRejected, is left to the module Connection.                *)
DriverRead(c) == /\ ServerUp
                 /\ \E id \in ConnOf(c) : ReadFrame(id) \/ ReadEnd(id)
                 /\ UNCHANGED <<keeperVars, clientVars>>
DriverLate == /\ ServerUp
              /\ \E id \in lateDrops : ReadNotOkay(id)
              /\ UNCHANGED <<keeperVars, clientVars>>

Init == WorkerInit /\ NetInit /\ ClientInit

Next ==
  \/ WorkerStep
  \/ NetStep
  \/ DriverLate
  \/ \E c \in Clients :
       \/ DriverAccept(c)
       \/ DriverRead(c)
       \/ \E n \in UserNames : StartClient(c, n)
       \/ TypeInput(c)
       \/ Exit(c)
       \/ RecvFromServer(c)

Spec == Init /\ [][Next]_vars

(* Every thread that has something to do does it some day.  Users need not *)
(* type, and a client need not exit.                                       *)
Fairness ==
  /\ WF_vars(WorkerStep)
  /\ WF_vars(NetStep)
  /\ WF_vars(DriverLate)
  /\ \A c \in Clients : /\ WF_vars(DriverAccept(c))
                        /\ WF_vars(DriverRead(c))
                        /\ WF_vars(RecvFromServer(c))

FairSpec == Spec /\ Fairness

-----------------------------------------------------------------------------
(* What is on its way to client c over connection id, as contexts: first   *)
(* what is written, then what the NetService and the Worker have queued.   *)
OnTheWay(c, id) ==
  [i \in DOMAIN toClient[c] |-> Send(id, toClient[c][i])] \o mNetQueue \o mWorkerQueue

Tells(ctx, id, type) == ctx.op = "OP_SEND" /\ ctx.conn = id /\ ctx.msg.type = type

(* What the client of a connection shows when the first n contexts of a    *)
(* queue have reached it: the last message told of the type of what it     *)
(* showed before, or still that.                                           *)
LastTold(queue, n, id, shown) ==
  LET told == {i \in 1 .. n : Tells(queue[i], id, shown.type)}
  IN  IF told = {} THEN shown ELSE queue[Max(told)].msg

(* What a client shows, as the message that would make it show that.       *)
RoomShown(c) == [type |-> "s2c_room_info", room |-> mCurrentRoom[c], users |-> mOnlines[c]]
ListShown(c) == [type |-> "s2c_room_list", rooms |-> mRooms[c]]

(* The registered users whose client is there to be told.                  *)
Served == {s \in Clients \X DOMAIN mIdUser :
             phase[s[1]] = "up" /\ s[2] \in ConnOf(s[1])}

(* Type correctness of the queues, the connections and the clients. *)
TypeOK ==
  /\ \A i \in DOMAIN mWorkerQueue : mWorkerQueue[i].op \in {"OP_RECV", "OP_SEND", "OP_DROP"}
  /\ \A i \in DOMAIN mNetQueue :
       mNetQueue[i].op \in {"OP_RECV", "OP_SEND", "OP_DROP", "OP_ACCEPT"}
  /\ DOMAIN mConns = {id \in UserIds : id \in DOMAIN mConns}
  /\ \A id \in DOMAIN mConns : /\ id < mMaxID
                               /\ mConns[id].socket \in Clients
                               /\ mConns[id].state \in {"open", "closed"}
  /\ phase \in [Clients -> {"idle", "up", "exited"}]
  /\ mCurrentRoom \in [Clients -> DOMAIN mIdRoom \cup {INVALID_ROOM_ID}]
  /\ mOnlines \in [Clients -> SUBSET UserIds]
  /\ mRooms \in [Clients -> SUBSET DOMAIN mIdRoom]

(* No user outlives its connection: whoever is registered has a connection *)
(* or its OP_DROP is waiting for the Worker.  A logon that was overtaken   *)
(* by the drop of its connection would register a user nobody removes.     *)
NoGhostUser ==
  \A u \in DOMAIN mIdUser :
    \/ u \in DOMAIN mConns
    \/ \E i \in DOMAIN mWorkerQueue :
         mWorkerQueue[i].op = "OP_DROP" /\ mWorkerQueue[i].conn = u

(* Nothing received from a connection comes after its drop, in the queue   *)
(* of the NetService and the Worker's: ReadData of a closed connection     *)
(* reports the end of the stream and never another frame.                  *)
NothingAfterDrop ==
  LET pipeline == mWorkerQueue \o mNetQueue IN
  \A i, j \in DOMAIN pipeline :
    (i < j /\ pipeline[i].op = "OP_DROP" /\ pipeline[j].op = "OP_RECV")
      => pipeline[i].conn # pipeline[j].conn

(* No user is told stale news last: once everything on its way has arrived *)
(* a client shows the room its user is in and exactly that room's members  *)
(* (every operation that changes a room's members publishes the room).     *)
ViewsAreCurrent ==
  \A s \in Served :
    LET way == OnTheWay(s[1], s[2])
    IN  LastTold(way, Len(way), s[2], RoomShown(s[1])) = RoomInfoMsg(mIdRoom, mIdUser[s[2]].roomId)

(* The same for the list of rooms, which logon and create publish.         *)
RoomListsAreCurrent ==
  \A s \in Served :
    LET way == OnTheWay(s[1], s[2])
    IN  LastTold(way, Len(way), s[2], ListShown(s[1])) = RoomListMsg(mIdRoom)

(* A client shows a chat message while it shows the room the message was   *)
(* published in: a user who moves sees no message of the new room before   *)
(* the room itself, and none of the old room after it.                     *)
ChatShownInItsRoom ==
  \A s \in Served :
    LET way == OnTheWay(s[1], s[2]) IN
    \A n \in DOMAIN way :
      Tells(way[n], s[2], "s2c_room_chat_msg") =>
        way[n].msg.room = LastTold(way, n - 1, s[2], RoomShown(s[1])).room

(* With users who wait for a room before they type, no message makes the   *)
(* server look up a sender or a room it does not know and abort.           *)
LookupsSucceed == failed # "lookup"

(* A started client is answered: it shows a room or it has ended.  Not so  *)
(* when SIGPIPE has ended the server, which any client can bring about     *)
(* that ends while it is written to: CRClient::HandleDrop does nothing, so *)
(* the others wait for ever.                                               *)
LogonAnswered ==
  \A c \in Clients :
    phase[c] = "up" ~> (mCurrentRoom[c] # INVALID_ROOM_ID \/ phase[c] = "exited" \/ killed)

(* When clients are gone a server that lives comes to forget them for      *)
(* good: their connections are deleted, and no user, no name and no member *)
(* of a room is left but those of clients that are there (ReadData's drop, *)
(* DropConnection, RoomKeeper::HandleDrop, whatever overtakes what).       *)
DepartureNoticed ==
  LET there == {s[2] : s \in Served} IN
  <>[](\/ killed
       \/ /\ \A c \in Clients : phase[c] = "exited" => c \notin backlog /\ ConnOf(c) = {}
          /\ DOMAIN mIdUser \cup Range(mUserNames) \subseteq there
          /\ \A r \in DOMAIN mIdRoom : mIdRoom[r].users \subseteq there)

(* When the users stop typing, and as long as no SIGPIPE ends the server,  *)
(* what the clients show settles on the truth: nobody goes on to show a    *)
(* user who has left.                                                      *)
ViewsSettle ==
  <>[](\/ killed
       \/ \A s \in Served :
            LET room == mIdUser[s[2]].roomId IN
            <<mCurrentRoom[s[1]], mOnlines[s[1]]>> = <<room, mIdRoom[room].users>>)

===============================================================================
