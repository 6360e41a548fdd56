------------------------------ MODULE Connection ------------------------------
(***************************************************************************)
(* The connections of a NetService seen from close by: TcpConnection and   *)
(* its TcpSocket, RWConnection, the events of the Driver, and the two      *)
(* threads that share them (src/src/common).                               *)
(*                                                                         *)
(* The driver's thread is in its loop, or in a handler: waiting for the    *)
(* connection's mutex ("read", "write"), inside ReadData with the mutex    *)
(* ("header", "body", "unregister").  The NetService's thread is between   *)
(* two contexts or inside one.  What is done under the mutex without       *)
(* blocking, and without an access the other thread can interleave with,   *)
(* is one step; so is an access to the table mEventsInfo, which no mutex   *)
(* protects.                                                               *)
(*                                                                         *)
(* A frame is HEAD_LENGTH units of header and BodyLength units of body,    *)
(* each unit carrying the number of its frame.                             *)
(***************************************************************************)
EXTENDS Contexts, Naturals, SequencesExt

CONSTANTS Clients,      \* the peers, one connection each
          Fds,          \* file descriptors
          None,         \* no client, no descriptor, no id
          HEAD_LENGTH,  \* units of a frame's header
          BodyLength,   \* units of a frame's body
          MessageLength, \* units of a message to a peer
          MaxFrames,    \* bound: frames a peer sends
          MaxSends,     \* bound: messages the Worker sends
          ShortWrites,  \* send() may take a part of a message
          WritesFail,   \* send() to a closed peer may fail
          Foreign       \* peers that may send a length below sizeof(int);
                        \* no program of this repository does

ASSUME ConnectionAssumption ==
  /\ None \notin Clients \cup Fds \cup Nat
  /\ HEAD_LENGTH \in Nat \ {0} /\ BodyLength \in Nat \ {0} /\ MessageLength \in Nat \ {0}
  /\ MaxFrames \in Nat /\ MaxSends \in Nat
  /\ ShortWrites \in BOOLEAN /\ WritesFail \in BOOLEAN
  /\ Foreign \subseteq Clients

Kinds == {"read", "write"}
FrameLength == HEAD_LENGTH + BodyLength
Frame(n) == [i \in 1 .. FrameLength |-> n]

VARIABLES
  backlog,      \* peers that wait to be accepted
  stream,       \* the units of each peer not yet received
  written,      \* how many units each running peer has sent
  received,     \* the units each peer was sent
  peerClosed,   \* peers that have ended
  conn,         \* each peer's TcpConnection with its TcpSocket
  mEventsInfo,  \* descriptor -> kind -> whose event is registered
  active,       \* the events the loop found readable and has yet to run
  dPc, dConn,   \* where the driver is, and in whose handler
  nPc,          \* where the NetService is in the context it processes
  taken,        \* history: the driver wrote what the NetService is about to write
  mConns,       \* connection id -> peer
  mMaxID,       \* the next connection id
  sends,        \* how many messages the Worker has sent
  ended         \* how the process ended, "no" while it runs

peers == <<backlog, stream, written, peerClosed, sends>>
driver == <<active, dPc, dConn>>
service == <<nPc, taken, mConns, mMaxID>>
vars == <<queues, peers, received, conn, mEventsInfo, driver, service, ended>>

NoConnection ==
  [object |-> "none", mConnID |-> None, fd |-> None, mClosed |-> FALSE,
   mRecved |-> <<>>, mToSendMsg |-> <<>>, mSent |-> 0,
   refused |-> FALSE]          \* history: ReadData did not accept a length

Init ==
  /\ mNetQueue = <<>> /\ mWorkerQueue = <<>>
  /\ backlog = {} /\ peerClosed = {} /\ sends = 0
  /\ stream = [c \in Clients |-> <<>>]
  /\ written = [c \in Clients |-> 0]
  /\ received = [c \in Clients |-> <<>>]
  /\ conn = [c \in Clients |-> NoConnection]
  /\ mEventsInfo = [fd \in Fds |-> [k \in Kinds |-> None]]
  /\ active = {} /\ dPc = "loop" /\ dConn = None
  /\ nPc = "idle" /\ taken = FALSE /\ mConns = [id \in {} |-> id] /\ mMaxID = 0
  /\ ended = "no"

-----------------------------------------------------------------------------
(* The peers and the Worker.                                               *)

PeerConnects(c) ==
  /\ c \notin backlog \cup peerClosed
  /\ conn[c] = NoConnection
  /\ backlog' = backlog \cup {c}
  /\ UNCHANGED <<stream, written, peerClosed, sends>>

(* The stream arrives unit by unit, whatever the frames. *)
PeerSends(c) ==
  /\ c \notin peerClosed
  /\ c \in backlog \/ conn[c].fd # None
  /\ written[c] < MaxFrames * FrameLength
  /\ written' = [written EXCEPT ![c] = @ + 1]
  /\ stream' = [stream EXCEPT ![c] = Append(@, 1 + written[c] \div FrameLength)]
  /\ UNCHANGED <<backlog, peerClosed, sends>>

(* A peer ends; the last units may be lost. *)
PeerEnds(c) ==
  /\ c \notin peerClosed
  /\ c \in backlog \/ conn[c] # NoConnection
  /\ peerClosed' = peerClosed \cup {c}
  /\ \E n \in 0 .. Len(stream[c]) :
       stream' = [stream EXCEPT ![c] = SubSeq(@, 1, n)]
  /\ written' = [written EXCEPT ![c] = 0]
  /\ UNCHANGED <<backlog, sends>>

(* The Worker answers whom it knows; it may not know yet who has gone. *)
WorkerSends(id) ==
  /\ sends < MaxSends
  /\ id < mMaxID
  /\ sends' = sends + 1
  /\ mNetQueue' = Append(mNetQueue, Send(id, sends + 1))
  /\ UNCHANGED <<mWorkerQueue, backlog, stream, written, peerClosed>>

Environment ==
  \/ /\ \E c \in Clients : PeerConnects(c) \/ PeerSends(c) \/ PeerEnds(c)
     /\ UNCHANGED <<queues, received, conn, mEventsInfo, driver, service, ended>>
  \/ /\ \E id \in 0 .. mMaxID : WorkerSends(id)
     /\ UNCHANGED <<received, conn, mEventsInfo, driver, service, ended>>

-----------------------------------------------------------------------------
(* Events and TcpConnection's helpers.                                     *)

Registered(fd, kind) == mEventsInfo[fd][kind] # None

(* Driver::RegistReadEvent and RegistWriteEvent, with RWConnection's       *)
(* assertion that they succeed.                                            *)
Regist(fd, kind, c) ==
  IF Registered(fd, kind)
  THEN ended' = "exists" /\ UNCHANGED mEventsInfo
  ELSE mEventsInfo' = [mEventsInfo EXCEPT ![fd][kind] = c] /\ UNCHANGED ended

(* Driver::UnRegistReadEvent and UnRegistWriteEvent: an event that is      *)
(* deleted does not run any more.  They fail where the descriptor has no   *)
(* events at all.                                                          *)
UnRegist(fd, kinds) ==
  /\ mEventsInfo' = [mEventsInfo EXCEPT ![fd] =
                       [k \in Kinds |-> IF k \in kinds THEN None ELSE @[k]]]
  /\ active' = active \ ({fd} \X kinds)

(* TcpSocket::Close and FreeNotSendMsg. *)
Closed(tcp) == [tcp EXCEPT !.mClosed = TRUE, !.fd = None, !.mToSendMsg = <<>>]

ResetRecv_KeepsBytes(tcp) == tcp             \* bug: what was received stays

ResetRecv(tcp) == [tcp EXCEPT !.mRecved = <<>>]

MutexFree_NotAsked(c) == TRUE                \* bug: the mutex is not taken

(* The driver is inside ReadData and has the mutex. *)
MutexFree(c) == ~(dConn = c /\ dPc \in {"header", "body", "unregister", "refuse"})

(* WriteData under the mutex, on either thread; rest is what remains of    *)
(* the NetService's queue.  send() may take less than it is offered; once  *)
(* the peer has closed, what is written is lost, or the write fails: with  *)
(* ECONNRESET, reported as a drop, or with EPIPE and the SIGPIPE nobody    *)
(* handles.  The handler runs whole: it writes at most one message.        *)
HasMessage(c) == ~conn[c].mClosed /\ conn[c].mToSendMsg # <<>>

NothingToWrite(c, rest) ==
  /\ ~HasMessage(c)
  /\ mNetQueue' = rest
  /\ UNCHANGED <<conn, received, mEventsInfo, active, ended>>

Sent_NotPopped(tcp, n) ==                    \* bug: mToSendMsg.pop_front() forgotten
  [tcp EXCEPT !.mSent = (@ + n) % MessageLength]

Sent_FromTheStart(tcp, n) ==                 \* bug: mSent += sent forgotten
  IF tcp.mSent + n = MessageLength
  THEN [tcp EXCEPT !.mToSendMsg = Tail(@)]
  ELSE tcp

Sent(tcp, n) ==
  IF tcp.mSent + n = MessageLength
  THEN [tcp EXCEPT !.mSent = 0, !.mToSendMsg = Tail(@)]
  ELSE [tcp EXCEPT !.mSent = @ + n]

WriteSome(c, rest) ==
  /\ HasMessage(c)
  /\ \E n \in 1 .. MessageLength - conn[c].mSent :
       /\ ShortWrites \/ n = MessageLength - conn[c].mSent
       /\ conn' = [conn EXCEPT ![c] = Sent(conn[c], n)]
       /\ received' = IF c \in peerClosed THEN received
                      ELSE [received EXCEPT ![c] =
                              @ \o [i \in 1 .. n |-> Head(conn[c].mToSendMsg)]]
  /\ mNetQueue' = rest
  /\ UNCHANGED <<mEventsInfo, active, ended>>

WriteFails_StillReadable(c, rest) ==         \* bug: only the write event is given back
  /\ HasMessage(c)
  /\ WritesFail /\ c \in peerClosed
  /\ conn' = [conn EXCEPT ![c] = Closed([@ EXCEPT !.mSent = 0])]
  /\ UnRegist(conn[c].fd, {"write"})
  /\ mNetQueue' = Append(rest, Drop(conn[c].mConnID))
  /\ UNCHANGED <<received, ended>>

WriteFails(c, rest) ==
  /\ HasMessage(c)
  /\ WritesFail /\ c \in peerClosed
  /\ conn' = [conn EXCEPT ![c] = Closed([@ EXCEPT !.mSent = 0])]
  /\ UnRegist(conn[c].fd, Kinds)
  /\ mNetQueue' = Append(rest, Drop(conn[c].mConnID))
  /\ UNCHANGED <<received, ended>>

WriteKills(c) ==
  /\ HasMessage(c)
  /\ WritesFail /\ c \in peerClosed
  /\ ended' = "sigpipe"
  /\ UNCHANGED <<mNetQueue, conn, received, mEventsInfo, active>>

WriteData(c, rest) ==
  NothingToWrite(c, rest) \/ WriteSome(c, rest) \/ WriteFails(c, rest) \/ WriteKills(c)

-----------------------------------------------------------------------------
(* The driver's thread.                                                    *)

Readable(fd) == \E c \in Clients :
                  conn[c].fd = fd /\ (stream[c] # <<>> \/ c \in peerClosed)

(* event_base_loop: both kinds of event wait for the socket to be          *)
(* readable, the write event is registered with EV_READ.                   *)
Poll ==
  /\ dPc = "loop" /\ active = {}
  /\ active' = {e \in Fds \X Kinds : Registered(e[1], e[2]) /\ Readable(e[1])}
  /\ active' # {}
  /\ UNCHANGED <<queues, peers, received, conn, mEventsInfo, dPc, dConn, service, ended>>

(* Accepter::ReadData, with the descriptor accept() returns. *)
AcceptSocket(c) ==
  /\ dPc = "loop"
  /\ c \in backlog
  /\ \E fd \in Fds :
       /\ \A other \in Clients : conn[other].fd # fd
       /\ conn' = [conn EXCEPT ![c].fd = fd]
  /\ backlog' = backlog \ {c}
  /\ mNetQueue' = Append(mNetQueue, Accept(c))
  /\ UNCHANGED <<mWorkerQueue, stream, written, peerClosed, sends, received, mEventsInfo,
                 driver, service, ended>>

(* ReadHandler and WriteHandler enter the connection the event names. *)
Dispatch ==
  /\ dPc = "loop"
  /\ \E e \in active : /\ active' = active \ {e}
                       /\ dPc' = e[2]
                       /\ dConn' = mEventsInfo[e[1]][e[2]]
  /\ UNCHANGED <<queues, peers, received, conn, mEventsInfo, service, ended>>

BackToLoop == dPc' = "loop" /\ dConn' = None

(* ReadData has the mutex: a header is due, or the rest of a body ... *)
EnterReadData ==
  /\ dPc = "read" /\ ~conn[dConn].mClosed
  /\ dPc' = IF conn[dConn].mRecved = <<>> THEN "header" ELSE "body"
  /\ UNCHANGED <<queues, peers, received, conn, mEventsInfo, active, dConn, service, ended>>

(* ... or the connection was closed while the driver waited for the mutex. *)
(* Where it is deleted already, this is one of the two things a freed      *)
(* object may look like; Crash is the other.                               *)
ReadNotOkay ==
  /\ dPc = "read" /\ conn[dConn].mClosed
  /\ conn' = [conn EXCEPT ![dConn] = ResetRecv(@)]
  /\ mNetQueue' = Append(mNetQueue, Drop(conn[dConn].mConnID))
  /\ BackToLoop
  /\ UNCHANGED <<mWorkerQueue, peers, received, mEventsInfo, active, service, ended>>

Crash ==
  /\ dPc \in Kinds /\ conn[dConn].object = "deleted"
  /\ ended' = "crash"
  /\ UNCHANGED <<queues, peers, received, conn, mEventsInfo, driver, service>>

Receive(c, n) ==
  /\ stream' = [stream EXCEPT ![c] = SubSeq(@, n + 1, Len(@))]
  /\ conn' = [conn EXCEPT ![c].mRecved = @ \o SubSeq(stream[c], 1, n)]

(* PreRecv waits, with the mutex, until the whole header is there.  The    *)
(* length it holds is one ReadData accepts ...                             *)
PreRecv ==
  /\ dPc = "header" /\ Len(stream[dConn]) >= HEAD_LENGTH
  /\ Receive(dConn, HEAD_LENGTH)
  /\ dPc' = "body"
  /\ UNCHANGED <<queues, backlog, written, peerClosed, sends, received, mEventsInfo, active,
                 dConn, service, ended>>

(* ... or it is below sizeof(int): Close, up to the read event.  What the  *)
(* stream still holds is lost with the socket.                             *)
RefuseLength ==
  /\ dPc = "header" /\ Len(stream[dConn]) >= HEAD_LENGTH
  /\ dConn \in Foreign
  /\ stream' = [stream EXCEPT ![dConn] = <<>>]
  /\ conn' = [conn EXCEPT ![dConn].mClosed = TRUE, ![dConn].refused = TRUE]
  /\ UnRegist(conn[dConn].fd, {"read"})
  /\ dPc' = "refuse"
  /\ UNCHANGED <<queues, backlog, written, peerClosed, sends, received, dConn, service, ended>>

(* Recv waits for at least one unit and takes what there is of the body.   *)
Missing(c) == FrameLength - Len(conn[c].mRecved)

RecvPart ==
  /\ dPc = "body" /\ stream[dConn] # <<>> /\ Len(stream[dConn]) < Missing(dConn)
  /\ Receive(dConn, Len(stream[dConn]))
  /\ BackToLoop
  /\ UNCHANGED <<queues, backlog, written, peerClosed, sends, received, mEventsInfo, active,
                 service, ended>>

RecvRest ==
  /\ dPc = "body" /\ Len(stream[dConn]) >= Missing(dConn)
  /\ LET n == Missing(dConn) IN
     /\ stream' = [stream EXCEPT ![dConn] = SubSeq(@, n + 1, Len(@))]
     /\ mNetQueue' = Append(mNetQueue,
          Recv(conn[dConn].mConnID, conn[dConn].mRecved \o SubSeq(stream[dConn], 1, n)))
  /\ conn' = [conn EXCEPT ![dConn] = ResetRecv(@)]
  /\ BackToLoop
  /\ UNCHANGED <<mWorkerQueue, backlog, written, peerClosed, sends, received, mEventsInfo, active,
                 service, ended>>

(* The stream ends in a header or in a body: Close, up to the read event.  *)
Short(c) == IF dPc = "header" THEN Len(stream[c]) < HEAD_LENGTH ELSE stream[c] = <<>>

EndOfStream ==
  /\ dPc \in {"header", "body"}
  /\ dConn \in peerClosed /\ Short(dConn)
  /\ stream' = [stream EXCEPT ![dConn] = <<>>]
  /\ conn' = [conn EXCEPT ![dConn].mClosed = TRUE]
  /\ UnRegist(conn[dConn].fd, {"read"})
  /\ dPc' = "unregister"
  /\ UNCHANGED <<queues, backlog, written, peerClosed, sends, received, dConn, service, ended>>

UnRegistAndReport_Silent ==                  \* bug: OP_DROP is not enqueued
  /\ dPc = "unregister"
  /\ Registered(conn[dConn].fd, "write")
  /\ UnRegist(conn[dConn].fd, {"write"})
  /\ conn' = [conn EXCEPT ![dConn] = ResetRecv(Closed(@))]
  /\ BackToLoop
  /\ UNCHANGED <<queues, peers, received, service, ended>>

UnRegistAndReport_StillWritable ==           \* bug: the write event stays
  /\ dPc = "unregister"
  /\ Registered(conn[dConn].fd, "write")
  /\ conn' = [conn EXCEPT ![dConn] = ResetRecv(Closed(@))]
  /\ mNetQueue' = Append(mNetQueue, Drop(conn[dConn].mConnID))
  /\ BackToLoop
  /\ UNCHANGED <<mWorkerQueue, peers, received, mEventsInfo, active, service, ended>>

(* The rest of Close and of ReadData: the write event, the socket, the     *)
(* messages, the report.  With the read event the descriptor may have lost *)
(* its entry in mEventsInfo, and the assertion fails.                      *)
UnRegistAndReport ==
  /\ dPc = "unregister"
  /\ Registered(conn[dConn].fd, "write")
  /\ UnRegist(conn[dConn].fd, {"write"})
  /\ conn' = [conn EXCEPT ![dConn] = ResetRecv(Closed(@))]
  /\ mNetQueue' = Append(mNetQueue, Drop(conn[dConn].mConnID))
  /\ BackToLoop
  /\ UNCHANGED <<mWorkerQueue, peers, received, service, ended>>

(* After a refused length err is 0: nothing is reported, and the connection *)
(* stays in mConns.                                                        *)
UnRegistSilently ==
  /\ dPc = "refuse"
  /\ Registered(conn[dConn].fd, "write")
  /\ UnRegist(conn[dConn].fd, {"write"})
  /\ conn' = [conn EXCEPT ![dConn] = Closed(@)]
  /\ BackToLoop
  /\ UNCHANGED <<queues, peers, received, service, ended>>

UnRegistAborts ==
  /\ dPc \in {"unregister", "refuse"}
  /\ ~Registered(conn[dConn].fd, "write")
  /\ ended' = "assert"
  /\ UNCHANGED <<queues, peers, received, conn, mEventsInfo, driver, service>>

DriverWrites ==
  /\ dPc = "write"
  /\ WriteData(dConn, mNetQueue)
  /\ taken' = (taken \/ (nPc = "write" /\ HasMessage(dConn) /\ ended' = "no"
                           /\ mConns[Head(mNetQueue).conn] = dConn))
  /\ BackToLoop
  /\ UNCHANGED <<mWorkerQueue, peers, nPc, mConns, mMaxID>>

DriverStep ==
  \/ Poll \/ Dispatch \/ (\E c \in Clients : AcceptSocket(c))
  \/ EnterReadData \/ ReadNotOkay \/ PreRecv \/ RefuseLength \/ RecvPart \/ RecvRest
  \/ EndOfStream \/ UnRegistAndReport \/ UnRegistSilently \/ UnRegistAborts
  \/ DriverWrites \/ Crash

-----------------------------------------------------------------------------
(* The NetService's thread, in the context at the head of its queue.       *)

NextContextIs(op) == nPc = "idle" /\ NextIs(mNetQueue, op)

(* AcceptConnection, up to the read event ... *)
AcceptConnection ==
  /\ NextContextIs("OP_ACCEPT")
  /\ LET c == Head(mNetQueue).socket IN
     /\ conn' = [conn EXCEPT ![c].object = "live", ![c].mConnID = mMaxID]
     /\ mConns' = [id \in DOMAIN mConns \cup {mMaxID} |-> IF id = mMaxID THEN c ELSE mConns[id]]
     /\ Regist(conn[c].fd, "read", c)
  /\ mMaxID' = mMaxID + 1
  /\ nPc' = "regist"
  /\ UNCHANGED <<queues, peers, received, driver, taken>>

(* ... and the write event.  The driver may have read meanwhile, even to   *)
(* the end; RegistWriteEvent has the descriptor from before.               *)
RegistWriteEvent ==
  /\ nPc = "regist"
  /\ LET c == Head(mNetQueue).socket IN
       Regist(conn[c].fd, "write", c)
  /\ mNetQueue' = Tail(mNetQueue)
  /\ nPc' = "idle"
  /\ UNCHANGED <<mWorkerQueue, peers, received, conn, driver, taken, mConns, mMaxID>>

ForwardRecv ==
  /\ NextContextIs("OP_RECV")
  /\ mWorkerQueue' = Append(mWorkerQueue, Head(mNetQueue))
  /\ mNetQueue' = Tail(mNetQueue)
  /\ UNCHANGED <<peers, received, conn, mEventsInfo, driver, service, ended>>

(* SendMsg finds no connection ... *)
SendDiscarded ==
  /\ NextContextIs("OP_SEND")
  /\ Head(mNetQueue).conn \notin DOMAIN mConns
  /\ mNetQueue' = Tail(mNetQueue)
  /\ UNCHANGED <<mWorkerQueue, peers, received, conn, mEventsInfo, driver, service, ended>>

(* ... or TcpConnection::Enqueue takes the message, under the mutex, ...   *)
SendEnqueued ==
  /\ NextContextIs("OP_SEND")
  /\ Head(mNetQueue).conn \in DOMAIN mConns
  /\ LET c == mConns[Head(mNetQueue).conn] IN
     /\ MutexFree(c)
     /\ conn' = [conn EXCEPT ![c].mToSendMsg = Append(@, Head(mNetQueue).msg)]
  /\ nPc' = "write"
  /\ UNCHANGED <<queues, peers, received, mEventsInfo, driver, taken, mConns, mMaxID, ended>>

(* ... and WriteData writes it, under the mutex again. *)
ServiceWrites ==
  /\ nPc = "write"
  /\ LET c == mConns[Head(mNetQueue).conn] IN
     /\ MutexFree(c)
     /\ WriteData(c, Tail(mNetQueue))
  /\ nPc' = "idle" /\ taken' = FALSE
  /\ UNCHANGED <<mWorkerQueue, peers, dPc, dConn, mConns, mMaxID>>

(* The Worker is told of the drop; ~TcpConnection takes the mutex once     *)
(* more and then destroys it.                                              *)
DropConnection ==
  /\ NextContextIs("OP_DROP")
  /\ LET id == Head(mNetQueue).conn
         mine == {c \in Clients : id \in DOMAIN mConns /\ mConns[id] = c} IN
     /\ \A c \in mine : MutexFree(c)
     /\ conn' = [c \in Clients |-> IF c \in mine THEN [conn[c] EXCEPT !.object = "deleted"]
                                   ELSE conn[c]]
     /\ mConns' = [i \in DOMAIN mConns \ {id} |-> mConns[i]]
     /\ mWorkerQueue' = Append(mWorkerQueue, Drop(id))
  /\ mNetQueue' = Tail(mNetQueue)
  /\ UNCHANGED <<peers, received, mEventsInfo, driver, nPc, taken, mMaxID, ended>>

ServiceStep ==
  \/ AcceptConnection \/ RegistWriteEvent \/ ForwardRecv
  \/ SendDiscarded \/ SendEnqueued \/ ServiceWrites \/ DropConnection

Next == ended = "no" /\ (Environment \/ DriverStep \/ ServiceStep)

Spec == Init /\ [][Next]_vars

(* Each thread runs on while it can.  Peers need not do anything.          *)
FairSpec == /\ Spec
            /\ WF_vars(ended = "no" /\ DriverStep)
            /\ WF_vars(ended = "no" /\ ServiceStep)

-----------------------------------------------------------------------------
(* An event the driver may run belongs to a connection that exists and     *)
(* owns the descriptor: Close gives the events back before the descriptor, *)
(* and the connection is deleted after both, so a descriptor used again    *)
(* never wakes the connection that had it before; nor is it registered a   *)
(* second time, as the assertions of RegistReadEvent and RegistWriteEvent  *)
(* say.                                                                    *)
EventsHaveOwners ==
  /\ \A fd \in Fds, k \in Kinds :
       LET c == mEventsInfo[fd][k] IN
       c # None => conn[c].object = "live" /\ conn[c].fd = fd
  /\ \A e \in active : Registered(e[1], e[2])
  /\ ended # "exists"

(* Who closes a connection, unregisters: the assertion that there is an    *)
(* event to unregister holds.                                              *)
UnRegistrationsSucceed == ended # "assert"

(* The driver does not enter a connection that has been deleted.           *)
DriverEntersLiveOnly == dConn # None => conn[dConn].object = "live"

(* What the NetService has handed on, and has yet to hand on.              *)
Pipeline == mWorkerQueue \o mNetQueue

(* However a stream is cut into pieces, and whoever else the driver serves *)
(* in between, each frame is handed on once, whole and behind those before *)
(* it, and behind the drop no frame.                                       *)
FramesIntact ==
  \A i \in DOMAIN Pipeline : Pipeline[i].op = "OP_RECV" =>
    LET id == Pipeline[i].conn
        earlier == {j \in 1 .. i - 1 : Pipeline[j].op \in {"OP_RECV", "OP_DROP"}
                                         /\ Pipeline[j].conn = id}
    IN  \E n \in 1 .. MaxFrames :
          /\ Pipeline[i] = Recv(id, Frame(n))
          /\ {Pipeline[j] : j \in earlier} = {Recv(id, Frame(m)) : m \in 1 .. n - 1}

(* What a peer receives are whole messages in the order they were sent,    *)
(* the last perhaps in part, whichever thread writes, and however much     *)
(* send() takes at a time.                                                 *)
MessagesIntact ==
  \A c \in Clients : \A i, j \in DOMAIN received[c] :
    LET Block(k) == (k - 1) \div MessageLength IN
    /\ Block(i) = Block(j) => received[c][i] = received[c][j]
    /\ Block(i) < Block(j) => received[c][i] < received[c][j]

(* WriteData writes one message, once for each message enqueued: when the  *)
(* NetService is done with a context nothing is left behind, although the  *)
(* driver writes too.  (A message left would wait for the next event.)     *)
NothingLeftUnsent ==
  (ended = "no" /\ nPc = "idle") =>
    \A c \in Clients : ~conn[c].mClosed => conn[c].mToSendMsg = <<>>

(* The Worker hears of a peer's end, unless the driver from some time on   *)
(* waits for ever for the rest of a frame of another peer.  Two exceptions *)
(* are the code's: a process that has ended, by an assertion, a crash or a *)
(* SIGPIPE, and a connection that ReadData closed for the length in a      *)
(* header, which it reports to nobody: its user would stay for ever.       *)
DriverWaits == \/ dPc = "header" /\ dConn \notin peerClosed /\ Short(dConn)
               \/ dPc = "body" /\ dConn \notin peerClosed /\ Short(dConn)
Told(c) == \E i \in DOMAIN mWorkerQueue : mWorkerQueue[i] = Drop(conn[c].mConnID)
EndIsNoticed ==
  []<>~DriverWaits =>
    \A c \in Clients :
      (c \in peerClosed /\ conn[c].object = "live") ~>
        (Told(c) \/ conn[c].refused \/ ended # "no")

-----------------------------------------------------------------------------
(* The module NetService describes the same threads in steps of whole      *)
(* handlers.  Seen through this mapping every step of the two threads is   *)
(* one of its steps or changes nothing.                                    *)

(* The context the NetService is in has had its effect.                    *)
HeadIsDone == nPc = "regist" \/ taken
QueueSeen == IF HeadIsDone THEN Tail(mNetQueue) ELSE mNetQueue

(* The driver is done with closing.                                        *)
ClosedBefore(c) == conn[c].mClosed /\ ~(dConn = c /\ dPc = "unregister")
ConnsSeen == [id \in DOMAIN mConns |->
               [socket |-> mConns[id],
                state  |-> IF ClosedBefore(mConns[id]) THEN "closed" ELSE "open"]]

LateDrops == IF dPc = "read" /\ conn[dConn].mClosed THEN {conn[dConn].mConnID} ELSE {}

(* The whole frames that have come, received in part or not at all; what   *)
(* came to a connection that is closed is lost.                            *)
FramesOf(units) ==
  [i \in 1 .. Len(units) \div FrameLength |-> Frame(units[i * FrameLength])]
FramesSeen == [c \in Clients |-> IF conn[c].mClosed THEN <<>>
                                 ELSE FramesOf(conn[c].mRecved \o stream[c])]

MessagesOf(units) ==
  [i \in 1 .. Len(units) \div MessageLength |-> units[i * MessageLength]]
MessagesSeen == [c \in Clients |-> MessagesOf(received[c])]

Net == INSTANCE NetService WITH
  mNetQueue <- QueueSeen,
  mConns <- ConnsSeen,
  lateDrops <- LateDrops,
  killed <- ended = "sigpipe",
  toServer <- FramesSeen,
  toClient <- MessagesSeen,
  SigPipeKills <- WritesFail

WholeHandler ==
  \/ Net!NetProcess
  \/ \E c \in Clients : Net!AcceptSocket(c)
  \/ \E id \in DOMAIN mConns : Net!ReadData(id)
  \/ \E id \in 0 .. mMaxID : Net!ReadNotOkay(id)

(* A handler takes effect as a whole: reading a frame in pieces, writing   *)
(* on two threads, closing and registering in several steps all amount to  *)
(* the steps of NetService that the composed system is made of.            *)
HandlersAreAtomic ==
  /\ Net!NetInit
  /\ [][Environment \/ WholeHandler]_<<Net!netVars, Net!queues>>

===============================================================================
