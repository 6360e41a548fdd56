------------------------------ MODULE NetService ------------------------------
(***************************************************************************)
(* The server's NetService (src/src/common/src/NetService.cpp), the        *)
(* Accepter and TcpConnection handlers its driver thread runs, and the     *)
(* sockets between them and the clients.                                   *)
(*                                                                         *)
(* Two threads act here: the NetService thread takes contexts from         *)
(* mNetQueue; the driver thread runs Accepter::ReadData and                *)
(* TcpConnection::ReadData when libevent finds a socket readable.          *)
(* ReadData and WriteData of one connection exclude each other by its      *)
(* mutex, so each is one step.  Sockets are blocking and a frame is read   *)
(* or written whole.                                                       *)
(***************************************************************************)
EXTENDS Contexts, Naturals, FiniteSets, Functions

CONSTANTS Clients,        \* the client processes, one socket each
          SigPipeKills    \* SIGPIPE has its default action

ASSUME SignalAssumption == SigPipeKills \in BOOLEAN

VARIABLES mConns,     \* connection id -> [socket, state]
          mMaxID,     \* the next connection id
          lateDrops,  \* connections the driver waits to read, closed meanwhile
          killed,     \* SIGPIPE ended the server
          backlog,    \* sockets connected but not yet accepted
          toServer,   \* frames on their way from each client
          toClient,   \* frames on their way to each client
          peerClosed  \* clients that have closed their socket

netVars == <<mConns, mMaxID, lateDrops, killed, backlog, toServer, toClient, peerClosed>>
wires == <<toServer, toClient, peerClosed>>

ConnOf(c) == {id \in DOMAIN mConns : mConns[id].socket = c}

NetInit ==
  /\ mNetQueue = <<>>
  /\ mConns = [id \in {} |-> id]
  /\ mMaxID = 0
  /\ lateDrops = {}
  /\ killed = FALSE
  /\ backlog = {}
  /\ toServer = [c \in Clients |-> <<>>]
  /\ toClient = [c \in Clients |-> <<>>]
  /\ peerClosed = {}

-----------------------------------------------------------------------------
(* The driver thread.                                                      *)

(* Accepter::ReadData *)
AcceptSocket(c) ==
  /\ c \in backlog
  /\ backlog' = backlog \ {c}
  /\ mNetQueue' = Append(mNetQueue, Accept(c))
  /\ UNCHANGED <<mConns, mMaxID, lateDrops, killed, wires, mWorkerQueue>>

(* TcpConnection::Close: no more reads and writes; the object stays in     *)
(* mConns until the NetService processes the drop.                         *)
Close(id) == mConns' = [mConns EXCEPT ![id].state = "closed"]

(* TcpConnection::ReadData: a whole frame is handed on ...                 *)
ReadFrame(id) ==
  LET c == mConns[id].socket IN
  /\ mConns[id].state = "open"
  /\ toServer[c] # <<>>
  /\ mNetQueue' = Append(mNetQueue, Recv(id, Head(toServer[c])))
  /\ toServer' = [toServer EXCEPT ![c] = Tail(@)]
  /\ UNCHANGED <<mConns, mMaxID, lateDrops, killed, backlog, toClient, peerClosed, mWorkerQueue>>

ReadEnd_Silent(id) ==                        \* bug: closed, but nobody is told
  /\ mConns[id].state = "open"
  /\ toServer[mConns[id].socket] = <<>>
  /\ mConns[id].socket \in peerClosed
  /\ Close(id)
  /\ UNCHANGED <<mMaxID, lateDrops, killed, backlog, wires, queues>>

(* ... and at the end of the stream the connection is closed and reported. *)
ReadEnd(id) ==
  LET c == mConns[id].socket IN
  /\ mConns[id].state = "open"
  /\ toServer[c] = <<>>
  /\ c \in peerClosed
  /\ Close(id)
  /\ mNetQueue' = Append(mNetQueue, Drop(id))
  /\ UNCHANGED <<mMaxID, lateDrops, killed, backlog, wires, mWorkerQueue>>

(* A length below sizeof(int): Close, but err is 0, so nothing is reported *)
(* and the connection stays in mConns.                                     *)
ReadRejected(id) ==
  /\ mConns[id].state = "open"
  /\ Close(id)
  /\ toServer' = [toServer EXCEPT ![mConns[id].socket] = <<>>]
  /\ UNCHANGED <<mMaxID, lateDrops, killed, backlog, toClient, peerClosed, queues>>

ReadData(id) == ReadFrame(id) \/ ReadEnd(id) \/ ReadRejected(id)

(* The driver was waiting for the mutex in ReadData when WriteData failed: *)
(* it finds the socket not okay and reports the drop a second time, maybe  *)
(* when the connection is already deleted.                                 *)
ReadNotOkay(id) ==
  /\ id \in lateDrops
  /\ lateDrops' = lateDrops \ {id}
  /\ mNetQueue' = Append(mNetQueue, Drop(id))
  /\ UNCHANGED <<mConns, mMaxID, killed, backlog, wires, mWorkerQueue>>

-----------------------------------------------------------------------------
(* The NetService thread: Process(ctx) of the context at the head.         *)

NextConnId_Same == mMaxID                    \* bug: ++mMaxID forgotten

NextConnId == mMaxID + 1

AcceptConnection ==
  /\ NextIs(mNetQueue, "OP_ACCEPT")
  /\ mConns' = [id \in DOMAIN mConns \cup {mMaxID} |->
                  IF id = mMaxID
                  THEN [socket |-> Head(mNetQueue).socket, state |-> "open"]
                  ELSE mConns[id]]
  /\ mMaxID' = NextConnId
  /\ mNetQueue' = Tail(mNetQueue)
  /\ UNCHANGED <<lateDrops, killed, backlog, wires, mWorkerQueue>>

ForwardRecv ==
  /\ NextIs(mNetQueue, "OP_RECV")
  /\ mWorkerQueue' = Append(mWorkerQueue, Head(mNetQueue))
  /\ mNetQueue' = Tail(mNetQueue)
  /\ UNCHANGED netVars

(* A message for a connection that is gone or closed is discarded.         *)
Writable(id) == id \in DOMAIN mConns /\ mConns[id].state = "open"

SendDiscarded ==
  /\ NextIs(mNetQueue, "OP_SEND")
  /\ ~Writable(Head(mNetQueue).conn)
  /\ mNetQueue' = Tail(mNetQueue)
  /\ UNCHANGED <<netVars, mWorkerQueue>>

(* TcpConnection::Enqueue and WriteData.  What is written after the peer   *)
(* closed is lost, or the write fails.                                     *)
SendWritten ==
  /\ NextIs(mNetQueue, "OP_SEND")
  /\ LET ctx == Head(mNetQueue) IN
     /\ Writable(ctx.conn)
     /\ LET c == mConns[ctx.conn].socket IN
        toClient' = IF c \in peerClosed THEN toClient
                    ELSE [toClient EXCEPT ![c] = Append(@, ctx.msg)]
  /\ mNetQueue' = Tail(mNetQueue)
  /\ UNCHANGED <<mConns, mMaxID, lateDrops, killed, backlog, toServer, peerClosed, mWorkerQueue>>

(* send() fails with ECONNRESET: close, which loses what was still to be   *)
(* read, and report the drop to oneself.                                   *)
SendFails ==
  /\ NextIs(mNetQueue, "OP_SEND")
  /\ LET id == Head(mNetQueue).conn IN
     /\ Writable(id)
     /\ mConns[id].socket \in peerClosed
     /\ Close(id)
     /\ toServer' = [toServer EXCEPT ![mConns[id].socket] = <<>>]
     /\ lateDrops' \in {lateDrops, lateDrops \cup {id}}
     /\ mNetQueue' = Append(Tail(mNetQueue), Drop(id))
  /\ UNCHANGED <<mMaxID, killed, backlog, toClient, peerClosed, mWorkerQueue>>

(* send() fails with EPIPE, which comes with a SIGPIPE nobody handles.     *)
SendKills ==
  /\ SigPipeKills
  /\ NextIs(mNetQueue, "OP_SEND")
  /\ Writable(Head(mNetQueue).conn)
  /\ mConns[Head(mNetQueue).conn].socket \in peerClosed
  /\ killed' = TRUE
  /\ UNCHANGED <<mConns, mMaxID, lateDrops, backlog, wires, queues>>

SendMsg == SendDiscarded \/ SendWritten \/ SendFails \/ SendKills

DropConnection_WorkerUntold ==               \* bug: the drop is not forwarded
  /\ NextIs(mNetQueue, "OP_DROP")
  /\ mConns' = Restrict(mConns, DOMAIN mConns \ {Head(mNetQueue).conn})
  /\ mNetQueue' = Tail(mNetQueue)
  /\ UNCHANGED <<mMaxID, lateDrops, killed, backlog, wires, mWorkerQueue>>

DropConnection_Urgent ==                     \* bug: the drop overtakes what was received
  /\ NextIs(mNetQueue, "OP_DROP")
  /\ LET id == Head(mNetQueue).conn IN
     /\ mWorkerQueue' = <<Drop(id)>> \o mWorkerQueue
     /\ mConns' = Restrict(mConns, DOMAIN mConns \ {id})
  /\ mNetQueue' = Tail(mNetQueue)
  /\ UNCHANGED <<mMaxID, lateDrops, killed, backlog, wires>>

(* OP_DROP: the Worker is told first, then the connection is deleted.      *)
DropConnection ==
  /\ NextIs(mNetQueue, "OP_DROP")
  /\ LET id == Head(mNetQueue).conn IN
     /\ mWorkerQueue' = Append(mWorkerQueue, Drop(id))
     /\ mConns' = Restrict(mConns, DOMAIN mConns \ {id})
  /\ mNetQueue' = Tail(mNetQueue)
  /\ UNCHANGED <<mMaxID, lateDrops, killed, backlog, wires>>

NetProcess == AcceptConnection \/ ForwardRecv \/ SendMsg \/ DropConnection

===============================================================================
