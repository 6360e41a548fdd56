------------------------------- MODULE Contexts -------------------------------
(***************************************************************************)
(* The OperContexts (src/src/common/include/Context.hpp) and the queues of *)
(* the server's two logic services.  Each service's thread takes its       *)
(* contexts in the order they were enqueued, one at a time.                *)
(***************************************************************************)
EXTENDS Sequences

VARIABLES mWorkerQueue,   \* mQueue of the Worker
          mNetQueue       \* mQueue of the NetService

queues == <<mWorkerQueue, mNetQueue>>

Recv(connId, msg) == [op |-> "OP_RECV", conn |-> connId, msg |-> msg]
Send(connId, msg) == [op |-> "OP_SEND", conn |-> connId, msg |-> msg]
Drop(connId)      == [op |-> "OP_DROP", conn |-> connId]
Accept(socket)    == [op |-> "OP_ACCEPT", socket |-> socket]

(* The next context of a queue is of the given type. *)
NextIs(queue, op) == queue # <<>> /\ Head(queue).op = op

===============================================================================
