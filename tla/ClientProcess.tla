---------------------------- MODULE ClientProcess -----------------------------
(***************************************************************************)
(* The client from its start to its end: main (src/src/Main/main.cpp and   *)
(* Layout::Start) starts the CRClient, whose Init starts its NetService,   *)
(* whose Init starts the driver; main then reads what the user types; at   *)
(* the end each stops and joins the next.                                  *)
(*                                                                         *)
(* CR and Net are two instances of LogicService.  The driver is in its     *)
(* loop or in a handler that is about to lock the connection's mutex       *)
(* ("read"); a handler then runs whole, as Connection shows it may.  What  *)
(* this module looks at is which thread may still call which object.       *)
(***************************************************************************)
EXTENDS Naturals, FiniteSets, SequencesExt

CONSTANTS Chats,            \* lines that HandleInput sends itself
          LocalLines,       \* lines that make a detour through CRClient: /w ...
          LEAVE,            \* ... and /q, typed in a room
          LOGON,            \* what SendLogon sends
          START,            \* the OP_START contexts
          MaxLines,         \* bound: lines the user types
          MaxTraffic,       \* bound: these lines and the frames of the server
          ConnectMayFail    \* StartConnectRemote can return an error

ASSUME ClientAssumption ==
  /\ LEAVE \in LocalLines /\ LOGON \notin Chats \cup LocalLines
  /\ MaxLines \in Nat /\ MaxTraffic \in Nat
  /\ ConnectMayFail \in BOOLEAN

Recv(x) == <<"OP_RECV", x>>
Send(x) == <<"OP_SEND", x>>
Drop(x) == <<"OP_DROP", x>>

Frames == 1 .. MaxTraffic
Drops == {Drop("reader"), Drop("writer")}
CRMsgs == {Recv(x) : x \in Frames \cup LocalLines} \cup Drops
NetMsgs == CRMsgs \cup {Send(x) : x \in Chats \cup LocalLines \cup {LOGON}}

ASSUME StartAssumption == START \notin NetMsgs

(* What the user types is not what the server sends.                       *)
ASSUME LinesAssumption == LocalLines \cap Frames = {}

VARIABLES
  cRunning, cQueue, cVec, cPc, cOwner, cEnqueued, cHandled, cAborted,
  nRunning, nQueue, nVec, nPc, nOwner, nEnqueued, nHandled, nAborted,
  mPc,          \* where main is
  mCdkRunning,  \* whether the window goes on asking for input
  fPc,          \* where NetService::Finit is
  dPc,          \* where the driver's thread is
  conn,         \* the connection: "none", "open", "closed" or "deleted"
  wire,         \* frames the driver has not read
  answered,     \* how many frames the server has sent
  toServer,     \* what the server has received
  serverEnded,
  failed        \* how the process failed, "no" as long as it has not

CR == INSTANCE LogicService WITH
  mRunning <- cRunning, mQueue <- cQueue, ctxVec <- cVec, sPc <- cPc, oPc <- cOwner,
  enqueued <- cEnqueued, handled <- cHandled, aborted <- cAborted,
  Msgs <- CRMsgs, InitMayFail <- ConnectMayFail, SpuriousWakeups <- FALSE

Net == INSTANCE LogicService WITH
  mRunning <- nRunning, mQueue <- nQueue, ctxVec <- nVec, sPc <- nPc, oPc <- nOwner,
  enqueued <- nEnqueued, handled <- nHandled, aborted <- nAborted,
  Msgs <- NetMsgs, InitMayFail <- FALSE, SpuriousWakeups <- FALSE

crVars == <<cRunning, cQueue, cVec, cPc, cOwner, cEnqueued, cHandled, cAborted>>
netVars == <<nRunning, nQueue, nVec, nPc, nOwner, nEnqueued, nHandled, nAborted>>
window == <<mPc, mCdkRunning>>
driver == <<fPc, dPc>>
server == <<wire, answered, toServer, serverEnded>>
vars == <<crVars, netVars, window, driver, conn, server, failed>>

Init ==
  /\ CR!Init
  /\ Net!Init
  /\ mPc = "start" /\ mCdkRunning = TRUE
  /\ fPc = "none" /\ dPc = "none"
  /\ conn = "none"
  /\ wire = <<>> /\ answered = 0 /\ toServer = <<>> /\ serverEnded = FALSE
  /\ failed = "no"

(* A context with a message that is refused: ~OperContext asserts that the *)
(* message is NULL.                                                        *)
EnqueueToNet(ctx) ==
  /\ Net!Enqueue(ctx)
  /\ failed' = IF nRunning THEN failed ELSE "assert"

EnqueueToCR(ctx) ==
  /\ CR!Enqueue(ctx)
  /\ failed' = IF cRunning THEN failed ELSE "assert"

-----------------------------------------------------------------------------
(* main: RunAsClient and the window.                                       *)

StartsClient ==
  /\ mPc = "start"
  /\ CR!StartThread
  /\ mPc' = "starting"
  /\ UNCHANGED <<netVars, mCdkRunning, driver, conn, server, failed>>

WaitsForClient ==
  /\ CR!WaitServerWork
  /\ UNCHANGED <<netVars, window, driver, conn, server, failed>>

OpensWindow_Early ==                \* bug: the window does not wait for Start
  /\ mPc = "starting"
  /\ EnqueueToNet(Send(LOGON))
  /\ mPc' = "prompt"
  /\ UNCHANGED <<crVars, mCdkRunning, driver, conn, server>>

(* Start has returned; the first thing the window does is SendLogon. *)
OpensWindow ==
  /\ mPc = "starting"
  /\ cOwner = "started"
  /\ EnqueueToNet(Send(LOGON))
  /\ mPc' = "prompt"
  /\ UNCHANGED <<crVars, mCdkRunning, driver, conn, server>>

(* HandleInput: a chat or a remote command, a local command, the end. *)
Typed == {line \in Chats \cup LocalLines : {Recv(line), Send(line)} \cap nEnqueued # {}}

Types ==
  /\ mPc = "prompt"
  /\ Cardinality(Typed) < MaxLines
  /\ answered + Cardinality(Typed) < MaxTraffic
  /\ \E ctx \in {Send(line) : line \in Chats} \cup {Recv(line) : line \in LocalLines} :
       EnqueueToNet(ctx)
  /\ mPc' = "test"
  /\ UNCHANGED <<crVars, mCdkRunning, driver, conn, server>>

TypesExit ==
  /\ mPc = "prompt"
  /\ mCdkRunning' = FALSE
  /\ mPc' = "test"
  /\ UNCHANGED <<crVars, netVars, driver, conn, server, failed>>

EscapesFromEntry ==
  /\ mPc = "prompt"
  /\ mPc' = "leave"
  /\ UNCHANGED <<crVars, netVars, mCdkRunning, driver, conn, server, failed>>

TestsCdkRunning ==
  /\ mPc = "test"
  /\ mPc' = IF mCdkRunning THEN "prompt" ELSE "leave"
  /\ UNCHANGED <<crVars, netVars, mCdkRunning, driver, conn, server, failed>>

StopsClient ==
  /\ mPc = "leave"
  /\ CR!Stop
  /\ UNCHANGED <<netVars, window, driver, conn, server, failed>>

JoinsClient_BeforeFinit ==          \* bug: Run does not call Finit
  /\ CR!Join
  /\ mPc' = "destroy"
  /\ UNCHANGED <<netVars, mCdkRunning, driver, conn, server, failed>>

(* CRClient's thread ends only after its Finit. *)
JoinsClient ==
  /\ CR!Join
  /\ nOwner = "stopped"
  /\ mPc' = "destroy"
  /\ UNCHANGED <<netVars, mCdkRunning, driver, conn, server, failed>>

(* ~CRClient: the member mNetService first, then the base. *)
DestroysNet ==
  /\ mPc = "destroy"
  /\ Net!Destroy
  /\ UNCHANGED <<crVars, window, driver, conn, server, failed>>

DestroysClient ==
  /\ mPc = "destroy" /\ nOwner = "destroyed"
  /\ CR!Destroy
  /\ mPc' = "returned"
  /\ UNCHANGED <<netVars, mCdkRunning, driver, conn, server, failed>>

MainStep ==
  \/ StartsClient \/ WaitsForClient \/ OpensWindow \/ TestsCdkRunning
  \/ StopsClient \/ JoinsClient \/ DestroysNet \/ DestroysClient

UserStep == Types \/ TypesExit \/ EscapesFromEntry

-----------------------------------------------------------------------------
(* CRClient's thread: Init, the loop, Finit.                               *)

StartsNet ==
  /\ cPc = "init"
  /\ Net!StartThread
  /\ UNCHANGED <<crVars, window, driver, conn, server, failed>>

WaitsForNet ==
  /\ Net!WaitServerWork
  /\ UNCHANGED <<crVars, window, driver, conn, server, failed>>

Connects ==
  /\ cPc = "init" /\ nOwner = "started"
  /\ CR!RunInit
  /\ conn' = IF cPc' = "loop" THEN "open" ELSE "none"
  /\ UNCHANGED <<netVars, window, driver, server, failed>>

ClientLoop ==
  /\ \/ CR!TestRunning \/ CR!WaitForWork \/ CR!TakeAll \/ CR!NoneLeft
     \/ CR!Decide \/ CR!ProcessStart
  /\ UNCHANGED <<netVars, window, driver, conn, server, failed>>

ClientHas(ctxs) == cPc = "act" /\ Head(cVec) \in ctxs

(* A frame is shown; the answer to the logon, the first, may be an error,  *)
(* and HandleLogonRes calls exit.                                          *)
ShowsFrame ==
  /\ ClientHas({Recv(i) : i \in Frames})
  /\ CR!Process
  /\ \/ UNCHANGED failed
     \/ Head(cVec) = Recv(1) /\ failed' = "exit"
  /\ UNCHANGED <<netVars, window, driver, conn, server>>

(* A whisper, or /q for the Hall, goes to the server ...                   *)
SendsOn ==
  /\ ClientHas({Recv(line) : line \in LocalLines})
  /\ CR!Process
  /\ EnqueueToNet(Send(Head(cVec)[2]))
  /\ UNCHANGED <<window, driver, conn, server>>

(* ... or /q finds the user in the Hall by now and leaves the program; the *)
(* window is still asking for input then.                                  *)
LeavesHall ==
  /\ ClientHas({Recv(LEAVE)})
  /\ CR!Process
  /\ mCdkRunning' = FALSE
  /\ UNCHANGED <<netVars, mPc, driver, conn, server, failed>>

ClientDrop ==
  /\ ClientHas(Drops)
  /\ CR!Process
  /\ UNCHANGED <<netVars, window, driver, conn, server, failed>>

(* Run leaves its loop: Finit stops the NetService. *)
Finit ==
  /\ cPc = "ended" /\ ~cRunning
  /\ Net!Stop
  /\ UNCHANGED <<crVars, window, driver, conn, server, failed>>

JoinsNet ==
  /\ Net!Join
  /\ fPc = "done"
  /\ UNCHANGED <<crVars, window, driver, conn, server, failed>>

ClientStep ==
  \/ StartsNet \/ WaitsForNet \/ Connects \/ ClientLoop
  \/ ShowsFrame \/ SendsOn \/ LeavesHall \/ ClientDrop
  \/ Finit \/ JoinsNet

-----------------------------------------------------------------------------
(* The NetService's thread.                                                *)

(* Init starts the driver and waits until it runs. *)
NetInit ==
  /\ Net!RunInit
  /\ dPc' = "loop"
  /\ UNCHANGED <<crVars, window, fPc, conn, server, failed>>

NetLoop ==
  /\ \/ Net!TestRunning \/ Net!WaitForWork \/ Net!TakeAll \/ Net!NoneLeft
     \/ Net!Decide \/ Net!ProcessStart
  /\ UNCHANGED <<crVars, window, driver, conn, server, failed>>

NetHas(ctxs) == nPc = "act" /\ Head(nVec) \in ctxs

ForwardRecv ==
  /\ NetHas({Recv(x) : x \in Frames \cup LocalLines})
  /\ Net!Process
  /\ EnqueueToCR(Head(nVec))
  /\ UNCHANGED <<window, driver, conn, server>>

(* A drop has no message that could be left over. *)
DropConnection ==
  /\ NetHas(Drops)
  /\ Net!Process
  /\ CR!Enqueue(Head(nVec))
  /\ conn' = "deleted"
  /\ UNCHANGED <<window, driver, server, failed>>

Sends == {Send(x) : x \in Chats \cup LocalLines \cup {LOGON}}

(* Without a connection, or with a closed one, the message is thrown away; *)
(* to a server that has ended it is lost, ...                              *)
SendMsg ==
  /\ NetHas(Sends)
  /\ Net!Process
  /\ toServer' = IF conn = "open" /\ ~serverEnded
                 THEN Append(toServer, Head(nVec)[2]) ELSE toServer
  /\ UNCHANGED <<crVars, window, driver, conn, wire, answered, serverEnded, failed>>

(* ... or the write fails (and SendMsg goes on with a closed connection),  *)
WriteFails ==
  /\ NetHas(Sends)
  /\ conn = "open" /\ serverEnded
  /\ conn' = "closed"
  /\ Net!Enqueue(Drop("writer"))
  /\ UNCHANGED <<crVars, window, driver, server, failed>>

(* ... or SIGPIPE ends the client.                                         *)
WriteKills ==
  /\ NetHas(Sends)
  /\ conn = "open" /\ serverEnded
  /\ failed' = "sigpipe"
  /\ UNCHANGED <<crVars, netVars, window, driver, conn, server>>

(* Finit: DropAllConnections closes and deletes the connection, ...        *)
DropAllConnections ==
  /\ nPc = "ended" /\ fPc = "none"
  /\ fPc' = "driver"
  /\ conn' = IF conn \in {"open", "closed"} THEN "deleted" ELSE conn
  /\ UNCHANGED <<crVars, netVars, window, dPc, server, failed>>

(* ... Driver::Stop breaks the loop, frees the event base ...              *)
StopDriver ==
  /\ fPc = "driver"
  /\ fPc' = "join"
  /\ UNCHANGED <<crVars, netVars, window, dPc, conn, server, failed>>

(* ... and joins the thread.                                               *)
JoinDriver ==
  /\ fPc = "join" /\ dPc = "ended"
  /\ fPc' = "done"
  /\ UNCHANGED <<crVars, netVars, window, dPc, conn, server, failed>>

NetStep ==
  \/ NetInit \/ NetLoop \/ ForwardRecv \/ DropConnection \/ SendMsg
  \/ WriteFails \/ WriteKills \/ DropAllConnections \/ StopDriver \/ JoinDriver

-----------------------------------------------------------------------------
(* The driver's thread.                                                    *)

(* ReadHandler: a closed connection has no events. *)
Dispatch ==
  /\ dPc = "loop" /\ fPc # "join"
  /\ conn = "open" /\ (wire # <<>> \/ serverEnded)
  /\ dPc' = "read"
  /\ UNCHANGED <<crVars, netVars, window, fPc, conn, server, failed>>

(* A frame the NetService refuses is given up. *)
ReadFrame ==
  /\ dPc = "read" /\ conn = "open" /\ wire # <<>>
  /\ Net!Enqueue(Recv(Head(wire)))
  /\ wire' = Tail(wire)
  /\ dPc' = "loop"
  /\ UNCHANGED <<crVars, window, fPc, conn, answered, toServer, serverEnded, failed>>

(* The end of the server's stream. A length the connection refuses, which  *)
(* closes it without a report (Connection), no server of this repository   *)
(* sends.                                                                  *)
ReadEnd ==
  /\ dPc = "read" /\ conn = "open" /\ wire = <<>>
  /\ conn' = "closed"
  /\ Net!Enqueue(Drop("reader"))
  /\ dPc' = "loop"
  /\ UNCHANGED <<crVars, window, fPc, server, failed>>

(* The connection was closed while the driver waited for the mutex; where  *)
(* it is deleted too, that is one of the two things a freed object may     *)
(* look like, and Crash is the other.                                      *)
ReadNotOkay ==
  /\ dPc = "read" /\ conn \in {"closed", "deleted"}
  /\ Net!Enqueue(Drop("reader"))
  /\ dPc' = "loop"
  /\ UNCHANGED <<crVars, window, fPc, conn, server, failed>>

Crash ==
  /\ dPc = "read" /\ conn = "deleted"
  /\ failed' = "crash"
  /\ UNCHANGED <<crVars, netVars, window, driver, conn, server>>

(* event_base_loop on a base that is freed: it returns, or fails Run's     *)
(* assertion or the process, or never returns.                             *)
LeavesLoop ==
  /\ dPc = "loop" /\ fPc = "join"
  /\ \/ dPc' \in {"ended", "stuck"} /\ UNCHANGED failed
     \/ failed' = "crash" /\ UNCHANGED dPc
  /\ UNCHANGED <<crVars, netVars, window, fPc, conn, server>>

DriverStep ==
  \/ Dispatch \/ ReadFrame \/ ReadEnd \/ ReadNotOkay \/ Crash \/ LeavesLoop

-----------------------------------------------------------------------------
(* The server answers a client that has logged on, and may end.            *)

ServerSends ==
  /\ LOGON \in Range(toServer) /\ ~serverEnded
  /\ answered + Cardinality(Typed) < MaxTraffic
  /\ answered' = answered + 1
  /\ wire' = Append(wire, answered')
  /\ UNCHANGED <<crVars, netVars, window, driver, conn, toServer, serverEnded, failed>>

ServerEnds ==
  /\ conn # "none" /\ ~serverEnded
  /\ serverEnded' = TRUE
  /\ \E n \in 0 .. Len(wire) : wire' = SubSeq(wire, 1, n)
  /\ UNCHANGED <<crVars, netVars, window, driver, conn, answered, toServer, failed>>

Failed == failed # "no" \/ cAborted \/ nAborted

Next == ~Failed /\ \/ MainStep \/ UserStep \/ ClientStep \/ NetStep \/ DriverStep
                   \/ ServerSends \/ ServerEnds

Spec == Init /\ [][Next]_vars

(* Every thread goes on while it can; the user need not type and the       *)
(* server need not answer.                                                 *)
FairSpec == /\ Spec
            /\ WF_vars(~Failed /\ MainStep)
            /\ WF_vars(~Failed /\ ClientStep)
            /\ WF_vars(~Failed /\ NetStep)
            /\ WF_vars(~Failed /\ DriverStep)

-----------------------------------------------------------------------------
(* CRClient::Init has returned an error: nobody is told, and main waits in *)
(* Start for ever.                                                         *)
ConnectFailed == cPc = "ended" /\ cRunning
Leaving == cOwner \in {"joining", "stopped", "destroyed"}

(* The frames among a queue's contexts, and whether they are in order.     *)
FramesIn(q) == {i \in Frames : Recv(i) \in Range(q)}
InOrder(q) == \A m, n \in DOMAIN q : \A i, j \in Frames :
                m < n /\ q[m] = Recv(i) /\ q[n] = Recv(j) => i < j

(* What the user sees is what the server sent, from the first frame on, in *)
(* order and without a gap, up to the very end, whichever of the two       *)
(* services is stopped first and whatever it throws away; until the client *)
(* is stopped or the server ends nothing is thrown away: of what was sent  *)
(* the first n frames are shown or in one of the four queues, in order,    *)
(* and the others are on the wire.                                         *)
ShownInOrder ==
  /\ InOrder(cHandled)
  /\ \A i \in FramesIn(cHandled) : 1 .. i \subseteq FramesIn(cHandled)
  /\ ~Leaving /\ ~serverEnded =>
       LET all == cHandled \o cVec \o cQueue \o nVec \o nQueue IN
       /\ InOrder(all)
       /\ \E n \in 0 .. answered : /\ FramesIn(all) = 1 .. n
                                   /\ wire = [k \in 1 .. answered - n |-> n + k]

(* The client fails only when it is being stopped or the server has gone:  *)
(* in between no context is refused, no assertion fails, no thread enters  *)
(* a deleted object.                                                       *)
FailsOnlyAtTheEnd ==
  (failed \in {"assert", "crash", "sigpipe"} \/ cAborted \/ nAborted) => Leaving \/ serverEnded

(* When Stop has returned to main, before it takes the window down, nobody *)
(* is left to use it: both services and the driver have ended and the      *)
(* connection is deleted.                                                  *)
StopIsFinal ==
  mPc \in {"destroy", "returned"} =>
    cPc = "ended" /\ nPc = "ended" /\ dPc = "ended" /\ conn \in {"none", "deleted"}

(* The client gets its window, unless it cannot connect or fails.          *)
StartsOrFails == (mPc = "starting") ~> (mPc = "prompt" \/ ConnectFailed \/ Failed)

(* When the user leaves, main comes to its end, or the process fails, or   *)
(* the driver hangs in the base that was freed under it.                   *)
LeavingEnds == (mPc = "leave") ~> (mPc = "returned" \/ Failed \/ dPc = "stuck")

===============================================================================
