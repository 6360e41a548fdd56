-------------------------- MODULE ClientProcessProofs --------------------------
(***************************************************************************)
(* For any lines, any traffic and whatever fails: when Stop has returned   *)
(* to main, nobody is left to use what main then takes down.               *)
(*                                                                         *)
(* StopIsFinal is about three threads that end one inside the other; the   *)
(* invariant follows the chain backwards, from what main has joined to     *)
(* what the NetService's Finit has done.  That nothing starts again needs  *)
(* NetEnds: a NetService whose thread has ended has an owner that is in    *)
(* Stop or beyond it, so CRClient is not in its Init any more, the only    *)
(* place where a connection is made.                                       *)
(*                                                                         *)
(* FailsOnlyAtTheEnd needs the two services to be what LogicService says   *)
(* they are: ServicesAct maps every step of the client to a step of each   *)
(* of them or to none, and what LogicServiceProofs proves of a service     *)
(* holds of both.  The rest is EndInv: who is started while whom (Working),*)
(* what may close the connection (Closing) and that the drops which do so  *)
(* wait in the NetService's queue only at the end (DropsAtTheEnd).         *)
(*                                                                         *)
(* ShownInOrder follows the frames on their way: each step of a service    *)
(* takes a context from the head of a queue and appends it to the next, or *)
(* throws it away, and it throws away only when CRClient does not run any  *)
(* more.  A frame that CRClient has decided to process is shown even then, *)
(* so StreamInv says of it beforehand that all frames before it have been  *)
(* shown (NextIsDue).                                                      *)
(***************************************************************************)
EXTENDS ClientProcess, QueueLemmas, FiniteSetTheorems

Joined == {"stopped", "destroyed"}

MainJoined == mPc \in {"destroy", "returned"} => cOwner \in Joined /\ nOwner \in Joined

ThreadsJoined ==
  /\ cOwner \in Joined => cPc = "ended"
  /\ nOwner \in Joined => fPc = "done"

NetEnds ==
  /\ nOwner = "idle" => nPc = "none"
  /\ ~nRunning => nOwner \in {"idle", "joining"} \cup Joined
  /\ nPc = "ended" => nOwner \in {"joining"} \cup Joined

FinitDone ==
  /\ conn \in {"none", "open", "closed", "deleted"}
  /\ fPc # "none" => nPc = "ended" /\ conn \in {"none", "deleted"}
  /\ fPc = "done" => dPc = "ended"

IInv == MainJoined /\ ThreadsJoined /\ NetEnds /\ FinitDone

-----------------------------------------------------------------------------
LEMMA InitIInv == Init => IInv
  BY DEF Init, CR!Init, Net!Init, IInv, Joined, MainJoined, ThreadsJoined, NetEnds, FinitDone

(* What a call of Enqueue leaves alone in the service it calls.            *)
LEMMA EnqueueToCRKeeps ==
  ASSUME NEW ctx, CR!Enqueue(ctx)
  PROVE  cOwner' = cOwner /\ (cPc = "ended" => cPc' = "ended")
  BY DEF CR!Enqueue, CR!Signalled

LEMMA EnqueueToNetKeeps ==
  ASSUME NEW ctx, Net!Enqueue(ctx)
  PROVE  /\ nOwner' = nOwner /\ nRunning' = nRunning
         /\ (nPc = "ended" <=> nPc' = "ended") /\ (nPc = "none" => nPc' = "none")
  BY DEF Net!Enqueue, Net!Signalled

-----------------------------------------------------------------------------
LEMMA MainKeeps == IInv /\ (MainStep \/ UserStep) => IInv'
<1> SUFFICES ASSUME IInv, MainStep \/ UserStep
             PROVE  IInv'
  OBVIOUS
<1> USE DEF IInv, Joined, MainJoined, ThreadsJoined, NetEnds, FinitDone
<1>1. CASE StartsClient
  BY <1>1 DEF StartsClient, CR!StartThread, netVars, driver
<1>2. CASE WaitsForClient
  BY <1>2 DEF WaitsForClient, CR!WaitServerWork, CR!Signalled, netVars, window, driver
<1>3. CASE OpensWindow
  BY <1>3, EnqueueToNetKeeps DEF OpensWindow, EnqueueToNet, crVars, driver
<1>4. CASE TestsCdkRunning
  BY <1>4 DEF TestsCdkRunning, crVars, netVars, driver
<1>5. CASE StopsClient
  BY <1>5 DEF StopsClient, CR!Stop, CR!Signalled, netVars, window, driver
<1>6. CASE JoinsClient
  BY <1>6 DEF JoinsClient, CR!Join, netVars, driver
<1>7. CASE DestroysNet
  BY <1>7 DEF DestroysNet, Net!Destroy, crVars, window, driver
<1>8. CASE DestroysClient
  BY <1>8 DEF DestroysClient, CR!Destroy, netVars, driver
<1>9. CASE Types
  BY <1>9, EnqueueToNetKeeps DEF Types, EnqueueToNet, crVars, driver
<1>10. CASE TypesExit
  BY <1>10 DEF TypesExit, crVars, netVars, driver
<1>11. CASE EscapesFromEntry
  BY <1>11 DEF EscapesFromEntry, crVars, netVars, driver
<1> QED BY <1>1, <1>2, <1>3, <1>4, <1>5, <1>6, <1>7, <1>8, <1>9, <1>10, <1>11
        DEF MainStep, UserStep

LEMMA ClientKeeps == IInv /\ ClientStep => IInv'
<1> SUFFICES ASSUME IInv, ClientStep
             PROVE  IInv'
  OBVIOUS
<1> USE DEF IInv, Joined, MainJoined, ThreadsJoined, NetEnds, FinitDone
<1>1. CASE StartsNet
  BY <1>1 DEF StartsNet, Net!StartThread, crVars, window, driver
<1>2. CASE WaitsForNet
  BY <1>2 DEF WaitsForNet, Net!WaitServerWork, Net!Signalled, crVars, window, driver
<1>3. CASE Connects
  BY <1>3 DEF Connects, CR!RunInit, netVars, window, driver
<1>4. CASE ClientLoop
  <2>1. cOwner \notin Joined => cOwner' \notin Joined
    BY <1>4 DEF ClientLoop, CR!TestRunning, CR!WaitForWork, CR!TakeAll, CR!NoneLeft,
                CR!Decide, CR!ProcessStart
  <2>2. cPc # "ended"
    BY <1>4 DEF ClientLoop, CR!TestRunning, CR!WaitForWork, CR!TakeAll, CR!NoneLeft,
                CR!Decide, CR!ProcessStart
  <2>3. UNCHANGED <<netVars, window, driver, conn>>
    BY <1>4 DEF ClientLoop
  <2> QED BY <2>1, <2>2, <2>3 DEF netVars, window, driver
<1>5. CASE ShowsFrame \/ ClientDrop
  BY <1>5 DEF ShowsFrame, ClientDrop, ClientHas, CR!Process, netVars, window, driver
<1>6. CASE SendsOn
  BY <1>6, EnqueueToNetKeeps DEF SendsOn, ClientHas, CR!Process, EnqueueToNet, window, driver
<1>7. CASE LeavesHall
  BY <1>7 DEF LeavesHall, ClientHas, CR!Process, netVars, driver
<1>8. CASE Finit
  BY <1>8 DEF Finit, Net!Stop, Net!Signalled, crVars, window, driver
<1>9. CASE JoinsNet
  BY <1>9 DEF JoinsNet, Net!Join, crVars, window, driver
<1> QED BY <1>1, <1>2, <1>3, <1>4, <1>5, <1>6, <1>7, <1>8, <1>9 DEF ClientStep

LEMMA NetKeeps == IInv /\ NetStep => IInv'
<1> SUFFICES ASSUME IInv, NetStep
             PROVE  IInv'
  OBVIOUS
<1> USE DEF IInv, Joined, MainJoined, ThreadsJoined, NetEnds, FinitDone
<1>1. CASE NetInit
  BY <1>1 DEF NetInit, Net!RunInit, crVars, window
<1>2. CASE NetLoop
  <2> USE <1>2 DEF NetLoop, crVars, window, driver
  <2>1. CASE Net!TestRunning
    BY <2>1 DEF Net!TestRunning
  <2>2. CASE Net!WaitForWork
    BY <2>2 DEF Net!WaitForWork
  <2>3. CASE Net!TakeAll
    BY <2>3 DEF Net!TakeAll
  <2>4. CASE Net!NoneLeft
    BY <2>4 DEF Net!NoneLeft
  <2>5. CASE Net!Decide
    BY <2>5 DEF Net!Decide
  <2>6. CASE Net!ProcessStart
    BY <2>6 DEF Net!ProcessStart
  <2> QED BY <2>1, <2>2, <2>3, <2>4, <2>5, <2>6
<1>3. CASE ForwardRecv
  BY <1>3, EnqueueToCRKeeps DEF ForwardRecv, NetHas, Net!Process, EnqueueToCR, window, driver
<1>4. CASE DropConnection
  BY <1>4, EnqueueToCRKeeps DEF DropConnection, NetHas, Net!Process, window, driver
<1>5. CASE SendMsg
  BY <1>5 DEF SendMsg, NetHas, Net!Process, crVars, window, driver
<1>6. CASE WriteFails
  BY <1>6, EnqueueToNetKeeps DEF WriteFails, crVars, window, driver
<1>7. CASE WriteKills
  BY <1>7 DEF WriteKills, crVars, netVars, window, driver
<1>8. CASE DropAllConnections
  BY <1>8 DEF DropAllConnections, crVars, netVars, window
<1>9. CASE StopDriver
  BY <1>9 DEF StopDriver, crVars, netVars, window
<1>10. CASE JoinDriver
  BY <1>10 DEF JoinDriver, crVars, netVars, window
<1> QED BY <1>1, <1>2, <1>3, <1>4, <1>5, <1>6, <1>7, <1>8, <1>9, <1>10 DEF NetStep

LEMMA DriverKeeps == IInv /\ (DriverStep \/ ServerSends \/ ServerEnds) => IInv'
<1> SUFFICES ASSUME IInv, DriverStep \/ ServerSends \/ ServerEnds
             PROVE  IInv'
  OBVIOUS
<1> USE DEF IInv, Joined, MainJoined, ThreadsJoined, NetEnds, FinitDone
<1>1. CASE Dispatch
  BY <1>1 DEF Dispatch, crVars, netVars, window
<1>2. CASE ReadFrame
  BY <1>2, EnqueueToNetKeeps DEF ReadFrame, crVars, window
<1>3. CASE ReadEnd
  BY <1>3, EnqueueToNetKeeps DEF ReadEnd, crVars, window
<1>4. CASE ReadNotOkay
  BY <1>4, EnqueueToNetKeeps DEF ReadNotOkay, crVars, window
<1>5. CASE Crash
  BY <1>5 DEF Crash, crVars, netVars, window, driver
<1>6. CASE LeavesLoop
  BY <1>6 DEF LeavesLoop, crVars, netVars, window
<1>7. CASE ServerSends \/ ServerEnds
  BY <1>7 DEF ServerSends, ServerEnds, crVars, netVars, window, driver
<1> QED BY <1>1, <1>2, <1>3, <1>4, <1>5, <1>6, <1>7 DEF DriverStep

LEMMA StepIInv == IInv /\ [Next]_vars => IInv'
<1> SUFFICES ASSUME IInv, [Next]_vars
             PROVE  IInv'
  OBVIOUS
<1>1. CASE Next
  BY <1>1, MainKeeps, ClientKeeps, NetKeeps, DriverKeeps DEF Next
<1>2. CASE UNCHANGED vars
  BY <1>2 DEF vars, crVars, netVars, window, driver, IInv, MainJoined, ThreadsJoined,
              NetEnds, FinitDone
<1> QED BY <1>1, <1>2

-----------------------------------------------------------------------------
(* When main goes on to take the window down, both services and the driver *)
(* have ended and the connection is deleted (CRClient::Finit,              *)
(* NetService::Finit and Driver::Stop).                                    *)
THEOREM NobodyIsLeft == Spec => []StopIsFinal
<1>1. IInv => StopIsFinal
  BY DEF IInv, MainJoined, ThreadsJoined, FinitDone, Joined, StopIsFinal
<1>2. Spec => []IInv
  BY InitIInv, StepIInv, PTL DEF Spec
<1> QED BY <1>1, <1>2, PTL

-----------------------------------------------------------------------------
(* The two services as those of the proofs about LogicService.             *)
CRP == INSTANCE LogicServiceProofs WITH
  mRunning <- cRunning, mQueue <- cQueue, ctxVec <- cVec, sPc <- cPc, oPc <- cOwner,
  enqueued <- cEnqueued, handled <- cHandled, aborted <- cAborted,
  Msgs <- CRMsgs, InitMayFail <- ConnectMayFail, SpuriousWakeups <- FALSE

NetP == INSTANCE LogicServiceProofs WITH
  mRunning <- nRunning, mQueue <- nQueue, ctxVec <- nVec, sPc <- nPc, oPc <- nOwner,
  enqueued <- nEnqueued, handled <- nHandled, aborted <- nAborted,
  Msgs <- NetMsgs, InitMayFail <- FALSE, SpuriousWakeups <- FALSE

LEMMA ServiceAssumptions ==
  /\ START \notin CRMsgs /\ ConnectMayFail \in BOOLEAN
  /\ START \notin NetMsgs /\ FALSE \in BOOLEAN
  BY ClientAssumption, StartAssumption DEF NetMsgs

LEMMA SameClient ==
  /\ CR!Init <=> CRP!Init
  /\ CR!StartThread <=> CRP!StartThread
  /\ CR!WaitServerWork <=> CRP!WaitServerWork
  /\ CR!Stop <=> CRP!Stop
  /\ CR!Join <=> CRP!Join
  /\ CR!Destroy <=> CRP!Destroy
  /\ CR!RunInit <=> CRP!RunInit
  /\ CR!TestRunning <=> CRP!TestRunning
  /\ CR!WaitForWork <=> CRP!WaitForWork
  /\ CR!TakeAll <=> CRP!TakeAll
  /\ CR!NoneLeft <=> CRP!NoneLeft
  /\ CR!Decide <=> CRP!Decide
  /\ CR!Process <=> CRP!Process
  /\ CR!ProcessStart <=> CRP!ProcessStart
  /\ \A ctx : CR!Enqueue(ctx) <=> CRP!Enqueue(ctx)
<1>1. CR!Init <=> CRP!Init
  BY DEF CR!Init, CRP!Init
<1>2. CR!StartThread <=> CRP!StartThread
  BY DEF CR!StartThread, CRP!StartThread
<1>3. CR!WaitServerWork <=> CRP!WaitServerWork
  BY DEF CR!WaitServerWork, CRP!WaitServerWork, CR!Signalled, CRP!Signalled
<1>4. CR!Stop <=> CRP!Stop
  BY DEF CR!Stop, CRP!Stop, CR!Signalled, CRP!Signalled
<1>5. CR!Join <=> CRP!Join
  BY DEF CR!Join, CRP!Join
<1>6. CR!Destroy <=> CRP!Destroy
  BY DEF CR!Destroy, CRP!Destroy
<1>7. CR!RunInit <=> CRP!RunInit
  BY DEF CR!RunInit, CRP!RunInit
<1>8. CR!TestRunning <=> CRP!TestRunning
  BY DEF CR!TestRunning, CRP!TestRunning
<1>9. CR!WaitForWork <=> CRP!WaitForWork
  BY DEF CR!WaitForWork, CRP!WaitForWork
<1>10. CR!TakeAll <=> CRP!TakeAll
  BY DEF CR!TakeAll, CRP!TakeAll
<1>11. CR!NoneLeft <=> CRP!NoneLeft
  BY DEF CR!NoneLeft, CRP!NoneLeft
<1>12. CR!Decide <=> CRP!Decide
  BY DEF CR!Decide, CRP!Decide
<1>13. CR!Process <=> CRP!Process
  BY DEF CR!Process, CRP!Process
<1>14. CR!ProcessStart <=> CRP!ProcessStart
  BY DEF CR!ProcessStart, CRP!ProcessStart
<1>15. ASSUME NEW ctx
      PROVE  CR!Enqueue(ctx) <=> CRP!Enqueue(ctx)
  BY DEF CR!Enqueue, CRP!Enqueue, CR!Signalled, CRP!Signalled
<1> QED BY <1>1, <1>2, <1>3, <1>4, <1>5, <1>6, <1>7, <1>8, <1>9, <1>10, <1>11, <1>12, <1>13, <1>14, <1>15

LEMMA SameNet ==
  /\ Net!Init <=> NetP!Init
  /\ Net!StartThread <=> NetP!StartThread
  /\ Net!WaitServerWork <=> NetP!WaitServerWork
  /\ Net!Stop <=> NetP!Stop
  /\ Net!Join <=> NetP!Join
  /\ Net!Destroy <=> NetP!Destroy
  /\ Net!RunInit <=> NetP!RunInit
  /\ Net!TestRunning <=> NetP!TestRunning
  /\ Net!WaitForWork <=> NetP!WaitForWork
  /\ Net!TakeAll <=> NetP!TakeAll
  /\ Net!NoneLeft <=> NetP!NoneLeft
  /\ Net!Decide <=> NetP!Decide
  /\ Net!Process <=> NetP!Process
  /\ Net!ProcessStart <=> NetP!ProcessStart
  /\ \A ctx : Net!Enqueue(ctx) <=> NetP!Enqueue(ctx)
<1>1. Net!Init <=> NetP!Init
  BY DEF Net!Init, NetP!Init
<1>2. Net!StartThread <=> NetP!StartThread
  BY DEF Net!StartThread, NetP!StartThread
<1>3. Net!WaitServerWork <=> NetP!WaitServerWork
  BY DEF Net!WaitServerWork, NetP!WaitServerWork, Net!Signalled, NetP!Signalled
<1>4. Net!Stop <=> NetP!Stop
  BY DEF Net!Stop, NetP!Stop, Net!Signalled, NetP!Signalled
<1>5. Net!Join <=> NetP!Join
  BY DEF Net!Join, NetP!Join
<1>6. Net!Destroy <=> NetP!Destroy
  BY DEF Net!Destroy, NetP!Destroy
<1>7. Net!RunInit <=> NetP!RunInit
  BY DEF Net!RunInit, NetP!RunInit
<1>8. Net!TestRunning <=> NetP!TestRunning
  BY DEF Net!TestRunning, NetP!TestRunning
<1>9. Net!WaitForWork <=> NetP!WaitForWork
  BY DEF Net!WaitForWork, NetP!WaitForWork
<1>10. Net!TakeAll <=> NetP!TakeAll
  BY DEF Net!TakeAll, NetP!TakeAll
<1>11. Net!NoneLeft <=> NetP!NoneLeft
  BY DEF Net!NoneLeft, NetP!NoneLeft
<1>12. Net!Decide <=> NetP!Decide
  BY DEF Net!Decide, NetP!Decide
<1>13. Net!Process <=> NetP!Process
  BY DEF Net!Process, NetP!Process
<1>14. Net!ProcessStart <=> NetP!ProcessStart
  BY DEF Net!ProcessStart, NetP!ProcessStart
<1>15. ASSUME NEW ctx
      PROVE  Net!Enqueue(ctx) <=> NetP!Enqueue(ctx)
  BY DEF Net!Enqueue, NetP!Enqueue, Net!Signalled, NetP!Signalled
<1> QED BY <1>1, <1>2, <1>3, <1>4, <1>5, <1>6, <1>7, <1>8, <1>9, <1>10, <1>11, <1>12, <1>13, <1>14, <1>15

(* What the client receives and types stays within its bound.              *)
Traffic ==
  /\ wire \in Seq(Frames) /\ answered \in 0 .. MaxTraffic
  /\ IsFiniteSet(nEnqueued)

LEMMA TypedIsFinite ==
  ASSUME IsFiniteSet(nEnqueued)
  PROVE  Cardinality(Typed) \in Nat
<1> DEFINE f == [ctx \in nEnqueued |-> ctx[2]]
           T == {ctx[2] : ctx \in nEnqueued}
<1>1. f \in Surjection(nEnqueued, T)
  BY DEF Surjection
<1>2. IsFiniteSet(T)
  BY <1>1, FS_Surjection
<1>3. Typed \in SUBSET T
  <2> SUFFICES ASSUME NEW line \in Typed
               PROVE  line \in T
    OBVIOUS
  <2>1. Recv(line)[2] = line /\ Send(line)[2] = line
    BY DEF Recv, Send
  <2>2. Recv(line) \in nEnqueued \/ Send(line) \in nEnqueued
    BY DEF Typed
  <2> QED BY <2>1, <2>2
<1> HIDE DEF T
<1> QED BY <1>2, <1>3, FS_Subset, FS_CardinalityType

(* Every step of the client is a step of its CRClient and of its           *)
(* NetService as LogicServices, or leaves them alone.                      *)
LEMMA ServicesAct ==
  ASSUME Traffic, [Next]_vars
  PROVE  [CRP!Next]_CRP!serviceVars /\ [NetP!Next]_NetP!serviceVars
<1> SUFFICES (CRP!Next \/ UNCHANGED crVars) /\ (NetP!Next \/ UNCHANGED netVars)
  BY DEF crVars, netVars, CRP!serviceVars, NetP!serviceVars
<1>2. CASE Next
  <2>1. ~cAborted /\ ~nAborted
    BY <1>2 DEF Next, Failed
  <2>2. \A ctx \in CRMsgs : CR!Enqueue(ctx) => CRP!Next
    BY <2>1, SameClient DEF CRP!Next, CRP!OthersEnqueue
  <2>3. \A ctx \in NetMsgs : Net!Enqueue(ctx) => NetP!Next
    BY <2>1, SameNet DEF NetP!Next, NetP!OthersEnqueue
  <2>4. \/ CR!StartThread \/ CR!Stop \/ CR!Destroy \/ CR!WaitServerWork \/ CR!Join
        \/ CR!RunInit \/ CR!TestRunning \/ CR!WaitForWork \/ CR!TakeAll \/ CR!NoneLeft
        \/ CR!Decide \/ CR!Process \/ CR!ProcessStart
        => CRP!Next
    BY <2>1, SameClient DEF CRP!Next, CRP!OwnerChoice, CRP!OwnerStep, CRP!ThreadStep, CRP!Run
  <2>5. \/ Net!StartThread \/ Net!Stop \/ Net!Destroy \/ Net!WaitServerWork \/ Net!Join
        \/ Net!RunInit \/ Net!TestRunning \/ Net!WaitForWork \/ Net!TakeAll \/ Net!NoneLeft
        \/ Net!Decide \/ Net!Process \/ Net!ProcessStart
        => NetP!Next
    BY <2>1, SameNet DEF NetP!Next, NetP!OwnerChoice, NetP!OwnerStep, NetP!ThreadStep, NetP!Run
  <2>6. /\ CRMsgs \subseteq NetMsgs /\ Drops \subseteq CRMsgs
        /\ \A line \in Chats \cup LocalLines \cup {LOGON} : Send(line) \in NetMsgs
        /\ \A x \in Frames \cup LocalLines : Recv(x) \in CRMsgs
    BY DEF CRMsgs, NetMsgs
  <2>7. CASE MainStep \/ UserStep
    <3>1. CASE StartsClient \/ WaitsForClient \/ StopsClient \/ JoinsClient \/ DestroysClient
      BY <2>4, <3>1 DEF StartsClient, WaitsForClient, StopsClient, JoinsClient, DestroysClient
    <3>2. CASE OpensWindow \/ Types
      <4>1. \E ctx \in NetMsgs : Net!Enqueue(ctx)
        BY <2>6, <3>2 DEF OpensWindow, Types, EnqueueToNet
      <4>2. UNCHANGED crVars
        BY <3>2 DEF OpensWindow, Types
      <4> QED BY <2>3, <4>1, <4>2
    <3>3. CASE DestroysNet
      BY <2>5, <3>3 DEF DestroysNet
    <3>4. CASE TestsCdkRunning \/ TypesExit \/ EscapesFromEntry
      BY <3>4 DEF TestsCdkRunning, TypesExit, EscapesFromEntry
    <3> QED BY <2>7, <3>1, <3>2, <3>3, <3>4 DEF MainStep, UserStep
  <2>8. CASE ClientStep
    <3>1. CASE StartsNet \/ WaitsForNet \/ Finit \/ JoinsNet
      BY <2>5, <3>1 DEF StartsNet, WaitsForNet, Finit, JoinsNet
    <3>2. CASE Connects \/ ClientLoop \/ ShowsFrame \/ LeavesHall \/ ClientDrop
      BY <2>4, <3>2 DEF Connects, ClientLoop, ShowsFrame, LeavesHall, ClientDrop
    <3>3. CASE SendsOn
      <4>1. PICK line \in LocalLines : Head(cVec) = Recv(line)
        BY <3>3 DEF SendsOn, ClientHas
      <4>2. Head(cVec)[2] = line
        BY <4>1 DEF Recv
      <4>3. Send(Head(cVec)[2]) \in NetMsgs
        BY <2>6, <4>2
      <4> QED BY <2>3, <2>4, <3>3, <4>3 DEF SendsOn, EnqueueToNet
    <3> QED BY <2>8, <3>1, <3>2, <3>3 DEF ClientStep
  <2>9. CASE NetStep
    <3>1. CASE NetInit \/ NetLoop \/ SendMsg
      BY <2>5, <3>1 DEF NetInit, NetLoop, SendMsg
    <3>2. CASE ForwardRecv \/ DropConnection
      <4>1. Head(nVec) \in CRMsgs
        BY <2>6, <3>2 DEF ForwardRecv, DropConnection, NetHas
      <4> QED BY <2>2, <2>5, <3>2, <4>1 DEF ForwardRecv, DropConnection, EnqueueToCR
    <3>3. CASE WriteFails
      <4>1. Drop("writer") \in NetMsgs
        BY <2>6 DEF Drops
      <4> QED BY <2>3, <3>3, <4>1 DEF WriteFails
    <3>4. CASE WriteKills \/ DropAllConnections \/ StopDriver \/ JoinDriver
      BY <3>4 DEF WriteKills, DropAllConnections, StopDriver, JoinDriver
    <3> QED BY <2>9, <3>1, <3>2, <3>3, <3>4 DEF NetStep
  <2>10. CASE DriverStep
    <3>1. CASE ReadFrame
      <4>1. Head(wire) \in Frames
        BY <3>1 DEF ReadFrame, Traffic
      <4> QED BY <2>3, <2>6, <3>1, <4>1 DEF ReadFrame
    <3>2. CASE ReadEnd \/ ReadNotOkay
      <4>1. Drop("reader") \in NetMsgs
        BY <2>6 DEF Drops
      <4> QED BY <2>3, <3>2, <4>1 DEF ReadEnd, ReadNotOkay
    <3>3. CASE Dispatch \/ Crash \/ LeavesLoop
      BY <3>3 DEF Dispatch, Crash, LeavesLoop
    <3> QED BY <2>10, <3>1, <3>2, <3>3 DEF DriverStep
  <2>11. CASE ServerSends \/ ServerEnds
    BY <2>11 DEF ServerSends, ServerEnds
  <2> QED BY <1>2, <2>7, <2>8, <2>9, <2>10, <2>11 DEF Next
<1>3. CASE UNCHANGED vars
  BY <1>3 DEF vars
<1> QED BY <1>2, <1>3

-----------------------------------------------------------------------------
(* What the services promise as LogicServices.                             *)
Serving ==
  /\ CRP!IInv /\ CRP!StartWaited /\ (cAborted => cOwner = "destroyed")
  /\ NetP!IInv /\ NetP!StartWaited /\ (nAborted => nOwner = "destroyed")
  /\ Traffic

LEMMA InitServing == Init => Serving
<1> SUFFICES ASSUME Init
             PROVE  Serving
  OBVIOUS
<1>1. CRP!Init /\ NetP!Init
  BY SameClient, SameNet DEF Init
<1>2. CRP!IInv /\ NetP!IInv
  BY <1>1, ServiceAssumptions, CRP!InitIInv, NetP!InitIInv
<1>3. /\ CRP!StartWaited /\ (cAborted => cOwner = "destroyed")
      /\ NetP!StartWaited /\ (nAborted => nOwner = "destroyed")
  BY <1>1, ServiceAssumptions, CRP!InitStartWaited, NetP!InitStartWaited
<1>4. Traffic
  BY <1>1, ClientAssumption, FS_EmptySet DEF Init, NetP!Init, Traffic
<1> QED BY <1>2, <1>3, <1>4 DEF Serving

(* A step of the NetService adds to what waits for it only what is         *)
(* enqueued.                                                               *)
LEMMA NetQueueStep ==
  ASSUME NetP!IInv, [NetP!Next]_NetP!serviceVars
  PROVE  /\ Range(nVec') \cup Range(nQueue')
              \subseteq Range(nVec) \cup Range(nQueue) \cup {START} \cup (nEnqueued' \ nEnqueued)
         /\ IsFiniteSet(nEnqueued) => IsFiniteSet(nEnqueued')
<1>1. nVec \in Seq(NetP!Contexts) /\ nQueue \in Seq(NetP!Contexts)
  BY DEF NetP!IInv, NetP!TypeOK
<1>2. IsQueue(nVec) /\ IsQueue(nQueue)
  BY <1>1, AnySeqIsQueue
<1>3. /\ nVec # <<>> => Range(Tail(nVec)) \subseteq Range(nVec)
      /\ \A e : Range(Append(nQueue, e)) = Range(nQueue) \cup {e}
      /\ Range(<<>>) = {}
  BY <1>2, TailOfQueue, AppendToQueue, EmptyQueue
<1>4. \A x : IsFiniteSet(nEnqueued) => IsFiniteSet(nEnqueued \cup {x})
  BY FS_AddElement
<1>5. ASSUME NEW ctx \in NetMsgs, NetP!Enqueue(ctx)
      PROVE  /\ nVec' = nVec /\ (nQueue' = nQueue \/ nQueue' = Append(nQueue, ctx))
             /\ nEnqueued' = nEnqueued \cup {ctx} /\ ctx \in nEnqueued' \ nEnqueued
  BY <1>5 DEF NetP!Enqueue
<1>6. CASE NetP!OthersEnqueue
  <2>1. PICK ctx \in NetMsgs : NetP!Enqueue(ctx)
    BY <1>6 DEF NetP!OthersEnqueue
  <2>2. /\ nVec' = nVec /\ (nQueue' = nQueue \/ nQueue' = Append(nQueue, ctx))
        /\ nEnqueued' = nEnqueued \cup {ctx} /\ ctx \in nEnqueued' \ nEnqueued
    BY <1>5, <2>1
  <2>3. CASE nQueue' = nQueue
    BY <1>4, <2>2, <2>3
  <2>4. CASE nQueue' = Append(nQueue, ctx)
    <3>1. Range(nQueue') = Range(nQueue) \cup {ctx}
      BY <1>3, <2>4
    <3> QED BY <1>4, <2>2, <3>1
  <2> QED BY <2>2, <2>3, <2>4
<1>7. CASE ~NetP!OthersEnqueue
  <2>1. nEnqueued' = nEnqueued
    BY <1>7 DEF NetP!Next, NetP!ThreadStep, NetP!OwnerStep, NetP!OwnerChoice, NetP!Run,
         NetP!serviceVars, NetP!StartThread, NetP!StartWithoutNewThread, NetP!WaitServerWork,
         NetP!WakeUnsignalled, NetP!Stop, NetP!Join, NetP!Destroy, NetP!RunInit,
         NetP!TestRunning, NetP!WaitForWork, NetP!TakeAll, NetP!NoneLeft, NetP!Decide,
         NetP!Process, NetP!ProcessStart
  <2>2. \/ nVec' = nVec /\ (nQueue' = nQueue \/ nQueue' = Append(nQueue, START))
        \/ nVec # <<>> /\ nVec' = Tail(nVec) /\ nQueue' = nQueue
        \/ nVec' = nQueue /\ nQueue' = <<>>
    <3>1. nPc = "act" => nVec # <<>>
      BY DEF NetP!IInv, NetP!BatchInLoop
    <3> QED BY <1>7, <3>1 DEF NetP!Next, NetP!ThreadStep, NetP!OwnerStep, NetP!OwnerChoice,
         NetP!Run, NetP!serviceVars, NetP!StartThread, NetP!StartWithoutNewThread,
         NetP!WaitServerWork, NetP!WakeUnsignalled, NetP!Stop, NetP!Join, NetP!Destroy,
         NetP!RunInit, NetP!TestRunning, NetP!WaitForWork, NetP!TakeAll, NetP!NoneLeft,
         NetP!Decide, NetP!Process, NetP!ProcessStart
  <2> QED BY <1>3, <2>1, <2>2
<1> QED BY <1>6, <1>7

LEMMA TrafficStays ==
  ASSUME Serving, [Next]_vars
  PROVE  Traffic'
<1>1. IsFiniteSet(nEnqueued')
  BY ServicesAct, NetQueueStep DEF Serving, Traffic
<1>2. wire \in Seq(Frames) /\ answered \in 0 .. MaxTraffic /\ MaxTraffic \in Nat
  BY ClientAssumption DEF Serving, Traffic
<1>3. CASE ServerSends
  <2>1. Cardinality(Typed) \in Nat
    BY TypedIsFinite DEF Serving, Traffic
  <2>2. answered' = answered + 1 /\ answered + Cardinality(Typed) < MaxTraffic
        /\ wire' = Append(wire, answered')
    BY <1>3 DEF ServerSends
  <2>3. answered' \in Frames /\ answered' \in 0 .. MaxTraffic
    BY <1>2, <2>1, <2>2 DEF Frames
  <2> QED BY <1>1, <1>2, <2>2, <2>3 DEF Traffic
<1>4. CASE ServerEnds
  <2>1. answered' = answered /\ \E n \in 0 .. Len(wire) : wire' = SubSeq(wire, 1, n)
    BY <1>4 DEF ServerEnds
  <2>2. \A n \in 0 .. Len(wire) : SubSeq(wire, 1, n) \in Seq(Frames)
    BY <1>2
  <2> QED BY <1>1, <1>2, <2>1, <2>2 DEF Traffic
<1>5. CASE ReadFrame
  BY <1>1, <1>2, <1>5 DEF ReadFrame, Traffic
<1>6. CASE ~ServerSends /\ ~ServerEnds /\ ~ReadFrame
  <2>1. wire' = wire /\ answered' = answered
    <3>1. CASE MainStep \/ UserStep
      BY <3>1 DEF MainStep, UserStep, StartsClient, WaitsForClient, OpensWindow, TestsCdkRunning,
           StopsClient, JoinsClient, DestroysNet, DestroysClient, Types, TypesExit,
           EscapesFromEntry, server
    <3>2. CASE ClientStep
      BY <3>2 DEF ClientStep, StartsNet, WaitsForNet, Connects, ClientLoop, ShowsFrame, SendsOn,
           LeavesHall, ClientDrop, Finit, JoinsNet, server
    <3>3. CASE NetStep
      BY <3>3 DEF NetStep, NetInit, NetLoop, ForwardRecv, DropConnection, SendMsg, WriteFails,
           WriteKills, DropAllConnections, StopDriver, JoinDriver, server
    <3>4. CASE DriverStep
      BY <1>6, <3>4 DEF DriverStep, Dispatch, ReadEnd, ReadNotOkay, Crash, LeavesLoop, server
    <3>5. CASE UNCHANGED vars
      BY <3>5 DEF vars, server
    <3> QED BY <1>6, <3>1, <3>2, <3>3, <3>4, <3>5 DEF Next
  <2> QED BY <1>1, <1>2, <2>1 DEF Traffic
<1> QED BY <1>3, <1>4, <1>5, <1>6

LEMMA StepServing == Serving /\ [Next]_vars => Serving'
<1> SUFFICES ASSUME Serving, [Next]_vars
             PROVE  Serving'
  OBVIOUS
<1>1. [CRP!Next]_CRP!serviceVars /\ [NetP!Next]_NetP!serviceVars
  BY ServicesAct DEF Serving
<1>2. CRP!IInv' /\ CRP!StartWaited' /\ (cAborted' => cOwner' = "destroyed")
  BY <1>1, ServiceAssumptions, CRP!StepIInv, CRP!StartWaitedStep, CRP!StartIsHeardStep DEF Serving
<1>3. NetP!IInv' /\ NetP!StartWaited' /\ (nAborted' => nOwner' = "destroyed")
  BY <1>1, ServiceAssumptions, NetP!StepIInv, NetP!StartWaitedStep, NetP!StartIsHeardStep DEF Serving
<1> QED BY <1>2, <1>3, TrafficStays DEF Serving

-----------------------------------------------------------------------------
(* The end has begun once main stops the client or the server has gone.    *)
Ends == Leaving \/ serverEnded

(* Who runs when: CRClient waits for main until its Init is done, it       *)
(* handles contexts only while its NetService is started, and main reads   *)
(* what the user types only while CRClient is.                             *)
Working ==
  /\ cPc = "none" => cOwner = "idle" /\ nOwner = "idle"
  /\ cPc = "init" \/ ConnectFailed => cOwner \in {"starting", "waiting"}
  /\ cPc \notin {"none", "init", "ended"} => nOwner = "started"
  /\ nOwner \in {"joining"} \cup Joined => Leaving
  /\ mPc \in {"prompt", "test"} => cOwner = "started"

(* Nobody but the end closes the connection.                               *)
Closing ==
  /\ cPc \in {"none", "init"} => conn = "none"
  /\ conn = "none" => dPc # "read" /\ ~serverEnded
  /\ conn \in {"closed", "deleted"} => Ends
  /\ dPc = "read" /\ conn = "open" => wire # <<>> \/ serverEnded

(* A drop waits for the NetService only at the end.                        *)
DropsAtTheEnd ==
  (\E x \in Range(nVec) \cup Range(nQueue) : x \in Drops) => Ends


FailedAtTheEnd == failed \in {"assert", "crash", "sigpipe"} => Ends

EndInv == Working /\ Closing /\ DropsAtTheEnd /\ FailedAtTheEnd

(* What each step has to keep of it; DropsAtTheEnd follows for all steps   *)
(* at once.                                                                *)
StepsToTheEnd ==
  /\ Working' /\ Closing' /\ FailedAtTheEnd'
  /\ Ends => Ends'
  /\ \A x \in Drops : x \in nEnqueued' \ nEnqueued => Ends'

LEMMA ServiceThreads ==
  ASSUME Serving
  PROVE  /\ cRunning <=> cOwner \in {"starting", "waiting", "started", "inside"}
         /\ cOwner \in {"idle", "starting", "waiting", "started", "inside", "joining"} \cup Joined
         /\ cOwner = "idle" => cPc = "none"
         /\ nRunning <=> nOwner \in {"starting", "waiting", "started", "inside"}
         /\ nOwner \in {"idle", "starting", "waiting", "started", "inside", "joining"} \cup Joined
         /\ nOwner = "idle" => nPc = "none"
         /\ nPc = "act" => Head(nVec) \in Range(nVec)
<1>1. CRP!TypeOK /\ CRP!ThreadAndOwner /\ NetP!TypeOK /\ NetP!ThreadAndOwner /\ NetP!BatchInLoop
  BY DEF Serving, CRP!IInv, NetP!IInv
<1>2. nVec \in Seq(NetP!Contexts) /\ (nPc = "act" => nVec # <<>>)
  BY <1>1 DEF NetP!TypeOK, NetP!BatchInLoop
<1>3. nPc = "act" => Head(nVec) \in Range(nVec)
  BY <1>2, AnySeqIsQueue, TailOfQueue
<1> QED BY <1>1, <1>3 DEF CRP!TypeOK, CRP!ThreadAndOwner, NetP!TypeOK, NetP!ThreadAndOwner, Joined

LEMMA EnqueueToCRMoves ==
  ASSUME NEW ctx, CR!Enqueue(ctx)
  PROVE  /\ cOwner' = cOwner /\ cRunning' = cRunning
         /\ cPc' = cPc \/ (cPc = "wait" /\ cPc' = "take")
  BY DEF CR!Enqueue, CR!Signalled

LEMMA EnqueueToNetMoves ==
  ASSUME NEW ctx, Net!Enqueue(ctx)
  PROVE  /\ nOwner' = nOwner /\ nRunning' = nRunning
         /\ nEnqueued' = nEnqueued \cup {ctx}
  BY DEF Net!Enqueue

(* The three kinds of context differ.                                      *)
LEMMA NoDrop == \A x : Recv(x) \notin Drops /\ Send(x) \notin Drops
<1> SUFFICES ASSUME NEW x
             PROVE  Recv(x) \notin Drops /\ Send(x) \notin Drops
  OBVIOUS
<1>1. Recv(x)[1] = "OP_RECV" /\ Send(x)[1] = "OP_SEND"
  BY DEF Recv, Send
<1>2. \A d \in Drops : d[1] = "OP_DROP"
  BY DEF Drops, Drop
<1> QED BY <1>1, <1>2

-----------------------------------------------------------------------------
LEMMA MainEnds ==
  ASSUME IInv, Serving, EndInv, ~Failed, MainStep \/ UserStep
  PROVE  StepsToTheEnd
<1> USE ServiceThreads
    DEF EndInv, Working, Closing, FailedAtTheEnd, StepsToTheEnd, Ends, Leaving, Joined,
        ConnectFailed
<1>1. CASE StartsClient
  BY <1>1 DEF StartsClient, CR!StartThread, netVars, driver, server
<1>2. CASE WaitsForClient
  BY <1>2 DEF WaitsForClient, CR!WaitServerWork, CR!Signalled, netVars, window, driver, server
<1>3. CASE OpensWindow
  <2>1. cRunning /\ nOwner = "started" /\ nRunning
    BY <1>3 DEF OpensWindow
  <2>2. /\ nOwner' = nOwner /\ nRunning' = nRunning /\ nEnqueued' = nEnqueued \cup {Send(LOGON)}
        /\ failed' = failed /\ Send(LOGON) \notin Drops
    BY <1>3, <2>1, EnqueueToNetMoves, NoDrop DEF OpensWindow, EnqueueToNet
  <2>3. UNCHANGED <<crVars, driver, conn, server>> /\ mPc' = "prompt" /\ cOwner = "started"
    BY <1>3 DEF OpensWindow
  <2> QED BY <2>1, <2>2, <2>3 DEF crVars, driver, server
<1>4. CASE TestsCdkRunning
  BY <1>4 DEF TestsCdkRunning, crVars, netVars, driver, server
<1>5. CASE StopsClient
  BY <1>5 DEF StopsClient, CR!Stop, CR!Signalled, netVars, window, driver, server
<1>6. CASE JoinsClient
  BY <1>6 DEF JoinsClient, CR!Join, netVars, driver, server
<1>7. CASE DestroysNet
  BY <1>7 DEF DestroysNet, Net!Destroy, crVars, window, driver, server
<1>8. CASE DestroysClient
  BY <1>8 DEF DestroysClient, CR!Destroy, netVars, driver, server
<1>9. CASE Types
  <2>1. cRunning /\ nOwner = "started" /\ nRunning
    BY <1>9 DEF Types
  <2>2. PICK ctx : EnqueueToNet(ctx) /\ ctx \notin Drops
    BY <1>9, NoDrop DEF Types
  <2>3. /\ nOwner' = nOwner /\ nRunning' = nRunning /\ nEnqueued' = nEnqueued \cup {ctx}
        /\ failed' = failed
    BY <2>1, <2>2, EnqueueToNetMoves DEF EnqueueToNet
  <2>4. UNCHANGED <<crVars, driver, conn, server>> /\ mPc' = "test" /\ mPc = "prompt"
    BY <1>9 DEF Types
  <2> QED BY <2>1, <2>2, <2>3, <2>4 DEF crVars, driver, server
<1>10. CASE TypesExit
  BY <1>10 DEF TypesExit, crVars, netVars, driver, server
<1>11. CASE EscapesFromEntry
  BY <1>11 DEF EscapesFromEntry, crVars, netVars, driver, server
<1> QED BY <1>1, <1>2, <1>3, <1>4, <1>5, <1>6, <1>7, <1>8, <1>9, <1>10, <1>11
        DEF MainStep, UserStep

LEMMA ClientEnds ==
  ASSUME IInv, Serving, EndInv, ~Failed, ClientStep
  PROVE  StepsToTheEnd
<1> USE ServiceThreads
    DEF EndInv, Working, Closing, FailedAtTheEnd, StepsToTheEnd, Ends, Leaving, Joined,
        ConnectFailed
<1>1. CASE StartsNet
  BY <1>1 DEF StartsNet, Net!StartThread, crVars, window, driver, server
<1>2. CASE WaitsForNet
  BY <1>2 DEF WaitsForNet, Net!WaitServerWork, crVars, window, driver, server
<1>3. CASE Connects
  BY <1>3 DEF Connects, CR!RunInit, netVars, window, driver, server
<1>4. CASE ClientLoop
  <2> USE <1>4 DEF ClientLoop, netVars, window, driver, server
  <2>1. CASE CR!TestRunning
    BY <2>1 DEF CR!TestRunning
  <2>2. CASE CR!WaitForWork
    BY <2>2 DEF CR!WaitForWork
  <2>3. CASE CR!TakeAll
    BY <2>3 DEF CR!TakeAll
  <2>4. CASE CR!NoneLeft
    BY <2>4 DEF CR!NoneLeft
  <2>5. CASE CR!Decide
    BY <2>5 DEF CR!Decide
  <2>6. CASE CR!ProcessStart
    BY <2>6 DEF CR!ProcessStart
  <2> QED BY <2>1, <2>2, <2>3, <2>4, <2>5, <2>6
<1>5. CASE ShowsFrame \/ ClientDrop
  BY <1>5 DEF ShowsFrame, ClientDrop, ClientHas, CR!Process, netVars, window, driver, server
<1>6. CASE SendsOn
  <2>1. nOwner = "started" /\ nRunning
    BY <1>6 DEF SendsOn, ClientHas
  <2> DEFINE ctx == Send(Head(cVec)[2])
  <2>2. EnqueueToNet(ctx) /\ ctx \notin Drops
    BY <1>6, NoDrop DEF SendsOn
  <2> HIDE DEF ctx
  <2>3. /\ nOwner' = nOwner /\ nRunning' = nRunning /\ nEnqueued' = nEnqueued \cup {ctx}
        /\ failed' = failed
    BY <2>1, <2>2, EnqueueToNetMoves DEF EnqueueToNet
  <2>4. /\ UNCHANGED <<window, driver, conn, server>>
        /\ cPc = "act" /\ cPc' = "each" /\ cOwner' = cOwner /\ cRunning' = cRunning
    BY <1>6 DEF SendsOn, ClientHas, CR!Process
  <2> QED BY <2>1, <2>2, <2>3, <2>4 DEF window, driver, server
<1>7. CASE LeavesHall
  BY <1>7 DEF LeavesHall, ClientHas, CR!Process, netVars, driver, server
<1>8. CASE Finit
  BY <1>8 DEF Finit, Net!Stop, Net!Signalled, crVars, window, driver, server
<1>9. CASE JoinsNet
  BY <1>9 DEF JoinsNet, Net!Join, crVars, window, driver, server
<1> QED BY <1>1, <1>2, <1>3, <1>4, <1>5, <1>6, <1>7, <1>8, <1>9 DEF ClientStep

LEMMA NetEndsToo ==
  ASSUME IInv, Serving, EndInv, ~Failed, NetStep
  PROVE  StepsToTheEnd
<1> USE ServiceThreads
    DEF EndInv, Working, Closing, FailedAtTheEnd, StepsToTheEnd, Ends, Leaving, Joined,
        ConnectFailed
<1>1. CASE NetInit
  BY <1>1 DEF NetInit, Net!RunInit, crVars, window, server
<1>2. CASE NetLoop
  <2> USE <1>2 DEF NetLoop, crVars, window, driver, server
  <2>1. CASE Net!TestRunning
    BY <2>1 DEF Net!TestRunning
  <2>2. CASE Net!WaitForWork
    BY <2>2 DEF Net!WaitForWork
  <2>3. CASE Net!TakeAll
    BY <2>3 DEF Net!TakeAll
  <2>4. CASE Net!NoneLeft
    BY <2>4 DEF Net!NoneLeft
  <2>5. CASE Net!Decide
    BY <2>5 DEF Net!Decide
  <2>6. CASE Net!ProcessStart
    BY <2>6 DEF Net!ProcessStart
  <2> QED BY <2>1, <2>2, <2>3, <2>4, <2>5, <2>6
<1>3. CASE ForwardRecv
  <2>1. nOwner # "idle" /\ cOwner # "idle"
    BY <1>3 DEF ForwardRecv, NetHas
  <2>2. ~cRunning => Leaving
    BY <2>1
  <2> QED BY <1>3, <2>2, EnqueueToCRMoves
          DEF ForwardRecv, NetHas, Net!Process, EnqueueToCR, window, driver, server
<1>4. CASE DropConnection
  <2>1. Ends
    BY <1>4 DEF DropConnection, NetHas, DropsAtTheEnd
  <2> QED BY <1>4, <2>1, EnqueueToCRMoves
          DEF DropConnection, NetHas, Net!Process, window, driver, server
<1>5. CASE SendMsg
  BY <1>5 DEF SendMsg, NetHas, Net!Process, crVars, window, driver
<1>6. CASE WriteFails
  BY <1>6, EnqueueToNetMoves DEF WriteFails, crVars, window, driver, server
<1>7. CASE WriteKills
  BY <1>7 DEF WriteKills, crVars, netVars, window, driver, server
<1>8. CASE DropAllConnections
  BY <1>8 DEF DropAllConnections, crVars, netVars, window, server, IInv, NetEnds
<1>9. CASE StopDriver
  BY <1>9 DEF StopDriver, crVars, netVars, window, server
<1>10. CASE JoinDriver
  BY <1>10 DEF JoinDriver, crVars, netVars, window, server
<1> QED BY <1>1, <1>2, <1>3, <1>4, <1>5, <1>6, <1>7, <1>8, <1>9, <1>10 DEF NetStep

LEMMA DriverEnds ==
  ASSUME IInv, Serving, EndInv, ~Failed, DriverStep \/ ServerSends \/ ServerEnds
  PROVE  StepsToTheEnd
<1> USE ServiceThreads
    DEF EndInv, Working, Closing, FailedAtTheEnd, StepsToTheEnd, Ends, Leaving, Joined,
        ConnectFailed
<1>1. CASE Dispatch
  BY <1>1 DEF Dispatch, crVars, netVars, window, server
<1>2. CASE ReadFrame
  BY <1>2, EnqueueToNetMoves, NoDrop DEF ReadFrame, crVars, window
<1>3. CASE ReadEnd
  BY <1>3, EnqueueToNetMoves DEF ReadEnd, crVars, window, server
<1>4. CASE ReadNotOkay
  BY <1>4, EnqueueToNetMoves DEF ReadNotOkay, crVars, window, server
<1>5. CASE Crash
  BY <1>5 DEF Crash, crVars, netVars, window, driver, server
<1>6. CASE LeavesLoop
  <2>1. Ends
    BY <1>6 DEF LeavesLoop, IInv, FinitDone, NetEnds
  <2> QED BY <1>6, <2>1 DEF LeavesLoop, crVars, netVars, window, server
<1>7. CASE ServerSends
  <2>1. wire' # <<>>
    BY <1>7 DEF ServerSends, Serving, Traffic
  <2> QED BY <1>7, <2>1 DEF ServerSends, crVars, netVars, window, driver
<1>8. CASE ServerEnds
  BY <1>8 DEF ServerEnds, crVars, netVars, window, driver
<1> QED BY <1>1, <1>2, <1>3, <1>4, <1>5, <1>6, <1>7, <1>8 DEF DriverStep

LEMMA StepEndInv == IInv /\ Serving /\ EndInv /\ [Next]_vars => EndInv'
<1> SUFFICES ASSUME IInv, Serving, EndInv, [Next]_vars
             PROVE  EndInv'
  OBVIOUS
<1>1. StepsToTheEnd
  <2>1. CASE Next
    BY <2>1, MainEnds, ClientEnds, NetEndsToo, DriverEnds DEF Next
  <2>2. CASE UNCHANGED vars
    BY <2>2 DEF vars, crVars, netVars, window, driver, server, StepsToTheEnd, EndInv, Working,
         Closing, FailedAtTheEnd, Ends, Leaving, ConnectFailed
  <2> QED BY <2>1, <2>2
<1>2. Range(nVec') \cup Range(nQueue')
        \subseteq Range(nVec) \cup Range(nQueue) \cup {START} \cup (nEnqueued' \ nEnqueued)
  BY ServicesAct, NetQueueStep DEF Serving
<1>3. START \notin Drops
  BY StartAssumption DEF NetMsgs, CRMsgs
<1>4. DropsAtTheEnd'
  BY <1>1, <1>2, <1>3 DEF EndInv, DropsAtTheEnd, StepsToTheEnd
<1> QED BY <1>1, <1>4 DEF StepsToTheEnd, EndInv

-----------------------------------------------------------------------------
(* CRClient and its NetService, started, waited for and stopped by the     *)
(* client's threads, are LogicServices, as that module specifies them:     *)
(* what is proved there holds of both.                                     *)
THEOREM ServicesAreServices == Spec => CRP!Spec /\ NetP!Spec
<1>1. Init => CRP!Init /\ NetP!Init
  BY SameClient, SameNet DEF Init
<1>2. Spec => []Serving
  BY InitServing, StepServing, PTL DEF Spec
<1>3. Serving /\ [Next]_vars => [CRP!Next]_CRP!serviceVars /\ [NetP!Next]_NetP!serviceVars
  BY ServicesAct DEF Serving
<1> QED BY <1>1, <1>2, <1>3, PTL DEF Spec, CRP!Spec, NetP!Spec

LEMMA EndIsInvariant == Spec => []EndInv
<1>1. Spec => []IInv
  BY InitIInv, StepIInv, PTL DEF Spec
<1>2. Spec => []Serving
  BY InitServing, StepServing, PTL DEF Spec
<1>3. Init => EndInv
  <2> SUFFICES ASSUME Init
               PROVE  EndInv
    OBVIOUS
  <2>1. /\ cPc = "none" /\ cOwner = "idle" /\ nOwner = "idle" /\ mPc = "start" /\ conn = "none"
        /\ dPc = "none" /\ ~serverEnded /\ nVec = <<>> /\ nQueue = <<>> /\ failed = "no"
    BY DEF Init, CR!Init, Net!Init
  <2>2. Range(nVec) = {} /\ Range(nQueue) = {}
    BY <2>1, EmptyQueue
  <2> QED BY <2>1, <2>2 DEF EndInv, Working, Closing, DropsAtTheEnd, FailedAtTheEnd, Joined,
                            ConnectFailed
<1> QED BY <1>1, <1>2, <1>3, StepEndInv, PTL DEF Spec

(* The client fails only when it is being stopped or the server has gone:  *)
(* in between no context is refused (~OperContext's assertion), no         *)
(* assertion of its services fails, no thread enters a deleted connection. *)
THEOREM FailsAlwaysAtTheEnd == Spec => []FailsOnlyAtTheEnd
<1>1. Spec => []Serving
  BY InitServing, StepServing, PTL DEF Spec
<1>2. Serving /\ EndInv => FailsOnlyAtTheEnd
  BY DEF Serving, EndInv, Working, FailedAtTheEnd, FailsOnlyAtTheEnd, Ends, Leaving, Joined
<1> QED BY <1>1, <1>2, EndIsInvariant, PTL

-----------------------------------------------------------------------------
(* The way of the frames: from the wire through what waits for the         *)
(* NetService and what waits for CRClient to what CRClient has shown.  A   *)
(* frame moves by steps that take from the head of one queue and append to *)
(* the next, so what a queue holds is a set of numbers that rise along it  *)
(* and lie between those of its neighbours.                                *)
FrameOf(ctx) == {i \in Frames : ctx = Recv(i)}
Ahead(S, T) == \A i \in S, j \in T : i < j

LEMMA FramesAreOne ==
  /\ Frames \subseteq Nat \ {0}
  /\ \A i, j : Recv(i) = Recv(j) => i = j
  /\ \A i \in Frames : FrameOf(Recv(i)) = {i}
  /\ \A x : FrameOf(Send(x)) = {} /\ FrameOf(Drop(x)) = {}
  /\ \A line \in LocalLines : FrameOf(Recv(line)) = {}
  /\ FrameOf(START) = {}
<1>1. \A x : /\ Recv(x)[1] = "OP_RECV" /\ Recv(x)[2] = x
             /\ Send(x)[1] = "OP_SEND" /\ Drop(x)[1] = "OP_DROP"
  BY DEF Recv, Send, Drop
<1>2. \A i, j : Recv(i) = Recv(j) => i = j
  BY <1>1
<1>3. \A i \in Frames : Recv(i) \in NetMsgs
  BY DEF NetMsgs, CRMsgs
<1>4. FrameOf(START) = {}
  BY <1>3, StartAssumption DEF FrameOf
<1>5. Frames \subseteq Nat \ {0}
  BY ClientAssumption DEF Frames
<1>6. \A x : FrameOf(Send(x)) = {} /\ FrameOf(Drop(x)) = {}
  BY <1>1 DEF FrameOf
<1>7. \A line \in LocalLines : FrameOf(Recv(line)) = {}
  BY <1>2, LinesAssumption DEF FrameOf
<1> QED BY <1>2, <1>4, <1>5, <1>6, <1>7 DEF FrameOf

LEMMA OrderIsBefore ==
  ASSUME NEW q
  PROVE  InOrder(q) <=> \A i, j \in Frames : Before(q, Recv(i), Recv(j)) => i < j
  BY DEF InOrder, Before

LEMMA EmptyFrames == FramesIn(<<>>) = {} /\ InOrder(<<>>)
  BY EmptyQueue, OrderIsBefore DEF FramesIn

LEMMA AppendFrames ==
  ASSUME NEW q, IsQueue(q), NEW e
  PROVE  /\ IsQueue(Append(q, e))
         /\ FramesIn(Append(q, e)) = FramesIn(q) \cup FrameOf(e)
         /\ InOrder(q) /\ Ahead(FramesIn(q), FrameOf(e)) => InOrder(Append(q, e))
<1>1. /\ IsQueue(Append(q, e))
      /\ Range(Append(q, e)) = Range(q) \cup {e}
      /\ \A x, y : Before(Append(q, e), x, y) <=> Before(q, x, y) \/ (x \in Range(q) /\ y = e)
  BY AppendToQueue
<1>2. FramesIn(Append(q, e)) = FramesIn(q) \cup FrameOf(e)
  BY <1>1 DEF FramesIn, FrameOf
<1>3. ASSUME InOrder(q), Ahead(FramesIn(q), FrameOf(e))
      PROVE  InOrder(Append(q, e))
  <2>1. \A i, j \in Frames : Before(q, Recv(i), Recv(j)) => i < j
    BY <1>3, OrderIsBefore
  <2>2. \A i, j \in Frames : Recv(i) \in Range(q) /\ Recv(j) = e => i < j
    BY <1>3 DEF Ahead, FramesIn, FrameOf
  <2>3. \A i, j \in Frames : Before(Append(q, e), Recv(i), Recv(j)) => i < j
    BY <1>1, <2>1, <2>2
  <2> QED BY <2>3, OrderIsBefore
<1> QED BY <1>1, <1>2, <1>3

LEMMA TailFrames ==
  ASSUME NEW q, IsQueue(q), q # <<>>
  PROVE  /\ IsQueue(Tail(q))
         /\ FramesIn(q) = FrameOf(Head(q)) \cup FramesIn(Tail(q))
         /\ InOrder(q) => InOrder(Tail(q)) /\ Ahead(FrameOf(Head(q)), FramesIn(Tail(q)))
<1>1. /\ IsQueue(Tail(q))
      /\ Range(q) = {Head(q)} \cup Range(Tail(q))
      /\ \A x, y : Before(Tail(q), x, y) => Before(q, x, y)
      /\ \A y \in Range(Tail(q)) : Before(q, Head(q), y)
  BY TailOfQueue
<1>2. FramesIn(q) = FrameOf(Head(q)) \cup FramesIn(Tail(q))
  BY <1>1 DEF FramesIn, FrameOf
<1>3. ASSUME InOrder(q)
      PROVE  InOrder(Tail(q)) /\ Ahead(FrameOf(Head(q)), FramesIn(Tail(q)))
  <2>1. \A i, j \in Frames : Before(q, Recv(i), Recv(j)) => i < j
    BY <1>3, OrderIsBefore
  <2>2. InOrder(Tail(q))
    BY <1>1, <2>1, OrderIsBefore
  <2>3. Ahead(FrameOf(Head(q)), FramesIn(Tail(q)))
    BY <1>1, <2>1 DEF Ahead, FramesIn, FrameOf
  <2> QED BY <2>2, <2>3
<1> QED BY <1>1, <1>2, <1>3

LEMMA ConcatFrames ==
  ASSUME NEW q, NEW s, IsQueue(q), IsQueue(s)
  PROVE  /\ IsQueue(q \o s)
         /\ FramesIn(q \o s) = FramesIn(q) \cup FramesIn(s)
         /\ InOrder(q) /\ InOrder(s) /\ Ahead(FramesIn(q), FramesIn(s)) <=> InOrder(q \o s)
<1>1. /\ IsQueue(q \o s)
      /\ Range(q \o s) = Range(q) \cup Range(s)
      /\ \A x, y : Before(q \o s, x, y)
                     <=> \/ Before(q, x, y) \/ Before(s, x, y)
                         \/ x \in Range(q) /\ y \in Range(s)
  BY ConcatOfQueues
<1>2. FramesIn(q \o s) = FramesIn(q) \cup FramesIn(s)
  BY <1>1 DEF FramesIn
<1>3. InOrder(q) <=> \A i, j \in Frames : Before(q, Recv(i), Recv(j)) => i < j
  BY OrderIsBefore
<1>4. InOrder(s) <=> \A i, j \in Frames : Before(s, Recv(i), Recv(j)) => i < j
  BY OrderIsBefore
<1>5. InOrder(q \o s) <=> \A i, j \in Frames : Before(q \o s, Recv(i), Recv(j)) => i < j
  BY OrderIsBefore
<1>6. Ahead(FramesIn(q), FramesIn(s))
        <=> \A i, j \in Frames : Recv(i) \in Range(q) /\ Recv(j) \in Range(s) => i < j
  BY DEF Ahead, FramesIn
<1> QED BY <1>1, <1>2, <1>3, <1>4, <1>5, <1>6

-----------------------------------------------------------------------------
(* The frames shown, those that wait for CRClient and those that wait for  *)
(* the NetService: n frames have been read, and as long as nothing has     *)
(* been thrown away (whole) they are all there.                            *)
Streams(h, p, q, n, whole) ==
  /\ IsQueue(h) /\ IsQueue(p) /\ IsQueue(q)
  /\ InOrder(h) /\ InOrder(p) /\ InOrder(q)
  /\ Ahead(FramesIn(h), FramesIn(p)) /\ Ahead(FramesIn(h), FramesIn(q))
  /\ Ahead(FramesIn(p), FramesIn(q))
  /\ FramesIn(h) \cup FramesIn(p) \cup FramesIn(q) \subseteq 1 .. n
  /\ whole => 1 .. n \subseteq FramesIn(h) \cup FramesIn(p) \cup FramesIn(q)

(* A frame may be shown when all those before it are.                      *)
Due(h, ctx) == \A i \in FrameOf(ctx) : 1 .. i - 1 \subseteq FramesIn(h)

LEMMA HeadIsDue ==
  ASSUME NEW h, NEW p, NEW q, NEW n \in Nat, Streams(h, p, q, n, TRUE), p # <<>>
  PROVE  Due(h, Head(p))
<1> SUFFICES ASSUME NEW i \in FrameOf(Head(p)), NEW k \in 1 .. i - 1
             PROVE  k \in FramesIn(h)
  BY DEF Due
<1>1. /\ FramesIn(p) = FrameOf(Head(p)) \cup FramesIn(Tail(p))
      /\ Ahead(FrameOf(Head(p)), FramesIn(Tail(p)))
  BY TailFrames DEF Streams
<1>2. i \in FramesIn(p) /\ i \in 1 .. n /\ FrameOf(Head(p)) = {i}
  BY <1>1, FramesAreOne DEF Streams, FrameOf
<1>3. k \in 1 .. n /\ k < i /\ ~(i < k)
  BY <1>2
<1>4. k \in FramesIn(h) \cup FramesIn(p) \cup FramesIn(q)
  BY <1>3 DEF Streams
<1>5. k \notin FramesIn(Tail(p)) /\ k \notin FramesIn(q) /\ k # i
  BY <1>1, <1>2, <1>3 DEF Streams, Ahead
<1> QED BY <1>1, <1>2, <1>4, <1>5

(* A context that is no frame is appended, or one that is the next frame.  *)
LEMMA ClientGets ==
  ASSUME NEW h, NEW p, NEW q, NEW n, NEW whole, Streams(h, p, q, n, whole), NEW e, FrameOf(e) = {}
  PROVE  Streams(h, Append(p, e), q, n, whole)
<1>1. /\ IsQueue(Append(p, e)) /\ FramesIn(Append(p, e)) = FramesIn(p)
      /\ InOrder(Append(p, e))
  BY AppendFrames DEF Streams, Ahead
<1> QED BY <1>1 DEF Streams

LEMMA NetGets ==
  ASSUME NEW h, NEW p, NEW q, NEW n, NEW whole, Streams(h, p, q, n, whole), NEW e, FrameOf(e) = {}
  PROVE  Streams(h, p, Append(q, e), n, whole)
<1>1. /\ IsQueue(Append(q, e)) /\ FramesIn(Append(q, e)) = FramesIn(q)
      /\ InOrder(Append(q, e))
  BY AppendFrames DEF Streams, Ahead
<1> QED BY <1>1 DEF Streams

LEMMA NetGetsFrame ==
  ASSUME NEW h, NEW p, NEW q, NEW n \in Nat, NEW whole, Streams(h, p, q, n, whole),
         n + 1 \in Frames
  PROVE  Streams(h, p, Append(q, Recv(n + 1)), n + 1, whole)
<1>1. FrameOf(Recv(n + 1)) = {n + 1}
  BY FramesAreOne
<1>2. FramesIn(h) \cup FramesIn(p) \cup FramesIn(q) \subseteq 1 .. n
  BY DEF Streams
<1>3. \A S : S \subseteq 1 .. n => Ahead(S, {n + 1})
  BY DEF Ahead
<1>4. /\ Ahead(FramesIn(h), {n + 1}) /\ Ahead(FramesIn(p), {n + 1}) /\ Ahead(FramesIn(q), {n + 1})
  BY <1>2, <1>3
<1>5. /\ IsQueue(Append(q, Recv(n + 1))) /\ InOrder(Append(q, Recv(n + 1)))
      /\ FramesIn(Append(q, Recv(n + 1))) = FramesIn(q) \cup {n + 1}
  BY <1>1, <1>4, AppendFrames DEF Streams
<1>6. 1 .. n + 1 = (1 .. n) \cup {n + 1}
  OBVIOUS
<1>7. \A S, T : Ahead(S, T) /\ Ahead(S, {n + 1}) => Ahead(S, T \cup {n + 1})
  BY DEF Ahead
<1> QED BY <1>2, <1>4, <1>5, <1>6, <1>7 DEF Streams

(* A frame is read and nobody takes it, or a context is thrown away.       *)
LEMMA FrameIsLost ==
  ASSUME NEW h, NEW p, NEW q, NEW n \in Nat, NEW whole, Streams(h, p, q, n, whole)
  PROVE  Streams(h, p, q, n + 1, FALSE)
<1>1. 1 .. n \subseteq 1 .. n + 1
  OBVIOUS
<1> QED BY <1>1 DEF Streams

LEMMA NetDrops ==
  ASSUME NEW h, NEW p, NEW q, NEW n, NEW whole, Streams(h, p, q, n, whole), q # <<>>
  PROVE  /\ Streams(h, p, Tail(q), n, FALSE)
         /\ FrameOf(Head(q)) = {} => Streams(h, p, Tail(q), n, whole)
<1>1. /\ IsQueue(Tail(q)) /\ InOrder(Tail(q))
      /\ FramesIn(q) = FrameOf(Head(q)) \cup FramesIn(Tail(q))
  BY TailFrames DEF Streams
<1>2. Ahead(FramesIn(h), FramesIn(Tail(q))) /\ Ahead(FramesIn(p), FramesIn(Tail(q)))
  BY <1>1 DEF Streams, Ahead
<1> QED BY <1>1, <1>2 DEF Streams

LEMMA ClientDrops ==
  ASSUME NEW h, NEW p, NEW q, NEW n, NEW whole, Streams(h, p, q, n, whole), p # <<>>
  PROVE  Streams(h, Tail(p), q, n, FALSE)
<1>1. /\ IsQueue(Tail(p)) /\ InOrder(Tail(p))
      /\ FramesIn(p) = FrameOf(Head(p)) \cup FramesIn(Tail(p))
  BY TailFrames DEF Streams
<1>2. Ahead(FramesIn(h), FramesIn(Tail(p))) /\ Ahead(FramesIn(Tail(p)), FramesIn(q))
  BY <1>1 DEF Streams, Ahead
<1> QED BY <1>1, <1>2 DEF Streams

(* A context goes on to the next: from the NetService to CRClient, ...     *)
LEMMA NetForwards ==
  ASSUME NEW h, NEW p, NEW q, NEW n, NEW whole, Streams(h, p, q, n, whole), q # <<>>
  PROVE  Streams(h, Append(p, Head(q)), Tail(q), n, whole)
<1> DEFINE e == Head(q)
           t == Tail(q)
<1>1. /\ IsQueue(t) /\ InOrder(t) /\ Ahead(FrameOf(e), FramesIn(t))
      /\ FramesIn(q) = FrameOf(e) \cup FramesIn(t)
  BY TailFrames DEF Streams
<1> HIDE DEF e, t
<1>2. /\ Ahead(FramesIn(p), FrameOf(e)) /\ Ahead(FramesIn(h), FrameOf(e))
      /\ Ahead(FramesIn(p), FramesIn(t)) /\ Ahead(FramesIn(h), FramesIn(t))
  BY <1>1 DEF Streams, Ahead
<1>3. /\ IsQueue(Append(p, e)) /\ FramesIn(Append(p, e)) = FramesIn(p) \cup FrameOf(e)
      /\ InOrder(Append(p, e))
  BY <1>2, AppendFrames DEF Streams
<1>4. /\ Ahead(FramesIn(h), FramesIn(p) \cup FrameOf(e))
      /\ Ahead(FramesIn(p) \cup FrameOf(e), FramesIn(t))
  BY <1>1, <1>2 DEF Streams, Ahead
<1>5. Streams(h, Append(p, e), t, n, whole)
  BY <1>1, <1>2, <1>3, <1>4 DEF Streams
<1> QED BY <1>5 DEF e, t

(* ... and from what waits for CRClient to what is shown.                  *)
LEMMA ClientShows ==
  ASSUME NEW h, NEW p, NEW q, NEW n, NEW whole, Streams(h, p, q, n, whole), p # <<>>
  PROVE  /\ Streams(Append(h, Head(p)), Tail(p), q, n, whole)
         /\ FramesIn(Append(h, Head(p))) = FramesIn(h) \cup FrameOf(Head(p))
<1> DEFINE e == Head(p)
           t == Tail(p)
<1>1. /\ IsQueue(t) /\ InOrder(t) /\ Ahead(FrameOf(e), FramesIn(t))
      /\ FramesIn(p) = FrameOf(e) \cup FramesIn(t)
  BY TailFrames DEF Streams
<1> HIDE DEF e, t
<1>2. /\ Ahead(FramesIn(h), FrameOf(e)) /\ Ahead(FrameOf(e), FramesIn(q))
      /\ Ahead(FramesIn(h), FramesIn(t)) /\ Ahead(FramesIn(t), FramesIn(q))
  BY <1>1 DEF Streams, Ahead
<1>3. /\ IsQueue(Append(h, e)) /\ FramesIn(Append(h, e)) = FramesIn(h) \cup FrameOf(e)
      /\ InOrder(Append(h, e))
  BY <1>2, AppendFrames DEF Streams
<1>4. /\ Ahead(FramesIn(h) \cup FrameOf(e), FramesIn(t))
      /\ Ahead(FramesIn(h) \cup FrameOf(e), FramesIn(q))
  BY <1>1, <1>2 DEF Streams, Ahead
<1>5. Streams(Append(h, e), t, q, n, whole)
  BY <1>1, <1>2, <1>3, <1>4 DEF Streams
<1> QED BY <1>3, <1>5 DEF e, t

-----------------------------------------------------------------------------
(* Before main starts CRClient nothing is sent, and before CRClient starts *)
(* its NetService no driver runs.                                          *)
Begun ==
  /\ cOwner = "idle" => answered = 0 /\ toServer = <<>>
  /\ nOwner = "idle" => dPc = "none"

LEMMA StepBegun == Serving /\ EndInv /\ Begun /\ [Next]_vars => Begun'
<1> SUFFICES ASSUME Serving, EndInv, Begun, [Next]_vars
             PROVE  Begun'
  OBVIOUS
<1>1. cOwner' = "idle" => cOwner = "idle"
  BY ServicesAct DEF Serving, CRP!Next, CRP!ThreadStep, CRP!OwnerStep, CRP!OwnerChoice,
     CRP!OthersEnqueue, CRP!Run, CRP!serviceVars, CRP!StartThread, CRP!StartWithoutNewThread,
     CRP!WaitServerWork, CRP!WakeUnsignalled, CRP!Stop, CRP!Join, CRP!Destroy, CRP!Enqueue,
     CRP!RunInit, CRP!TestRunning, CRP!WaitForWork, CRP!TakeAll, CRP!NoneLeft, CRP!Decide,
     CRP!Process, CRP!ProcessStart
<1>2. nOwner' = "idle" => nOwner = "idle"
  BY ServicesAct DEF Serving, NetP!Next, NetP!ThreadStep, NetP!OwnerStep, NetP!OwnerChoice,
     NetP!OthersEnqueue, NetP!Run, NetP!serviceVars, NetP!StartThread,
     NetP!StartWithoutNewThread, NetP!WaitServerWork, NetP!WakeUnsignalled, NetP!Stop, NetP!Join,
     NetP!Destroy, NetP!Enqueue, NetP!RunInit, NetP!TestRunning, NetP!WaitForWork, NetP!TakeAll,
     NetP!NoneLeft, NetP!Decide, NetP!Process, NetP!ProcessStart
<1>3. /\ nOwner = "idle" => nPc = "none"
      /\ cOwner = "idle" => nOwner = "idle"
  BY ServiceThreads DEF EndInv, Working
<1>4. ASSUME nOwner = "idle"
      PROVE  dPc' = dPc /\ toServer' = toServer
  <2>1. nPc = "none" /\ dPc = "none"
    BY <1>3, <1>4 DEF Begun
  <2>2. CASE MainStep \/ UserStep
    BY <2>2 DEF MainStep, UserStep, StartsClient, WaitsForClient, OpensWindow, TestsCdkRunning,
         StopsClient, JoinsClient, DestroysNet, DestroysClient, Types, TypesExit,
         EscapesFromEntry, driver, server
  <2>3. CASE ClientStep
    BY <2>3 DEF ClientStep, StartsNet, WaitsForNet, Connects, ClientLoop, ShowsFrame, SendsOn,
         LeavesHall, ClientDrop, Finit, JoinsNet, driver, server, Net!Join
  <2>4. CASE NetStep
    BY <2>1, <2>4 DEF NetStep, NetInit, Net!RunInit, NetLoop, ForwardRecv, DropConnection, SendMsg,
         NetHas, WriteFails, WriteKills, DropAllConnections, StopDriver, JoinDriver, driver, server
  <2>5. CASE DriverStep
    BY <2>1, <2>5 DEF DriverStep, Dispatch, ReadFrame, ReadEnd, ReadNotOkay, Crash, LeavesLoop
  <2>6. CASE ServerSends \/ ServerEnds
    BY <2>6 DEF ServerSends, ServerEnds, driver
  <2>7. CASE UNCHANGED vars
    BY <2>7 DEF vars, driver, server
  <2> QED BY <2>2, <2>3, <2>4, <2>5, <2>6, <2>7 DEF Next
<1>5. ASSUME cOwner = "idle"
      PROVE  answered' = answered
  <2>1. dPc = "none" /\ toServer = <<>>
    BY <1>3, <1>5 DEF Begun
  <2>2. CASE MainStep \/ UserStep
    BY <2>2 DEF MainStep, UserStep, StartsClient, WaitsForClient, OpensWindow, TestsCdkRunning,
         StopsClient, JoinsClient, DestroysNet, DestroysClient, Types, TypesExit,
         EscapesFromEntry, server
  <2>3. CASE ClientStep
    BY <2>3 DEF ClientStep, StartsNet, WaitsForNet, Connects, ClientLoop, ShowsFrame, SendsOn,
         LeavesHall, ClientDrop, Finit, JoinsNet, server
  <2>4. CASE NetStep
    BY <2>4 DEF NetStep, NetInit, NetLoop, ForwardRecv, DropConnection, SendMsg,
         WriteFails, WriteKills, DropAllConnections, StopDriver, JoinDriver, server
  <2>5. CASE DriverStep
    BY <2>1, <2>5 DEF DriverStep, Dispatch, ReadFrame, ReadEnd, ReadNotOkay, Crash, LeavesLoop,
         server
  <2>6. CASE ServerSends \/ ServerEnds
    BY <2>1, <2>6, EmptyQueue DEF ServerSends, ServerEnds
  <2>7. CASE UNCHANGED vars
    BY <2>7 DEF vars, server
  <2> QED BY <2>2, <2>3, <2>4, <2>5, <2>6, <2>7 DEF Next
<1> QED BY <1>1, <1>2, <1>3, <1>4, <1>5 DEF Begun

-----------------------------------------------------------------------------
(* n frames have been read from the wire; the others that were sent are    *)
(* still on it, up to where it was cut when the server ended.              *)
OnWire(n) ==
  /\ \A k \in DOMAIN wire : wire[k] = n + k
  /\ n + Len(wire) <= answered
  /\ ~serverEnded => n + Len(wire) = answered

NoGap == \A i \in FramesIn(cHandled) : 1 .. i \subseteq FramesIn(cHandled)
NextIsDue == cPc = "act" => Due(cHandled, Head(cVec))

StreamInv ==
  /\ NoGap
  /\ NextIsDue
  /\ \E n \in 0 .. answered : /\ Streams(cHandled, CRP!pending, NetP!pending, n, cRunning)
                              /\ OnWire(n)

LEMMA NetIsLeft ==
  ASSUME Serving, EndInv, Begun, ~nRunning, nPc # "none" \/ dPc # "none"
  PROVE  ~cRunning
  BY ServiceThreads DEF EndInv, Working, Begun, Leaving, Joined

LEMMA StreamsLessWhole ==
  ASSUME NEW h, NEW p, NEW q, NEW n, NEW whole, NEW whole1,
         Streams(h, p, q, n, whole), whole1 => whole
  PROVE  Streams(h, p, q, n, whole1)
  BY DEF Streams

(* A step of CRClient's owner or thread.                                   *)
ClientTurn ==
  \/ CR!StartThread \/ CR!WaitServerWork \/ CR!Stop \/ CR!Join \/ CR!Destroy
  \/ CR!RunInit \/ CR!TestRunning \/ CR!WaitForWork \/ CR!TakeAll \/ CR!NoneLeft
  \/ CR!Decide \/ CR!Process \/ CR!ProcessStart

LEMMA ClientMoves ==
  ASSUME Serving, Begun, NoGap, NextIsDue, ClientTurn,
         NEW n \in 0 .. answered, NEW q, Streams(cHandled, CRP!pending, q, n, cRunning)
  PROVE  Streams(cHandled', CRP!pending', q, n, cRunning') /\ NoGap' /\ NextIsDue'
<1> DEFINE h == cHandled
           p == CRP!pending
<1>0. CRP!IInv
  BY DEF Serving
<1>00. Streams(h, p, q, n, cRunning)
  OBVIOUS
<1>1. /\ cPc = "act" => p # <<>> /\ Head(p) = Head(cVec)
      /\ \/ CR!StartThread \/ CR!Stop \/ CR!Join \/ CR!Destroy \/ CR!RunInit \/ CR!TestRunning
         \/ CR!WaitForWork \/ CR!TakeAll \/ CR!NoneLeft
         => p' = p /\ h' = h
      /\ CR!WaitServerWork => p' = Append(p, START) /\ h' = h
      /\ CR!Decide => /\ h' = h
                      /\ \/ cRunning /\ cPc' = "act" /\ p' = p
                         \/ ~cRunning /\ cPc' = "each" /\ p # <<>> /\ p' = Tail(p)
      /\ CR!Process => h' = Append(h, Head(p)) /\ p' = Tail(p)
      /\ CR!ProcessStart => \/ p' = p /\ h' = h
                            \/ h' = Append(h, START) /\ Head(p) = START /\ p' = Tail(p)
  BY <1>0, ServiceAssumptions, CRP!Moves, SameClient
<1> HIDE DEF h, p
<1>2. CASE CR!StartThread
  <2>1. cOwner = "idle" /\ cPc' = "init"
    BY <1>2 DEF CR!StartThread
  <2>2. n = 0
    BY <2>1 DEF Begun
  <2>3. 1 .. n = {}
    BY <2>2
  <2>4. Streams(h, p, q, n, cRunning')
    BY <1>00, <2>3 DEF Streams
  <2> QED BY <1>1, <1>2, <2>1, <2>4 DEF NoGap, NextIsDue, h, p
<1>3. CASE CR!Stop \/ CR!Join \/ CR!Destroy \/ CR!RunInit \/ CR!TestRunning
           \/ CR!WaitForWork \/ CR!TakeAll \/ CR!NoneLeft
  <2>1. cRunning' => cRunning
    BY <1>3 DEF CR!Stop, CR!Join, CR!Destroy, CR!RunInit, CR!TestRunning, CR!WaitForWork,
         CR!TakeAll, CR!NoneLeft
  <2>2. cPc' = "act" => cPc = "act" /\ cVec' = cVec
    BY <1>3 DEF CR!Stop, CR!Join, CR!Destroy, CR!RunInit, CR!TestRunning, CR!WaitForWork,
         CR!TakeAll, CR!NoneLeft, CR!Signalled
  <2>3. Streams(h, p, q, n, cRunning')
    BY <1>00, <2>1, StreamsLessWhole
  <2>4. p' = p /\ h' = h
    BY <1>1, <1>3
  <2> QED BY <2>2, <2>3, <2>4 DEF NoGap, NextIsDue, h, p
<1>4. CASE CR!WaitServerWork
  <2>1. cRunning' = cRunning /\ (cPc' = "act" => cPc = "act" /\ cVec' = cVec)
    BY <1>4 DEF CR!WaitServerWork, CR!Signalled
  <2>2. Streams(h, Append(p, START), q, n, cRunning)
    BY <1>00, FramesAreOne, ClientGets
  <2> QED BY <1>1, <1>4, <2>1, <2>2 DEF NoGap, NextIsDue, h, p
<1>5. CASE CR!Decide
  <2>1. cRunning' = cRunning /\ (cPc' = "act" => cVec' = cVec /\ cVec # <<>>)
    BY <1>5 DEF CR!Decide
  <2>2. CASE cRunning /\ cPc' = "act" /\ p' = p
    <3>1. Streams(h, p, q, n, TRUE)
      BY <1>00, <2>2 DEF Streams
    <3>2. p # <<>> /\ Head(p) = Head(cVec)
      <4>1. cVec \in Seq(CRP!Contexts) /\ cQueue \in Seq(CRP!Contexts)
        BY <1>0 DEF CRP!IInv, CRP!TypeOK
      <4>2. p = cVec \o cQueue
        BY DEF p, CRP!pending
      <4> QED BY <2>1, <2>2, <4>1, <4>2
    <3>3. n \in Nat
      BY DEF Serving, Traffic
    <3>4. Due(h, Head(p))
      BY <3>1, <3>2, <3>3, HeadIsDue
    <3> QED BY <1>00, <1>1, <1>5, <2>1, <2>2, <3>2, <3>4 DEF NoGap, NextIsDue, h, p
  <2>3. CASE ~cRunning /\ cPc' = "each" /\ p # <<>> /\ p' = Tail(p)
    <3>1. Streams(h, Tail(p), q, n, FALSE)
      BY <1>00, <2>3, ClientDrops
    <3>2. Streams(h, Tail(p), q, n, cRunning')
      BY <2>1, <2>3, <3>1, StreamsLessWhole
    <3> QED BY <1>1, <1>5, <2>3, <3>2 DEF NoGap, NextIsDue, h, p
  <2> QED BY <1>1, <1>5, <2>2, <2>3
<1>6. ASSUME cPc = "act", h' = Append(h, Head(p)), p' = Tail(p), cPc' = "each",
             cRunning' => cRunning
      PROVE  Streams(h', p', q, n, cRunning') /\ NoGap' /\ NextIsDue'
  <2>1. p # <<>> /\ Due(h, Head(p))
    BY <1>1, <1>6 DEF NextIsDue, h
  <2>2. /\ Streams(Append(h, Head(p)), Tail(p), q, n, cRunning)
        /\ FramesIn(Append(h, Head(p))) = FramesIn(h) \cup FrameOf(Head(p))
    BY <1>00, <2>1, ClientShows
  <2>3. Streams(h', p', q, n, cRunning')
    BY <1>6, <2>2, StreamsLessWhole
  <2>4. FramesIn(h') = FramesIn(h) \cup FrameOf(Head(p))
    BY <1>6, <2>2
  <2>5. ASSUME NEW i \in FramesIn(h')
        PROVE  1 .. i \subseteq FramesIn(h')
    <3>1. CASE i \in FramesIn(h)
      BY <2>4, <3>1 DEF NoGap, h
    <3>2. CASE i \in FrameOf(Head(p))
      <4>1. i \in Nat \ {0} /\ 1 .. i - 1 \subseteq FramesIn(h)
        BY <2>1, <3>2, FramesAreOne DEF Due, FrameOf
      <4>2. 1 .. i = (1 .. i - 1) \cup {i}
        BY <4>1
      <4> QED BY <2>4, <2>5, <4>1, <4>2
    <3> QED BY <2>4, <2>5, <3>1, <3>2
  <2>6. NoGap'
    BY <2>5 DEF NoGap, h
  <2>7. NextIsDue'
    BY <1>6 DEF NextIsDue
  <2> QED BY <2>3, <2>6, <2>7
<1>7. CASE CR!Process
  <2>1. cPc = "act" /\ cPc' = "each" /\ cRunning' = cRunning
    BY <1>7 DEF CR!Process
  <2>2. Streams(h', p', q, n, cRunning') /\ NoGap' /\ NextIsDue'
    BY <1>1, <1>6, <1>7, <2>1
  <2> QED BY <2>2 DEF h, p
<1>8. CASE CR!ProcessStart
  <2>1. cPc = "act"
    BY <1>8 DEF CR!ProcessStart
  <2>2. CASE UNCHANGED <<cRunning, cOwner, cHandled, cVec, cPc>>
    <3>1. cQueue' = cQueue
      BY <1>8 DEF CR!ProcessStart
    <3>2. p' = p /\ h' = h
      BY <2>2, <3>1 DEF p, h, CRP!pending
    <3> QED BY <1>00, <2>2, <3>2 DEF NoGap, NextIsDue, h, p
  <2>3. CASE cOwner = "waiting" /\ cPc' = "each" /\ cHandled' = Append(cHandled, START)
    <3>1. cRunning
      BY <2>3, ServiceThreads
    <3>2. cHandled # Append(cHandled, START)
      <4>1. cHandled \in Seq(CRP!Contexts) /\ START \in CRP!Contexts
        BY <1>0 DEF CRP!IInv, CRP!TypeOK, CRP!Contexts
      <4>2. Len(Append(cHandled, START)) = Len(cHandled) + 1 /\ Len(cHandled) \in Nat
        BY <4>1
      <4> QED BY <4>2
    <3>3. h' = Append(h, Head(p)) /\ p' = Tail(p)
      BY <1>1, <1>8, <2>3, <3>2 DEF h
    <3>4. Streams(h', p', q, n, cRunning') /\ NoGap' /\ NextIsDue'
      BY <1>6, <2>1, <2>3, <3>1, <3>3
    <3> QED BY <3>4 DEF h, p
  <2> QED BY <1>8, <2>2, <2>3 DEF CR!ProcessStart
<1> QED BY <1>2, <1>3, <1>4, <1>5, <1>7, <1>8 DEF ClientTurn

(* A step of the NetService's owner, or of its thread in the loop.         *)
NetTurn ==
  \/ Net!StartThread \/ Net!WaitServerWork \/ Net!Stop \/ Net!Join \/ Net!Destroy
  \/ Net!RunInit \/ Net!TestRunning \/ Net!WaitForWork \/ Net!TakeAll \/ Net!NoneLeft
  \/ Net!Decide \/ Net!ProcessStart

LEMMA NetMoves ==
  ASSUME Serving, EndInv, Begun, NetTurn,
         NEW n, NEW h, NEW p, Streams(h, p, NetP!pending, n, cRunning)
  PROVE  Streams(h, p, NetP!pending', n, cRunning)
<1> DEFINE q == NetP!pending
<1>0. NetP!IInv
  BY DEF Serving
<1>00. Streams(h, p, q, n, cRunning)
  OBVIOUS
<1>1. /\ nPc = "act" => q # <<>> /\ Head(q) = Head(nVec)
      /\ \/ Net!StartThread \/ Net!Stop \/ Net!Join \/ Net!Destroy \/ Net!RunInit
         \/ Net!TestRunning \/ Net!WaitForWork \/ Net!TakeAll \/ Net!NoneLeft
         => q' = q
      /\ Net!WaitServerWork => q' = Append(q, START)
      /\ Net!Decide => q' = q \/ (~nRunning /\ q # <<>> /\ q' = Tail(q))
      /\ Net!ProcessStart => q' = q \/ (Head(q) = START /\ q' = Tail(q))
  BY <1>0, ServiceAssumptions, NetP!Moves, SameNet
<1> HIDE DEF q
<1>2. FrameOf(START) = {}
  BY FramesAreOne
<1>3. CASE q' = q
  BY <1>00, <1>3 DEF q
<1>4. CASE Net!WaitServerWork
  <2>1. Streams(h, p, Append(q, START), n, cRunning)
    BY <1>00, <1>2, NetGets
  <2> QED BY <1>1, <1>4, <2>1 DEF q
<1>5. CASE Net!Decide /\ ~nRunning /\ q # <<>> /\ q' = Tail(q)
  <2>1. ~cRunning
    BY <1>5, NetIsLeft DEF Net!Decide
  <2>2. Streams(h, p, Tail(q), n, FALSE)
    BY <1>00, <1>5, NetDrops
  <2>3. Streams(h, p, Tail(q), n, cRunning)
    BY <2>1, <2>2, StreamsLessWhole
  <2> QED BY <1>5, <2>3 DEF q
<1>6. CASE Net!ProcessStart /\ Head(q) = START /\ q' = Tail(q)
  <2>1. q # <<>>
    BY <1>1, <1>6 DEF Net!ProcessStart
  <2>2. Streams(h, p, Tail(q), n, cRunning)
    BY <1>00, <1>2, <1>6, <2>1, NetDrops
  <2> QED BY <1>6, <2>2 DEF q
<1> QED BY <1>1, <1>3, <1>4, <1>5, <1>6 DEF NetTurn

(* Somebody enqueues a context to the NetService that is no frame.         *)
LEMMA NetIsGiven ==
  ASSUME Serving, NEW ctx \in NetMsgs, Net!Enqueue(ctx), FrameOf(ctx) = {},
         NEW n, NEW h, NEW p, NEW whole, Streams(h, p, NetP!pending, n, whole)
  PROVE  Streams(h, p, NetP!pending', n, whole)
<1> DEFINE q == NetP!pending
<1>1. q' = IF nRunning THEN Append(q, ctx) ELSE q
  BY ServiceAssumptions, NetP!Moves, SameNet DEF Serving
<1>2. Streams(h, p, q, n, whole)
  OBVIOUS
<1> HIDE DEF q
<1>3. Streams(h, p, Append(q, ctx), n, whole)
  BY <1>2, NetGets
<1>4. Streams(h, p, q', n, whole)
  BY <1>1, <1>2, <1>3
<1> QED BY <1>4 DEF q

(* The NetService processes a context.                                     *)
LEMMA NetTakes ==
  ASSUME Serving, Net!Process
  PROVE  /\ NetP!pending # <<>> /\ Head(NetP!pending) = Head(nVec)
         /\ NetP!pending' = Tail(NetP!pending)
<1>1. nPc = "act"
  BY DEF Net!Process
<1> QED BY <1>1, ServiceAssumptions, NetP!Moves, SameNet DEF Serving

LEMMA ClientIsGiven ==
  ASSUME Serving, NEW ctx \in CRMsgs, CR!Enqueue(ctx)
  PROVE  /\ CRP!pending' = IF cRunning THEN Append(CRP!pending, ctx) ELSE CRP!pending
         /\ UNCHANGED <<cHandled, cRunning, cOwner>>
         /\ cPc' = "act" => cPc = "act" /\ cVec' = cVec
<1>1. CRP!pending' = IF cRunning THEN Append(CRP!pending, ctx) ELSE CRP!pending
  BY ServiceAssumptions, CRP!Moves, SameClient DEF Serving
<1>2. /\ UNCHANGED <<cHandled, cRunning, cOwner>>
      /\ cPc' = "act" => cPc = "act" /\ cVec' = cVec
  BY DEF CR!Enqueue, CR!Signalled
<1> QED BY <1>1, <1>2

-----------------------------------------------------------------------------
(* The steps that leave the wire alone.                                    *)
LEMMA StreamGoesOn ==
  ASSUME StreamInv, UNCHANGED <<wire, answered, serverEnded>>, NoGap', NextIsDue',
         \A n \in 0 .. answered :
           Streams(cHandled, CRP!pending, NetP!pending, n, cRunning)
             => Streams(cHandled', CRP!pending', NetP!pending', n, cRunning')
  PROVE  StreamInv'
<1>1. PICK n \in 0 .. answered :
        Streams(cHandled, CRP!pending, NetP!pending, n, cRunning) /\ OnWire(n)
  BY DEF StreamInv
<1>2. Streams(cHandled', CRP!pending', NetP!pending', n, cRunning')
  BY <1>1
<1>3. OnWire(n)' /\ answered' = answered
  BY <1>1 DEF OnWire
<1> QED BY <1>1, <1>2, <1>3 DEF StreamInv

LEMMA ClientStands ==
  ASSUME UNCHANGED crVars, NoGap, NextIsDue
  PROVE  /\ CRP!pending' = CRP!pending /\ cHandled' = cHandled /\ cRunning' = cRunning
         /\ NoGap' /\ NextIsDue'
  BY DEF crVars, CRP!pending, NoGap, NextIsDue

LEMMA NetStands ==
  ASSUME UNCHANGED netVars
  PROVE  NetP!pending' = NetP!pending
  BY DEF netVars, NetP!pending

(* Neither service moves, or only CRClient, or only the NetService.        *)
LEMMA NobodyMoves ==
  ASSUME StreamInv, UNCHANGED <<wire, answered, serverEnded>>, UNCHANGED crVars, UNCHANGED netVars
  PROVE  StreamInv'
<1>1. NoGap /\ NextIsDue
  BY DEF StreamInv
<1>2. /\ CRP!pending' = CRP!pending /\ cHandled' = cHandled /\ cRunning' = cRunning
      /\ NoGap' /\ NextIsDue' /\ NetP!pending' = NetP!pending
  BY <1>1, ClientStands, NetStands
<1> QED BY <1>2, StreamGoesOn

LEMMA OnlyClientMoves ==
  ASSUME Serving, Begun, StreamInv, UNCHANGED <<wire, answered, serverEnded>>, ClientTurn,
         UNCHANGED netVars
  PROVE  StreamInv'
<1>1. NoGap /\ NextIsDue /\ NetP!pending' = NetP!pending
  BY NetStands DEF StreamInv
<1>2. \A n \in 0 .. answered :
        Streams(cHandled, CRP!pending, NetP!pending, n, cRunning)
          => Streams(cHandled', CRP!pending', NetP!pending', n, cRunning') /\ NoGap' /\ NextIsDue'
  BY <1>1, ClientMoves
<1>3. NoGap' /\ NextIsDue'
  BY <1>2 DEF StreamInv
<1> QED BY <1>2, <1>3, StreamGoesOn

LEMMA OnlyNetMoves ==
  ASSUME Serving, EndInv, Begun, StreamInv, UNCHANGED <<wire, answered, serverEnded>>,
         UNCHANGED crVars,
         NetTurn \/ \E ctx \in NetMsgs : Net!Enqueue(ctx) /\ FrameOf(ctx) = {}
  PROVE  StreamInv'
<1>1. /\ CRP!pending' = CRP!pending /\ cHandled' = cHandled /\ cRunning' = cRunning
      /\ NoGap' /\ NextIsDue'
  BY ClientStands DEF StreamInv
<1>2. \A n : Streams(cHandled, CRP!pending, NetP!pending, n, cRunning)
               => Streams(cHandled, CRP!pending, NetP!pending', n, cRunning)
  BY NetMoves, NetIsGiven
<1> QED BY <1>1, <1>2, StreamGoesOn

LEMMA MainStreams ==
  ASSUME Serving, EndInv, Begun, StreamInv, MainStep \/ UserStep
  PROVE  StreamInv'
<1>1. UNCHANGED <<wire, answered, serverEnded>>
  BY DEF MainStep, UserStep, StartsClient, WaitsForClient, OpensWindow, TestsCdkRunning,
         StopsClient, JoinsClient, DestroysNet, DestroysClient, Types, TypesExit,
         EscapesFromEntry, server
<1>2. CASE StartsClient \/ WaitsForClient \/ StopsClient \/ JoinsClient \/ DestroysClient
  <2>1. ClientTurn /\ UNCHANGED netVars
    BY <1>2 DEF StartsClient, WaitsForClient, StopsClient, JoinsClient, DestroysClient, ClientTurn
  <2> QED BY <1>1, <2>1, OnlyClientMoves
<1>3. CASE OpensWindow \/ Types
  <2>1. \E ctx \in NetMsgs : Net!Enqueue(ctx) /\ FrameOf(ctx) = {}
    BY <1>3, FramesAreOne DEF OpensWindow, Types, EnqueueToNet, NetMsgs, CRMsgs
  <2>2. UNCHANGED crVars
    BY <1>3 DEF OpensWindow, Types
  <2> QED BY <1>1, <2>1, <2>2, OnlyNetMoves
<1>4. CASE DestroysNet
  BY <1>1, <1>4, OnlyNetMoves DEF DestroysNet, NetTurn
<1>5. CASE TestsCdkRunning \/ TypesExit \/ EscapesFromEntry
  BY <1>1, <1>5, NobodyMoves DEF TestsCdkRunning, TypesExit, EscapesFromEntry
<1> QED BY <1>2, <1>3, <1>4, <1>5 DEF MainStep, UserStep

LEMMA ClientStreams ==
  ASSUME Serving, EndInv, Begun, StreamInv, ClientStep
  PROVE  StreamInv'
<1>1. UNCHANGED <<wire, answered, serverEnded>>
  BY DEF ClientStep, StartsNet, WaitsForNet, Connects, ClientLoop, ShowsFrame, SendsOn,
         LeavesHall, ClientDrop, Finit, JoinsNet, server
<1>2. CASE StartsNet \/ WaitsForNet \/ Finit \/ JoinsNet
  <2>1. NetTurn /\ UNCHANGED crVars
    BY <1>2 DEF StartsNet, WaitsForNet, Finit, JoinsNet, NetTurn
  <2> QED BY <1>1, <2>1, OnlyNetMoves
<1>3. CASE Connects \/ ClientLoop \/ ShowsFrame \/ LeavesHall \/ ClientDrop
  <2>1. ClientTurn /\ UNCHANGED netVars
    BY <1>3 DEF Connects, ClientLoop, ShowsFrame, LeavesHall, ClientDrop, ClientTurn
  <2> QED BY <1>1, <2>1, OnlyClientMoves
<1>4. CASE SendsOn
  <2>1. ClientTurn /\ NoGap /\ NextIsDue
    BY <1>4 DEF SendsOn, ClientTurn, StreamInv
  <2>2. PICK line \in LocalLines : Head(cVec) = Recv(line)
    BY <1>4 DEF SendsOn, ClientHas
  <2>3. Head(cVec)[2] = line
    BY <2>2 DEF Recv
  <2> DEFINE ctx == Send(line)
  <2>4. ctx \in NetMsgs /\ FrameOf(ctx) = {} /\ Net!Enqueue(ctx)
    BY <1>4, <2>3, FramesAreOne DEF SendsOn, EnqueueToNet, NetMsgs
  <2> HIDE DEF ctx
  <2>5. ASSUME NEW n \in 0 .. answered, Streams(cHandled, CRP!pending, NetP!pending, n, cRunning)
        PROVE  /\ Streams(cHandled', CRP!pending', NetP!pending', n, cRunning')
               /\ NoGap' /\ NextIsDue'
    <3>1. Streams(cHandled, CRP!pending, NetP!pending', n, cRunning)
      BY <2>4, <2>5, NetIsGiven
    <3> QED BY <2>1, <3>1, ClientMoves
  <2>6. NoGap' /\ NextIsDue'
    BY <2>5 DEF StreamInv
  <2> QED BY <1>1, <2>5, <2>6, StreamGoesOn
<1> QED BY <1>2, <1>3, <1>4 DEF ClientStep

LEMMA NetStreams ==
  ASSUME Serving, EndInv, Begun, StreamInv, NetStep
  PROVE  StreamInv'
<1>1. UNCHANGED <<wire, answered, serverEnded>>
  BY DEF NetStep, NetInit, NetLoop, ForwardRecv, DropConnection, SendMsg,
         WriteFails, WriteKills, DropAllConnections, StopDriver, JoinDriver, server
<1>2. CASE NetInit \/ NetLoop
  <2>1. NetTurn /\ UNCHANGED crVars
    BY <1>2 DEF NetInit, NetLoop, NetTurn
  <2> QED BY <1>1, <2>1, OnlyNetMoves
<1>3. CASE WriteKills \/ DropAllConnections \/ StopDriver \/ JoinDriver
  BY <1>1, <1>3, NobodyMoves DEF WriteKills, DropAllConnections, StopDriver, JoinDriver
<1>4. CASE WriteFails
  <2>1. Drop("writer") \in NetMsgs /\ FrameOf(Drop("writer")) = {}
    BY FramesAreOne DEF NetMsgs, CRMsgs, Drops
  <2> QED BY <1>1, <1>4, <2>1, OnlyNetMoves DEF WriteFails
<1>5. CASE SendMsg
  <2> DEFINE q == NetP!pending
  <2>1. q # <<>> /\ Head(q) = Head(nVec) /\ q' = Tail(q)
    BY <1>5, NetTakes DEF SendMsg
  <2>2. FrameOf(Head(nVec)) = {}
    BY <1>5, FramesAreOne DEF SendMsg, NetHas, Sends
  <2>3. /\ CRP!pending' = CRP!pending /\ cHandled' = cHandled /\ cRunning' = cRunning
        /\ NoGap' /\ NextIsDue'
    BY <1>5, ClientStands DEF SendMsg, StreamInv
  <2> HIDE DEF q
  <2>4. \A n : Streams(cHandled, CRP!pending, q, n, cRunning)
                 => Streams(cHandled, CRP!pending, Tail(q), n, cRunning)
    BY <2>1, <2>2, NetDrops
  <2>5. \A n \in 0 .. answered : Streams(cHandled, CRP!pending, q, n, cRunning)
                 => Streams(cHandled', CRP!pending', q', n, cRunning')
    BY <2>1, <2>3, <2>4
  <2> QED BY <1>1, <2>3, <2>5, StreamGoesOn DEF q
<1>6. ASSUME NEW ctx \in CRMsgs, ctx = Head(nVec), CR!Enqueue(ctx), Net!Process
      PROVE  StreamInv'
  <2> DEFINE q == NetP!pending
             p == CRP!pending
  <2>1. q # <<>> /\ Head(q) = ctx /\ q' = Tail(q)
    BY <1>6, NetTakes
  <2>2. /\ p' = IF cRunning THEN Append(p, ctx) ELSE p
        /\ UNCHANGED <<cHandled, cRunning, cOwner>>
        /\ cPc' = "act" => cPc = "act" /\ cVec' = cVec
    BY <1>6, ClientIsGiven
  <2>3. NoGap' /\ NextIsDue'
    BY <2>2 DEF StreamInv, NoGap, NextIsDue
  <2> HIDE DEF p, q
  <2>4. ASSUME NEW n, Streams(cHandled, p, q, n, cRunning)
        PROVE  Streams(cHandled', p', q', n, cRunning')
    <3>1. CASE cRunning
      <4>1. Streams(cHandled, Append(p, Head(q)), Tail(q), n, cRunning)
        BY <2>1, <2>4, NetForwards
      <4> QED BY <2>1, <2>2, <3>1, <4>1
    <3>2. CASE ~cRunning
      <4>1. Streams(cHandled, p, Tail(q), n, FALSE)
        BY <2>1, <2>4, NetDrops
      <4>2. Streams(cHandled, p, Tail(q), n, cRunning)
        BY <3>2, <4>1, StreamsLessWhole
      <4> QED BY <2>1, <2>2, <3>2, <4>2
    <3> QED BY <3>1, <3>2
  <2> QED BY <1>1, <2>3, <2>4, StreamGoesOn DEF p, q
<1>7. CASE ForwardRecv \/ DropConnection
  <2>1. Head(nVec) \in CRMsgs
    BY <1>7 DEF ForwardRecv, DropConnection, NetHas, CRMsgs
  <2> QED BY <1>6, <1>7, <2>1 DEF ForwardRecv, DropConnection, EnqueueToCR
<1> QED BY <1>2, <1>3, <1>4, <1>5, <1>7 DEF NetStep

-----------------------------------------------------------------------------
(* The steps of the driver and of the server.                              *)
LEMMA FrameIsRead ==
  ASSUME Serving, EndInv, Begun, StreamInv, ReadFrame
  PROVE  StreamInv'
<1>1. PICK n \in 0 .. answered :
        Streams(cHandled, CRP!pending, NetP!pending, n, cRunning) /\ OnWire(n)
  BY DEF StreamInv
<1>2. /\ wire \in Seq(Frames) /\ wire # <<>> /\ wire' = Tail(wire)
      /\ answered' = answered /\ serverEnded' = serverEnded
      /\ answered \in 0 .. MaxTraffic /\ MaxTraffic \in Nat
  BY ClientAssumption DEF Serving, Traffic, ReadFrame
<1>3. /\ Len(wire) \in Nat \ {0} /\ 1 \in DOMAIN wire /\ Head(wire) = wire[1]
      /\ Len(wire') = Len(wire) - 1
      /\ \A k \in DOMAIN wire' : k \in Nat /\ k + 1 \in DOMAIN wire /\ wire'[k] = wire[k + 1]
  BY <1>2
<1>4. Head(wire) = n + 1 /\ n \in Nat /\ n + 1 \in 0 .. answered /\ n + 1 \in Frames
  BY <1>1, <1>2, <1>3 DEF OnWire, Frames
<1>5. OnWire(n + 1)'
  <2>1. ASSUME NEW k \in DOMAIN wire'
        PROVE  wire'[k] = (n + 1) + k
    <3>1. k \in Nat /\ wire'[k] = n + (k + 1)
      BY <1>1, <1>3 DEF OnWire
    <3> QED BY <1>4, <3>1
  <2>2. (n + 1) + Len(wire') = n + Len(wire)
    BY <1>3, <1>4
  <2> QED BY <1>1, <1>2, <2>1, <2>2 DEF OnWire
<1>6. /\ CRP!pending' = CRP!pending /\ cHandled' = cHandled /\ cRunning' = cRunning
      /\ NoGap' /\ NextIsDue'
  BY ClientStands DEF ReadFrame, StreamInv
<1> DEFINE h == cHandled
           p == CRP!pending
           q == NetP!pending
           ctx == Recv(n + 1)
<1>7. q' = IF nRunning THEN Append(q, ctx) ELSE q
  <2>1. ctx \in NetMsgs /\ Net!Enqueue(ctx)
    BY <1>4 DEF NetMsgs, CRMsgs, ReadFrame
  <2> QED BY <2>1, ServiceAssumptions, NetP!Moves, SameNet DEF Serving
<1> HIDE DEF h, p, q, ctx
<1>8. Streams(h, p, q', n + 1, cRunning)
  <2>1. Streams(h, p, q, n, cRunning)
    BY <1>1 DEF h, p, q
  <2>2. CASE nRunning
    BY <1>4, <1>7, <2>1, <2>2, NetGetsFrame DEF ctx
  <2>3. CASE ~nRunning
    <3>1. ~cRunning
      BY <2>3, NetIsLeft DEF ReadFrame
    <3>2. Streams(h, p, q, n + 1, FALSE)
      BY <1>4, <2>1, FrameIsLost
    <3>3. Streams(h, p, q, n + 1, cRunning)
      BY <3>1, <3>2, StreamsLessWhole
    <3> QED BY <1>7, <2>3, <3>3
  <2> QED BY <2>2, <2>3
<1>9. Streams(cHandled', CRP!pending', NetP!pending', n + 1, cRunning')
  BY <1>6, <1>8 DEF h, p, q
<1> QED BY <1>2, <1>4, <1>5, <1>6, <1>9 DEF StreamInv

LEMMA DriverStreams ==
  ASSUME Serving, EndInv, Begun, StreamInv, DriverStep \/ ServerSends \/ ServerEnds
  PROVE  StreamInv'
<1>1. CASE ReadFrame
  BY <1>1, FrameIsRead
<1>2. CASE ReadEnd \/ ReadNotOkay
  <2>1. Drop("reader") \in NetMsgs /\ FrameOf(Drop("reader")) = {}
    BY FramesAreOne DEF NetMsgs, CRMsgs, Drops
  <2>2. UNCHANGED <<wire, answered, serverEnded>> /\ UNCHANGED crVars
    BY <1>2 DEF ReadEnd, ReadNotOkay, server
  <2> QED BY <1>2, <2>1, <2>2, OnlyNetMoves DEF ReadEnd, ReadNotOkay
<1>3. CASE Dispatch \/ Crash \/ LeavesLoop
  <2>1. UNCHANGED <<wire, answered, serverEnded>> /\ UNCHANGED crVars /\ UNCHANGED netVars
    BY <1>3 DEF Dispatch, Crash, LeavesLoop, server
  <2> QED BY <2>1, NobodyMoves
<1>4. CASE ServerSends \/ ServerEnds
  <2>1. /\ CRP!pending' = CRP!pending /\ cHandled' = cHandled /\ cRunning' = cRunning
        /\ NoGap' /\ NextIsDue' /\ NetP!pending' = NetP!pending
    BY <1>4, ClientStands, NetStands DEF ServerSends, ServerEnds, StreamInv
  <2>2. PICK n \in 0 .. answered :
          Streams(cHandled, CRP!pending, NetP!pending, n, cRunning) /\ OnWire(n)
    BY DEF StreamInv
  <2>3. Streams(cHandled', CRP!pending', NetP!pending', n, cRunning')
    BY <2>1, <2>2
  <2>4. wire \in Seq(Frames) /\ answered \in Nat /\ n \in Nat
    BY DEF Serving, Traffic
  <2>5. CASE ServerSends
    <3>1. answered' = answered + 1 /\ wire' = Append(wire, answered + 1)
          /\ ~serverEnded /\ serverEnded' = serverEnded
      BY <2>5 DEF ServerSends
    <3>2. n + Len(wire) = answered
      BY <2>2, <3>1 DEF OnWire
    <3>3. /\ Len(wire) \in Nat /\ Len(wire') = Len(wire) + 1
          /\ DOMAIN wire = 1 .. Len(wire) /\ DOMAIN wire' = 1 .. Len(wire) + 1
          /\ \A k \in 1 .. Len(wire) : wire'[k] = wire[k]
          /\ wire'[Len(wire) + 1] = answered + 1
      BY <2>4, <3>1
    <3>4. ASSUME NEW k \in DOMAIN wire'
          PROVE  wire'[k] = n + k
      <4>1. CASE k \in 1 .. Len(wire)
        BY <2>2, <3>3, <4>1 DEF OnWire
      <4>2. CASE k = Len(wire) + 1
        BY <2>4, <3>2, <3>3, <4>2
      <4> QED BY <3>3, <3>4, <4>1, <4>2
    <3>5. n + Len(wire') = answered' /\ n \in 0 .. answered'
      BY <2>4, <3>1, <3>2, <3>3
    <3>6. OnWire(n)'
      BY <2>4, <3>1, <3>4, <3>5 DEF OnWire
    <3> QED BY <2>1, <2>3, <3>5, <3>6 DEF StreamInv
  <2>6. CASE ServerEnds
    <3>1. PICK m \in 0 .. Len(wire) : wire' = SubSeq(wire, 1, m)
      BY <2>6 DEF ServerEnds
    <3>2. /\ DOMAIN wire' = 1 .. m /\ Len(wire') = m /\ Len(wire) \in Nat
          /\ \A k \in 1 .. m : k \in DOMAIN wire /\ wire'[k] = wire[k]
      BY <2>4, <3>1
    <3>3. serverEnded' = TRUE /\ answered' = answered
      BY <2>6 DEF ServerEnds
    <3>4. n + Len(wire') <= answered
      BY <2>2, <2>4, <3>1, <3>2 DEF OnWire
    <3>5. OnWire(n)'
      BY <2>2, <3>2, <3>3, <3>4 DEF OnWire
    <3> QED BY <2>1, <2>3, <3>3, <3>5 DEF StreamInv
  <2> QED BY <1>4, <2>5, <2>6
<1> QED BY <1>1, <1>2, <1>3, <1>4 DEF DriverStep

LEMMA StepStreamInv == Serving /\ EndInv /\ Begun /\ StreamInv /\ [Next]_vars => StreamInv'
<1> SUFFICES ASSUME Serving, EndInv, Begun, StreamInv, [Next]_vars
             PROVE  StreamInv'
  OBVIOUS
<1>1. CASE Next
  BY <1>1, MainStreams, ClientStreams, NetStreams, DriverStreams DEF Next
<1>2. CASE UNCHANGED vars
  <2>1. UNCHANGED <<wire, answered, serverEnded>> /\ UNCHANGED crVars /\ UNCHANGED netVars
    BY <1>2 DEF vars, server
  <2> QED BY <2>1, NobodyMoves
<1> QED BY <1>1, <1>2

LEMMA InitStreamInv == Init => StreamInv /\ Begun
<1> SUFFICES ASSUME Init
             PROVE  StreamInv /\ Begun
  OBVIOUS
<1>1. /\ cHandled = <<>> /\ cVec = <<>> /\ cQueue = <<>> /\ nVec = <<>> /\ nQueue = <<>>
      /\ cPc = "none" /\ cRunning = FALSE /\ wire = <<>> /\ answered = 0 /\ toServer = <<>>
      /\ dPc = "none"
  BY DEF Init, CR!Init, Net!Init
<1>2. CRP!pending = <<>> /\ NetP!pending = <<>>
  <2>1. <<>> \o <<>> = <<>>
    OBVIOUS
  <2> QED BY <1>1, <2>1 DEF CRP!pending, NetP!pending
<1>3. FramesIn(<<>>) = {} /\ InOrder(<<>>) /\ IsQueue(<<>>)
  BY EmptyFrames, EmptyQueue
<1>4. Ahead({}, {})
  BY DEF Ahead
<1>5. Streams(cHandled, CRP!pending, NetP!pending, 0, cRunning)
  BY <1>1, <1>2, <1>3, <1>4 DEF Streams
<1>6. OnWire(0)
  BY <1>1 DEF OnWire
<1>7. NoGap /\ NextIsDue
  BY <1>1, <1>3 DEF NoGap, NextIsDue
<1> QED BY <1>1, <1>5, <1>6, <1>7 DEF StreamInv, Begun

(* The invariant says what the user sees.                                  *)
LEMMA StreamIsShown ==
  ASSUME Serving, Begun, StreamInv
  PROVE  ShownInOrder
<1>1. PICK n \in 0 .. answered :
        Streams(cHandled, CRP!pending, NetP!pending, n, cRunning) /\ OnWire(n)
  BY DEF StreamInv
<1>2. InOrder(cHandled) /\ NoGap
  BY <1>1 DEF Streams, StreamInv
<1> SUFFICES ASSUME ~Leaving, ~serverEnded
             PROVE  LET all == cHandled \o cVec \o cQueue \o nVec \o nQueue IN
                    /\ InOrder(all)
                    /\ \E m \in 0 .. answered : /\ FramesIn(all) = 1 .. m
                                                /\ wire = [k \in 1 .. answered - m |-> m + k]
  BY <1>2 DEF ShownInOrder, NoGap
<1> DEFINE h == cHandled
           p == CRP!pending
           q == NetP!pending
<1>3. /\ cVec \in Seq(CRP!Contexts) /\ cQueue \in Seq(CRP!Contexts)
      /\ nVec \in Seq(NetP!Contexts) /\ nQueue \in Seq(NetP!Contexts)
      /\ h \in Seq(CRP!Contexts)
  BY DEF Serving, CRP!IInv, CRP!TypeOK, NetP!IInv, NetP!TypeOK
<1>4. cHandled \o cVec \o cQueue \o nVec \o nQueue = (h \o p) \o q
  <2>1. CRP!Contexts \subseteq NetP!Contexts
    BY DEF CRP!Contexts, NetP!Contexts, NetMsgs
  <2>2. /\ cVec \in Seq(NetP!Contexts) /\ cQueue \in Seq(NetP!Contexts)
        /\ h \in Seq(NetP!Contexts)
    BY <1>3, <2>1, SeqMonotonic
  <2>3. (h \o cVec) \o cQueue = h \o p /\ h \o p \in Seq(NetP!Contexts)
    <3>1. p = cVec \o cQueue
      BY DEF CRP!pending
    <3> HIDE DEF h, p
    <3>2. p \in Seq(NetP!Contexts)
      BY <2>2, <3>1, ConcatProperties
    <3>3. h \o p \in Seq(NetP!Contexts)
      BY <2>2, <3>2, ConcatProperties
    <3>4. (h \o cVec) \o cQueue = h \o (cVec \o cQueue)
      BY <2>2, ConcatAssociative
    <3> QED BY <3>1, <3>3, <3>4
  <2>4. ((h \o p) \o nVec) \o nQueue = (h \o p) \o q
    <3> DEFINE a == h \o p
    <3>1. q = nVec \o nQueue /\ a \in Seq(NetP!Contexts)
      BY <2>3 DEF NetP!pending
    <3> HIDE DEF a, q
    <3>2. (a \o nVec) \o nQueue = a \o (nVec \o nQueue)
      BY <1>3, <3>1, ConcatAssociative
    <3> QED BY <3>1, <3>2 DEF a
  <2> QED BY <2>3, <2>4
<1>5. Streams(h, p, q, n, cRunning)
  BY <1>1
<1> HIDE DEF h, p, q
<1>6. /\ IsQueue(h \o p) /\ InOrder(h \o p)
      /\ FramesIn(h \o p) = FramesIn(h) \cup FramesIn(p)
  BY <1>5, ConcatFrames DEF Streams
<1>7. Ahead(FramesIn(h) \cup FramesIn(p), FramesIn(q))
  BY <1>5 DEF Streams, Ahead
<1>8. /\ InOrder((h \o p) \o q)
      /\ FramesIn((h \o p) \o q) = FramesIn(h) \cup FramesIn(p) \cup FramesIn(q)
  BY <1>5, <1>6, <1>7, ConcatFrames DEF Streams
<1>9. FramesIn((h \o p) \o q) = 1 .. n
  <2>1. cRunning \/ cOwner = "idle"
    BY ServiceThreads DEF Leaving, Joined
  <2>2. cOwner = "idle" => 1 .. n = {}
    BY DEF Begun
  <2> QED BY <1>5, <1>8, <2>1, <2>2 DEF Streams
<1>10. wire = [k \in 1 .. answered - n |-> n + k]
  <2>1. wire \in Seq(Frames) /\ answered \in Nat /\ n \in Nat
    BY DEF Serving, Traffic
  <2>2. Len(wire) = answered - n /\ \A k \in DOMAIN wire : wire[k] = n + k
    BY <1>1, <2>1 DEF OnWire
  <2>3. DOMAIN wire = 1 .. answered - n
    BY <2>1, <2>2
  <2>4. wire = [k \in DOMAIN wire |-> wire[k]]
    BY <2>1
  <2> QED BY <2>2, <2>3, <2>4
<1> QED BY <1>4, <1>8, <1>9, <1>10 DEF h

(* What the user sees is what the server sent, in order and without a gap, *)
(* and until the end nothing is lost between the wire and the screen       *)
(* (ReadData, NetService::Process and CRClient::Process of a client).      *)
THEOREM FramesAreShownInOrder == Spec => []ShownInOrder
<1>1. Spec => []Serving
  BY InitServing, StepServing, PTL DEF Spec
<1>2. Spec => []EndInv
  BY EndIsInvariant
<1>3. Spec => []Begun
  BY <1>1, <1>2, InitStreamInv, StepBegun, PTL DEF Spec
<1>4. Spec => []StreamInv
  BY <1>1, <1>2, <1>3, InitStreamInv, StepStreamInv, PTL DEF Spec
<1> QED BY <1>1, <1>3, <1>4, StreamIsShown, PTL

===============================================================================
