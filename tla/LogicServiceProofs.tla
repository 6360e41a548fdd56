-------------------------- MODULE LogicServiceProofs --------------------------
(***************************************************************************)
(* For any set of contexts, with or without an Init that fails and waits   *)
(* that return unsignalled: the service loses no wakeup and does to its    *)
(* contexts only what MessageQueue allows.                                 *)
(*                                                                         *)
(* The batch that Run has taken is empty everywhere but in its for loop,   *)
(* and the thread that the owner has joined is at the end of Run; without  *)
(* these two facts neither TypeOK nor SleepsWithNothingToDo tells that a   *)
(* step of the thread maps to a step of the queue.                         *)
(*                                                                         *)
(* Where waits return only when signalled, StartWaited says where OP_START *)
(* is: at most once in the batch and the queue, and then its closure is    *)
(* still waited on.                                                        *)
(***************************************************************************)
EXTENDS LogicService, QueueLemmas

BatchInLoop == /\ ctxVec # <<>> => sPc \in {"each", "act"}
               /\ sPc = "act" => ctxVec # <<>>

ThreadAndOwner ==
  /\ oPc = "idle" => sPc = "none" /\ mQueue = <<>>
  /\ oPc \in {"stopped", "destroyed"} => sPc = "ended"

IInv == TypeOK /\ SleepsWithNothingToDo /\ BatchInLoop /\ ThreadAndOwner

-----------------------------------------------------------------------------
(* How the queue and the batch, put together, change.                      *)
LEMMA AppendToBoth ==
  ASSUME NEW S, NEW s \in Seq(S), NEW t \in Seq(S), NEW e \in S
  PROVE  s \o Append(t, e) = Append(s \o t, e)
  OBVIOUS

LEMMA TailOfBoth ==
  ASSUME NEW S, NEW s \in Seq(S), NEW t \in Seq(S), s # <<>>
  PROVE  /\ s \o t \in Seq(S)
         /\ s \o t # <<>>
         /\ Head(s \o t) = Head(s)
         /\ Tail(s \o t) = Tail(s) \o t
         /\ Tail(s) \in Seq(S)
         /\ Head(s) \in S
  OBVIOUS

LEMMA EmptyConcat ==
  ASSUME NEW S, NEW s \in Seq(S)
  PROVE  s \o <<>> = s /\ <<>> \o s = s
  OBVIOUS

-----------------------------------------------------------------------------
LEMMA InitIInv == Init => IInv
<1> SUFFICES ASSUME Init
             PROVE  IInv
  OBVIOUS
<1>1. mRunning = FALSE /\ oPc = "idle" /\ sPc = "none"
  BY DEF Init
<1>2. TypeOK
  <2>1. mRunning \in BOOLEAN /\ (mRunning <=> oPc \in {"starting", "waiting", "started", "inside"})
    BY <1>1
  <2>2. mQueue \in Seq(Contexts) /\ ctxVec \in Seq(Contexts) /\ handled \in Seq(Contexts)
    BY DEF Init
  <2>3. enqueued \subseteq Msgs /\ aborted \in BOOLEAN
    BY DEF Init
  <2> QED BY <1>1, <2>1, <2>2, <2>3 DEF TypeOK
<1>3. SleepsWithNothingToDo /\ BatchInLoop /\ ThreadAndOwner
  BY <1>1 DEF Init, SleepsWithNothingToDo, BatchInLoop, ThreadAndOwner
<1> QED BY <1>2, <1>3 DEF IInv

LEMMA StepIInv == IInv /\ [Next]_serviceVars => IInv'
<1> SUFFICES ASSUME IInv, [Next]_serviceVars
             PROVE  IInv'
  OBVIOUS
<1> USE DEF IInv, TypeOK, SleepsWithNothingToDo, BatchInLoop, ThreadAndOwner, Contexts
<1>1. CASE StartThread
  BY <1>1 DEF StartThread
<1>2. CASE StartWithoutNewThread
  BY <1>2 DEF StartWithoutNewThread
<1>3. CASE WaitServerWork
  BY <1>3 DEF WaitServerWork, Signalled
<1>4. CASE WakeUnsignalled
  BY <1>4 DEF WakeUnsignalled
<1>5. CASE Stop
  <2>1. oPc = "started" /\ oPc' = "joining" /\ sPc' = Signalled
    BY <1>5 DEF Stop
  <2>2. mRunning' = FALSE /\ UNCHANGED <<mQueue, ctxVec, enqueued, handled, aborted>>
    BY <1>5 DEF Stop
  <2>3. sPc' # "wait" /\ (sPc # "wait" => sPc' = sPc) /\ (sPc = "wait" => sPc' = "take")
    BY <2>1 DEF Signalled
  <2>4. TypeOK'
    BY <2>1, <2>2, <2>3
  <2> QED BY <2>1, <2>2, <2>3, <2>4
<1>6. CASE Join
  BY <1>6 DEF Join
<1>7. CASE Destroy
  BY <1>7 DEF Destroy
<1>8. ASSUME NEW ctx \in Msgs, Enqueue(ctx)
      PROVE  IInv'
  <2>1. /\ mQueue' = IF mRunning THEN Append(mQueue, ctx) ELSE mQueue
        /\ UNCHANGED <<mRunning, ctxVec, oPc, handled, aborted>>
        /\ enqueued' = enqueued \cup {ctx}
    BY <1>8 DEF Enqueue
  <2>2. sPc' # "wait" /\ (sPc # "wait" => sPc' = sPc) /\ (sPc = "wait" => sPc' = "take")
    BY <1>8 DEF Enqueue, Signalled
  <2>3. mQueue' \in Seq(Contexts) /\ (oPc = "idle" => mQueue' = mQueue)
    <3>1. CASE mRunning
      BY <2>1, <3>1
    <3>2. CASE ~mRunning
      BY <2>1, <3>2
    <3> QED BY <3>1, <3>2
  <2>4. TypeOK'
    BY <2>1, <2>2, <2>3
  <2> QED BY <2>1, <2>2, <2>3, <2>4
<1>9. CASE RunInit
  BY <1>9 DEF RunInit
<1>10. CASE TestRunning
  BY <1>10 DEF TestRunning
<1>11. CASE WaitForWork
  BY <1>11 DEF WaitForWork
<1>12. CASE TakeAll
  BY <1>12 DEF TakeAll
<1>13. CASE NoneLeft
  BY <1>13 DEF NoneLeft
<1>14. CASE Decide
  <2>1. sPc = "each" /\ ctxVec # <<>> /\ UNCHANGED <<mRunning, mQueue, oPc, enqueued, handled, aborted>>
    BY <1>14 DEF Decide
  <2>2. CASE mRunning
    <3>1. sPc' = "act" /\ ctxVec' = ctxVec
      BY <1>14, <2>2 DEF Decide
    <3> QED BY <2>1, <3>1
  <2>3. CASE ~mRunning
    <3>1. sPc' = "each" /\ ctxVec' = Tail(ctxVec)
      BY <1>14, <2>3 DEF Decide
    <3> QED BY <2>1, <3>1
  <2> QED BY <2>2, <2>3
<1>15. CASE Process
  BY <1>15 DEF Process
<1>16. CASE ProcessStart
  <2>1. sPc = "act" /\ UNCHANGED <<mQueue, enqueued>>
    BY <1>16 DEF ProcessStart
  <2>2. CASE oPc = "waiting" /\ mRunning' = TRUE /\ oPc' = "started"
             /\ handled' = Append(handled, START) /\ ctxVec' = Tail(ctxVec)
             /\ sPc' = "each" /\ UNCHANGED aborted
    <3>1. handled' \in Seq(Contexts) /\ ctxVec' \in Seq(Contexts)
      BY <2>1, <2>2
    <3> QED BY <2>1, <2>2, <3>1
  <2>3. CASE aborted' = TRUE /\ UNCHANGED <<mRunning, oPc, handled, ctxVec, sPc>>
    BY <2>1, <2>3
  <2> QED BY <1>16, <2>2, <2>3 DEF ProcessStart
<1>17. CASE UNCHANGED serviceVars
  BY <1>17 DEF serviceVars
<1> QED
  BY <1>1, <1>2, <1>3, <1>4, <1>5, <1>6, <1>7, <1>8, <1>9, <1>10, <1>11, <1>12,
     <1>13, <1>14, <1>15, <1>16, <1>17
     DEF Next, ThreadStep, OwnerStep, OwnerChoice, OthersEnqueue, Run

(* Where the thread and the owner are tells what the flags and queues hold. *)
THEOREM Inductive == Spec => []IInv
  BY InitIInv, StepIInv, PTL DEF Spec

(* The service's state is always of its type. *)
THEOREM TypeCorrect == Spec => []TypeOK
<1>1. IInv => TypeOK
  BY DEF IInv
<1> QED BY <1>1, Inductive, PTL

(* The thread never sleeps over a context or a stop. *)
THEOREM NoLostWakeup == Spec => []SleepsWithNothingToDo
<1>1. IInv => SleepsWithNothingToDo
  BY DEF IInv
<1> QED BY <1>1, Inductive, PTL

-----------------------------------------------------------------------------
(* Step by step, the service does what MessageQueue allows.                *)
pending == ctxVec \o mQueue
state == CASE oPc = "idle" -> "new"
           [] oPc = "joining" -> "closing"
           [] oPc \in {"stopped", "destroyed"} -> "closed"
           [] OTHER -> "open"

LEMMA InitRefines == Init => MQ!QInit
  BY DEF Init, MQ!QInit

(* The steps that neither accept nor take away a context, and keep the     *)
(* state of the queue.                                                     *)
LEMMA Stutters ==
  ASSUME UNCHANGED <<mQueue, ctxVec, handled>>, state' = state
  PROVE  UNCHANGED MQ!qvars
  BY DEF MQ!qvars, state

LEMMA StepRefines == IInv /\ [Next]_serviceVars => [MQ!QNext]_MQ!qvars
<1> SUFFICES ASSUME IInv, [Next]_serviceVars
             PROVE  [MQ!QNext]_MQ!qvars
  OBVIOUS
<1>0. /\ TypeOK /\ BatchInLoop /\ ThreadAndOwner
      /\ mQueue \in Seq(Contexts) /\ ctxVec \in Seq(Contexts)
  BY DEF IInv, TypeOK
<1>1. CASE StartThread \/ StartWithoutNewThread
  <2>1. MQ!Open
    BY <1>1 DEF StartThread, StartWithoutNewThread, MQ!Open
  <2> QED BY <2>1 DEF MQ!QNext
<1>2. CASE WaitServerWork
  <2>1. ctxVec \o Append(mQueue, START) = Append(ctxVec \o mQueue, START)
    BY <1>0, AppendToBoth DEF Contexts
  <2>2. MQ!Put(START)
    BY <1>2, <2>1 DEF WaitServerWork, MQ!Put
  <2> QED BY <2>2 DEF MQ!QNext, Contexts
<1>3. CASE WakeUnsignalled
  BY <1>3, Stutters DEF WakeUnsignalled, state
<1>4. CASE Stop
  <2>1. MQ!Close
    BY <1>4 DEF Stop, MQ!Close
  <2> QED BY <2>1 DEF MQ!QNext
<1>5. CASE Join
  <2>1. MQ!End
    BY <1>5 DEF Join, MQ!End
  <2> QED BY <2>1 DEF MQ!QNext
<1>6. CASE Destroy
  BY <1>6, Stutters DEF Destroy, state
<1>7. ASSUME NEW ctx \in Msgs, Enqueue(ctx)
      PROVE  [MQ!QNext]_MQ!qvars
  <2>1. CASE mRunning
    <3>1. ctxVec \o Append(mQueue, ctx) = Append(ctxVec \o mQueue, ctx)
      BY <1>0, AppendToBoth DEF Contexts
    <3>2. mQueue' = Append(mQueue, ctx) /\ UNCHANGED <<ctxVec, oPc, handled>>
      BY <1>7, <2>1 DEF Enqueue
    <3>3. state = "open"
      BY <1>0, <2>1 DEF TypeOK, state
    <3>4. MQ!Put(ctx)
      BY <3>1, <3>2, <3>3 DEF MQ!Put, state
    <3> QED BY <3>4 DEF MQ!QNext, Contexts
  <2>2. CASE ~mRunning
    BY <1>7, <2>2, Stutters DEF Enqueue, state
  <2> QED BY <2>1, <2>2
<1>8. CASE RunInit \/ TestRunning \/ WaitForWork \/ NoneLeft
  BY <1>8, Stutters DEF RunInit, TestRunning, WaitForWork, NoneLeft, state
<1>9. CASE TakeAll
  <2>1. ctxVec = <<>> /\ ctxVec' = mQueue /\ mQueue' = <<>>
    BY <1>0, <1>9 DEF TakeAll, BatchInLoop
  <2>2. ctxVec' \o mQueue' = ctxVec \o mQueue
    BY <1>0, <2>1, EmptyConcat
  <2> QED BY <1>9, <2>2 DEF TakeAll, MQ!qvars
<1>10. CASE Decide
  <2>1. CASE mRunning
    BY <1>10, <2>1, Stutters DEF Decide, state
  <2>2. CASE ~mRunning
    <3>1. ctxVec # <<>> /\ sPc = "each" /\ ctxVec' = Tail(ctxVec)
          /\ UNCHANGED <<mQueue, oPc, handled>>
      BY <1>10, <2>2 DEF Decide
    <3>2. oPc = "joining"
      BY <1>0, <2>2, <3>1 DEF TypeOK, ThreadAndOwner
    <3>3. ctxVec \o mQueue # <<>> /\ Tail(ctxVec \o mQueue) = Tail(ctxVec) \o mQueue
      BY <1>0, <3>1, TailOfBoth
    <3>4. MQ!Discard
      BY <3>1, <3>2, <3>3 DEF MQ!Discard
    <3> QED BY <3>4 DEF MQ!QNext
  <2> QED BY <2>1, <2>2
<1>11. ASSUME sPc = "act", handled' = Append(handled, Head(ctxVec)),
              ctxVec' = Tail(ctxVec), mQueue' = mQueue,
              state' = state
       PROVE  [MQ!QNext]_MQ!qvars
  <2>1. ctxVec # <<>>
    BY <1>0, <1>11 DEF BatchInLoop
  <2>2. /\ ctxVec \o mQueue # <<>>
        /\ Head(ctxVec \o mQueue) = Head(ctxVec)
        /\ Tail(ctxVec \o mQueue) = Tail(ctxVec) \o mQueue
    BY <1>0, <2>1, TailOfBoth
  <2>3. state \in {"open", "closing"}
    BY <1>0, <1>11 DEF ThreadAndOwner, TypeOK, state
  <2>4. MQ!Deliver
    BY <1>11, <2>2, <2>3 DEF MQ!Deliver, state
  <2> QED BY <2>4 DEF MQ!QNext
<1>12. CASE Process
  BY <1>11, <1>12 DEF Process, state
<1>13. CASE ProcessStart
  <2>1. CASE oPc # "waiting" /\ aborted' = TRUE
             /\ UNCHANGED <<mRunning, oPc, handled, ctxVec, sPc>>
    BY <1>13, <2>1, Stutters DEF ProcessStart, state
  <2>2. CASE oPc = "waiting" /\ oPc' = "started" /\ handled' = Append(handled, START)
             /\ ctxVec' = Tail(ctxVec)
    BY <1>11, <1>13, <2>2 DEF ProcessStart, state
  <2> QED BY <1>13, <2>1, <2>2 DEF ProcessStart
<1>14. CASE UNCHANGED serviceVars
  BY <1>14, Stutters DEF serviceVars, state
<1> QED
  BY <1>1, <1>2, <1>3, <1>4, <1>5, <1>6, <1>7, <1>8, <1>9, <1>10, <1>12, <1>13, <1>14
     DEF Next, ThreadStep, OwnerStep, OwnerChoice, OthersEnqueue, Run

(* The same step by step, for those who follow a context on its way from   *)
(* one service to the next.                                                *)
LEMMA Moves ==
  ASSUME IInv
  PROVE  /\ pending \in Seq(Contexts) /\ handled \in Seq(Contexts)
         /\ sPc = "act" => pending # <<>> /\ Head(pending) = Head(ctxVec)
         /\ \/ StartThread \/ Stop \/ Join \/ Destroy \/ RunInit \/ TestRunning
            \/ WaitForWork \/ TakeAll \/ NoneLeft
            => pending' = pending /\ handled' = handled
         /\ WaitServerWork => pending' = Append(pending, START) /\ handled' = handled
         /\ \A ctx \in Msgs : Enqueue(ctx) =>
              /\ pending' = IF mRunning THEN Append(pending, ctx) ELSE pending
              /\ handled' = handled
         /\ Decide => /\ handled' = handled
                      /\ \/ mRunning /\ sPc' = "act" /\ pending' = pending
                         \/ /\ ~mRunning /\ sPc' = "each"
                            /\ pending # <<>> /\ pending' = Tail(pending)
         /\ Process => /\ handled' = Append(handled, Head(pending))
                       /\ pending' = Tail(pending)
         /\ ProcessStart => \/ pending' = pending /\ handled' = handled
                            \/ /\ handled' = Append(handled, START)
                               /\ Head(pending) = START
                               /\ pending' = Tail(pending)
<1>1. /\ mQueue \in Seq(Contexts) /\ ctxVec \in Seq(Contexts) /\ handled \in Seq(Contexts)
      /\ ctxVec # <<>> => sPc \in {"each", "act"}
      /\ sPc = "act" => ctxVec # <<>>
  BY DEF IInv, TypeOK, BatchInLoop
<1>2. pending \in Seq(Contexts)
  BY <1>1 DEF pending
<1>3. ctxVec # <<>> => /\ pending # <<>> /\ Head(pending) = Head(ctxVec)
                      /\ Tail(pending) = Tail(ctxVec) \o mQueue
  BY <1>1, TailOfBoth DEF pending
<1>4. \A ctx \in Contexts : ctxVec \o Append(mQueue, ctx) = Append(pending, ctx)
  BY <1>1, AppendToBoth DEF pending
<1>5. ASSUME \/ StartThread \/ Stop \/ Join \/ Destroy \/ RunInit \/ TestRunning
             \/ WaitForWork \/ NoneLeft
      PROVE  pending' = pending /\ handled' = handled
  BY <1>5 DEF pending, StartThread, Stop, Join, Destroy, RunInit, TestRunning, WaitForWork,
              NoneLeft
<1>6. ASSUME TakeAll
      PROVE  pending' = pending /\ handled' = handled
  <2>1. ctxVec = <<>> /\ ctxVec' = mQueue /\ mQueue' = <<>> /\ handled' = handled
    BY <1>1, <1>6 DEF TakeAll
  <2>2. ctxVec' \o mQueue' = ctxVec \o mQueue
    BY <1>1, <2>1, EmptyConcat
  <2> QED BY <2>1, <2>2 DEF pending
<1>7. ASSUME WaitServerWork
      PROVE  pending' = Append(pending, START) /\ handled' = handled
  <2>1. ctxVec' = ctxVec /\ mQueue' = Append(mQueue, START) /\ handled' = handled
    BY <1>7 DEF WaitServerWork
  <2>2. pending' = ctxVec \o Append(mQueue, START)
    BY <2>1 DEF pending
  <2> QED BY <1>4, <2>1, <2>2 DEF Contexts
<1>8. ASSUME NEW ctx \in Msgs, Enqueue(ctx)
      PROVE  /\ pending' = IF mRunning THEN Append(pending, ctx) ELSE pending
             /\ handled' = handled
  <2>1. /\ ctxVec' = ctxVec /\ handled' = handled
        /\ mQueue' = IF mRunning THEN Append(mQueue, ctx) ELSE mQueue
    BY <1>8 DEF Enqueue
  <2>2. pending' = ctxVec \o mQueue'
    BY <2>1 DEF pending
  <2> QED BY <1>4, <2>1, <2>2 DEF Contexts, pending
<1>9. ASSUME ctxVec # <<>>, ctxVec' = Tail(ctxVec), mQueue' = mQueue
      PROVE  pending' = Tail(pending)
  BY <1>3, <1>9 DEF pending
<1>10. ASSUME Decide
       PROVE  /\ handled' = handled
              /\ \/ mRunning /\ sPc' = "act" /\ pending' = pending
                 \/ /\ ~mRunning /\ sPc' = "each"
                    /\ pending # <<>> /\ pending' = Tail(pending)
  <2>1. /\ ctxVec # <<>> /\ mQueue' = mQueue /\ handled' = handled
        /\ \/ mRunning /\ sPc' = "act" /\ ctxVec' = ctxVec
           \/ ~mRunning /\ sPc' = "each" /\ ctxVec' = Tail(ctxVec)
    BY <1>10 DEF Decide
  <2>2. ctxVec' = ctxVec => pending' = pending
    BY <2>1 DEF pending
  <2> QED BY <1>3, <1>9, <2>1, <2>2
<1>11. ASSUME Process
       PROVE  handled' = Append(handled, Head(pending)) /\ pending' = Tail(pending)
  <2>1. /\ ctxVec # <<>> /\ ctxVec' = Tail(ctxVec) /\ mQueue' = mQueue
        /\ handled' = Append(handled, Head(ctxVec))
    BY <1>1, <1>11 DEF Process
  <2> QED BY <1>3, <1>9, <2>1
<1>12. ASSUME ProcessStart
       PROVE  \/ pending' = pending /\ handled' = handled
              \/ /\ handled' = Append(handled, START)
                 /\ Head(pending) = START /\ pending' = Tail(pending)
  <2>1. ctxVec # <<>> /\ Head(ctxVec) = START /\ mQueue' = mQueue
    BY <1>1, <1>12 DEF ProcessStart
  <2>2. CASE UNCHANGED <<handled, ctxVec>>
    BY <2>1, <2>2 DEF pending
  <2>3. CASE handled' = Append(handled, START) /\ ctxVec' = Tail(ctxVec)
    BY <1>3, <1>9, <2>1, <2>3
  <2> QED BY <1>12, <2>2, <2>3 DEF ProcessStart
<1> HIDE DEF pending
<1> QED BY <1>1, <1>2, <1>3, <1>5, <1>6, <1>7, <1>8, <1>10, <1>11, <1>12

(* Whatever fails, a service handles each accepted context once and in     *)
(* order, loses none before its stop and handles none after it.            *)
THEOREM ServiceIsAQueue == Spec => KeepsOrder
<1>1. Spec => MQ!QInit /\ [][MQ!QNext]_MQ!qvars
  BY InitRefines, Inductive, StepRefines, PTL DEF Spec
<1> QED BY <1>1 DEF KeepsOrder, MQ!QSafe

-----------------------------------------------------------------------------
(* Where waits return only when they are signalled, Start returns only     *)
(* from a service whose thread has handled OP_START.                       *)
LEMMA StartHandledStep ==
  IInv /\ ~SpuriousWakeups /\ StartMeansStarted /\ [Next]_serviceVars
    => StartMeansStarted'
<1> SUFFICES ASSUME IInv, ~SpuriousWakeups, StartMeansStarted, [Next]_serviceVars,
                    oPc' = "started"
             PROVE  \E i \in DOMAIN handled' : handled'[i] = START
  BY DEF StartMeansStarted
<1>1. handled \in Seq(Contexts) /\ ctxVec \in Seq(Contexts) /\ (sPc = "act" => ctxVec # <<>>)
  BY DEF IInv, TypeOK, BatchInLoop
<1>2. CASE oPc' = oPc /\ handled' = handled
  BY <1>2 DEF StartMeansStarted
<1>3. CASE Process
  <2>1. handled' = Append(handled, Head(ctxVec)) /\ oPc = "started" /\ Head(ctxVec) \in Contexts
    BY <1>1, <1>3 DEF Process
  <2>2. PICK i \in DOMAIN handled : handled[i] = START
    BY <2>1 DEF StartMeansStarted
  <2>3. i \in DOMAIN handled' /\ handled'[i] = START
    BY <1>1, <2>1, <2>2
  <2> QED BY <2>3
<1>4. CASE ProcessStart
  <2>1. CASE UNCHANGED <<mRunning, oPc, handled, ctxVec, sPc>>
    BY <1>2, <2>1
  <2>2. CASE handled' = Append(handled, START)
    <3>1. Len(handled) + 1 \in DOMAIN handled' /\ handled'[Len(handled) + 1] = START
      BY <1>1, <2>2 DEF Contexts
    <3> QED BY <3>1
  <2> QED BY <1>4, <2>1, <2>2 DEF ProcessStart
<1>5. CASE \/ StartThread \/ StartWithoutNewThread \/ WaitServerWork \/ WakeUnsignalled
           \/ Stop \/ Join \/ Destroy
  BY <1>5 DEF StartThread, StartWithoutNewThread, WaitServerWork, WakeUnsignalled,
              Stop, Join, Destroy
<1>6. CASE RunInit \/ TestRunning \/ WaitForWork \/ TakeAll \/ NoneLeft \/ Decide
  BY <1>2, <1>6 DEF RunInit, TestRunning, WaitForWork, TakeAll, NoneLeft, Decide
<1>7. ASSUME NEW ctx \in Msgs, Enqueue(ctx)
      PROVE  \E i \in DOMAIN handled' : handled'[i] = START
  BY <1>2, <1>7 DEF Enqueue
<1>8. CASE UNCHANGED serviceVars
  BY <1>2, <1>8 DEF serviceVars
<1> QED
  BY <1>3, <1>4, <1>5, <1>6, <1>7, <1>8
     DEF Next, ThreadStep, OwnerStep, OwnerChoice, OthersEnqueue, Run

(* Start returns from a started service, unless a wait returns unsignalled. *)
THEOREM StartWaits == ~SpuriousWakeups => (Spec => []StartMeansStarted)
<1>1. Init => StartMeansStarted
  BY DEF Init, StartMeansStarted
<1>2. SUFFICES ASSUME ~SpuriousWakeups
               PROVE  Spec => []StartMeansStarted
  OBVIOUS
<1>3. IInv /\ StartMeansStarted /\ [Next]_serviceVars => StartMeansStarted'
  BY <1>2, StartHandledStep
<1> QED BY <1>1, <1>3, Inductive, PTL DEF Spec

-----------------------------------------------------------------------------
(* OP_START is enqueued once, and its closure is there until it has been   *)
(* processed.                                                              *)
StartWaited ==
  LET q == ctxVec \o mQueue IN
  /\ START \in Range(q) => oPc = "waiting"
  /\ ~Before(q, START, START)

LEMMA InitStartWaited == Init => StartWaited /\ (aborted => oPc = "destroyed")
<1>1. <<>> \o <<>> = <<>>
  OBVIOUS
<1> QED BY <1>1, EmptyQueue DEF Init, StartWaited

LEMMA StartWaitedStep ==
  IInv /\ ~SpuriousWakeups /\ StartWaited /\ [Next]_serviceVars => StartWaited'
<1> SUFFICES ASSUME IInv, ~SpuriousWakeups, StartWaited, [Next]_serviceVars
             PROVE  StartWaited'
  OBVIOUS
<1> DEFINE q == ctxVec \o mQueue
<1>1. /\ ctxVec \in Seq(Contexts) /\ mQueue \in Seq(Contexts)
      /\ ctxVec # <<>> => sPc \in {"each", "act"}
      /\ sPc = "act" => ctxVec # <<>>
  BY DEF IInv, TypeOK, BatchInLoop
<1>2. q \in Seq(Contexts) /\ IsQueue(q)
  <2>1. q \in Seq(Contexts)
    BY <1>1
  <2> HIDE DEF q
  <2> QED BY <2>1, AnySeqIsQueue
<1>3. START \in Range(q) => oPc = "waiting"
  BY DEF StartWaited
<1>4. ~Before(q, START, START)
  BY DEF StartWaited
<1>5. ASSUME q' = q, oPc = "waiting" => oPc' = "waiting"
      PROVE  StartWaited'
  BY <1>3, <1>4, <1>5 DEF StartWaited
<1>6. ASSUME NEW e, q' = Append(q, e), oPc = "waiting" => oPc' = "waiting",
             e = START => oPc # "waiting" /\ oPc' = "waiting"
      PROVE  StartWaited'
  <2> HIDE DEF q
  <2>1. /\ Range(q') = Range(q) \cup {e}
        /\ \A x, y : Before(q', x, y) <=> Before(q, x, y) \/ (x \in Range(q) /\ y = e)
    BY <1>2, <1>6, AppendToQueue
  <2>2. (START \in Range(q') => oPc' = "waiting") /\ ~Before(q', START, START)
    BY <1>3, <1>4, <1>6, <2>1
  <2> QED BY <2>2 DEF StartWaited, q
<1>7. ASSUME ctxVec # <<>>, ctxVec' = Tail(ctxVec), mQueue' = mQueue,
             Head(ctxVec) # START => (oPc = "waiting" => oPc' = "waiting")
      PROVE  StartWaited'
  <2>1. q # <<>> /\ Head(q) = Head(ctxVec) /\ q' = Tail(q)
    BY <1>1, <1>7, TailOfBoth, SMTT(30)
  <2> HIDE DEF q
  <2>2. /\ Range(q) = {Head(q)} \cup Range(Tail(q))
        /\ \A x, y : Before(Tail(q), x, y) => Before(q, x, y)
        /\ \A y \in Range(Tail(q)) : Before(q, Head(q), y)
    BY <1>2, <2>1, TailOfQueue
  <2>3. (START \in Range(q') => oPc' = "waiting") /\ ~Before(q', START, START)
    BY <1>3, <1>4, <1>7, <2>1, <2>2
  <2> QED BY <2>3 DEF StartWaited, q
<1>8. CASE StartThread \/ StartWithoutNewThread \/ Stop \/ Join \/ Destroy
  BY <1>5, <1>8 DEF StartThread, StartWithoutNewThread, Stop, Join, Destroy
<1>9. CASE WaitServerWork
  BY <1>1, <1>6, <1>9, AppendToBoth DEF WaitServerWork, Contexts
<1>10. ASSUME NEW ctx \in Msgs, Enqueue(ctx)
       PROVE  StartWaited'
  <2>1. ctxVec' = ctxVec /\ oPc' = oPc /\ ctx # START /\ ctx \in Contexts
        /\ (mQueue' = mQueue \/ mQueue' = Append(mQueue, ctx))
    BY <1>10, ServiceAssumption DEF Enqueue, Contexts
  <2>2. CASE mQueue' = mQueue
    BY <1>5, <2>1, <2>2
  <2>3. CASE mQueue' = Append(mQueue, ctx)
    BY <1>1, <1>6, <2>1, <2>3, AppendToBoth
  <2> QED BY <2>1, <2>2, <2>3
<1>11. CASE RunInit \/ TestRunning \/ WaitForWork \/ NoneLeft
  BY <1>5, <1>11 DEF RunInit, TestRunning, WaitForWork, NoneLeft
<1>12. CASE TakeAll
  <2>1. ctxVec = <<>> /\ ctxVec' = mQueue /\ mQueue' = <<>> /\ oPc' = oPc
    BY <1>1, <1>12 DEF TakeAll
  <2>2. q' = q
    BY <1>1, <2>1, EmptyConcat
  <2> QED BY <1>5, <2>1, <2>2
<1>13. CASE Decide
  BY <1>5, <1>7, <1>13 DEF Decide
<1>14. CASE Process
  BY <1>1, <1>7, <1>14 DEF Process
<1>15. CASE ProcessStart
  <2>1. CASE UNCHANGED <<mRunning, oPc, handled, ctxVec, sPc>>
    BY <1>5, <1>15, <2>1 DEF ProcessStart
  <2>2. CASE ctxVec' = Tail(ctxVec)
    BY <1>1, <1>7, <1>15, <2>2 DEF ProcessStart
  <2> QED BY <1>15, <2>1, <2>2 DEF ProcessStart
<1>16. CASE UNCHANGED serviceVars
  BY <1>5, <1>16 DEF serviceVars
<1> QED
  BY <1>8, <1>9, <1>10, <1>11, <1>12, <1>13, <1>14, <1>15, <1>16
     DEF Next, ThreadStep, OwnerStep, OwnerChoice, OthersEnqueue, Run, WakeUnsignalled

LEMMA StartIsHeardStep ==
  IInv /\ StartWaited /\ (aborted => oPc = "destroyed") /\ [Next]_serviceVars
    => (aborted' => oPc' = "destroyed")
<1> SUFFICES ASSUME IInv, StartWaited, aborted => oPc = "destroyed", [Next]_serviceVars, aborted'
             PROVE  oPc' = "destroyed"
  OBVIOUS
<1>1. ASSUME sPc = "act", Head(ctxVec) = START
      PROVE  oPc = "waiting"
  <2>1. ctxVec \in Seq(Contexts) /\ mQueue \in Seq(Contexts) /\ ctxVec # <<>>
    BY <1>1 DEF IInv, TypeOK, BatchInLoop
  <2> DEFINE q == ctxVec \o mQueue
  <2>2. q \in Seq(Contexts) /\ q # <<>> /\ Head(q) = START
    BY <1>1, <2>1, TailOfBoth
  <2> HIDE DEF q
  <2>3. START \in Range(q)
    BY <2>2, AnySeqIsQueue, TailOfQueue
  <2> QED BY <2>3 DEF StartWaited, q
<1>2. CASE ProcessStart
  BY <1>1, <1>2 DEF ProcessStart
<1>3. CASE Destroy
  BY <1>3 DEF Destroy
<1>4. CASE /\ ~ProcessStart /\ ~Destroy
  <2>1. aborted' = aborted /\ (aborted => serviceVars' = serviceVars)
    BY <1>4 DEF Next, ThreadStep, OwnerStep, OwnerChoice, OthersEnqueue, Run, serviceVars,
         StartThread, StartWithoutNewThread, WaitServerWork, WakeUnsignalled, Stop, Join, Enqueue,
         RunInit, TestRunning, WaitForWork, TakeAll, NoneLeft, Decide, Process
  <2> QED BY <2>1 DEF serviceVars
<1> QED BY <1>2, <1>3, <1>4

(* Where waits return only when they are signalled, the thread finds the   *)
(* closure of Start whenever it processes OP_START: a service fails no     *)
(* assertion, unless it is destroyed while contexts are in its queue.      *)
THEOREM StartIsHeard == ~SpuriousWakeups => (Spec => [](aborted => oPc = "destroyed"))
<1> SUFFICES ASSUME ~SpuriousWakeups
             PROVE  Spec => [](aborted => oPc = "destroyed")
  OBVIOUS
<1>1. Init => StartWaited /\ (aborted => oPc = "destroyed")
  BY InitStartWaited
<1>2. IInv /\ StartWaited /\ [Next]_serviceVars => StartWaited'
  BY StartWaitedStep
<1>3. Spec => []StartWaited
  BY <1>1, <1>2, Inductive, PTL DEF Spec
<1> DEFINE A == aborted => oPc = "destroyed"
<1>4. IInv /\ StartWaited /\ A /\ [Next]_serviceVars => A'
  BY StartIsHeardStep
<1>5. Init => A
  BY <1>1
<1> HIDE DEF A
<1>6. Spec => []A
  BY <1>3, <1>4, <1>5, Inductive, PTL DEF Spec
<1> QED BY <1>6 DEF A

===============================================================================
