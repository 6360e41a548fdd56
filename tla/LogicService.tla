----------------------------- MODULE LogicService -----------------------------
(***************************************************************************)
(* A logic service: src/src/common/include/LogicService.hpp and            *)
(* src/src/common/src/LogicService.cpp, with the SyncClosure its Start     *)
(* waits on.  An owner starts and stops the service, the service's thread  *)
(* executes Run, other threads (the driver, other services, the service's  *)
(* own handlers) call Enqueue.                                             *)
(*                                                                         *)
(* What is done under mMutex is one step.  Run reads mRunning without the  *)
(* mutex, each read is a step of its own.  Start's thread holds the mutex  *)
(* of the SyncClosure from its construction until it waits, so ProcessStart*)
(* cannot signal earlier and Enqueue and Wait are one step of the owner.   *)
(***************************************************************************)
EXTENDS Sequences, Naturals

CONSTANTS Msgs,             \* the contexts other threads enqueue, each once
          START,            \* the OP_START context
          InitMayFail,      \* the service's Init can return an error
          SpuriousWakeups   \* pthread_cond_wait can return unsignalled

ASSUME ServiceAssumption ==
  /\ START \notin Msgs
  /\ InitMayFail \in BOOLEAN
  /\ SpuriousWakeups \in BOOLEAN

VARIABLES mRunning, mQueue,
          ctxVec,       \* the contexts Run has taken and not yet dealt with
          sPc,          \* where the service's thread is in Run
          oPc,          \* where the owner is
          enqueued,     \* the contexts Enqueue was called with
          handled,      \* the contexts processed, in order
          aborted       \* an assertion failed

serviceVars == <<mRunning, mQueue, ctxVec, sPc, oPc, enqueued, handled, aborted>>
Contexts == Msgs \cup {START}

Init ==
  /\ mRunning = FALSE
  /\ mQueue = <<>>
  /\ ctxVec = <<>>
  /\ sPc = "none"
  /\ oPc = "idle"
  /\ enqueued = {}
  /\ handled = <<>>
  /\ aborted = FALSE

(* pthread_cond_signal(&mCond): the waiting thread goes on.                *)
Signalled == IF sPc = "wait" THEN "take" ELSE sPc

-----------------------------------------------------------------------------
(* The owner.  Start creates the thread, enqueues OP_START and waits.  On  *)
(* a service that runs it returns at once; that the thread is created is   *)
(* asserted (Thread::Start), its failure is left out.                      *)
StartThread ==
  /\ oPc = "idle"
  /\ ~mRunning
  /\ mRunning' = TRUE
  /\ sPc' = "init"
  /\ oPc' = "starting"
  /\ UNCHANGED <<mQueue, ctxVec, enqueued, handled, aborted>>

WaitServerWork_Unpushed ==          \* bug: waits, but OP_START is not enqueued
  /\ oPc = "starting"
  /\ oPc' = "waiting"
  /\ UNCHANGED <<mRunning, mQueue, ctxVec, sPc, enqueued, handled, aborted>>

WaitServerWork ==
  /\ oPc = "starting"
  /\ mQueue' = Append(mQueue, START)
  /\ sPc' = Signalled
  /\ oPc' = "waiting"
  /\ UNCHANGED <<mRunning, ctxVec, enqueued, handled, aborted>>

(* SyncClosure::Wait tests nothing after it wakes up.                      *)
WakeUnsignalled ==
  /\ SpuriousWakeups
  /\ oPc = "waiting"
  /\ oPc' = "started"
  /\ UNCHANGED <<mRunning, mQueue, ctxVec, sPc, enqueued, handled, aborted>>

(* The owner runs the loop on its own thread and never comes back to stop. *)
StartWithoutNewThread ==
  /\ oPc = "idle"
  /\ ~mRunning
  /\ mRunning' = TRUE
  /\ sPc' = "init"
  /\ oPc' = "inside"
  /\ UNCHANGED <<mQueue, ctxVec, enqueued, handled, aborted>>

Stop_Unsignalled ==                 \* bug: pthread_cond_signal forgotten
  /\ oPc = "started"
  /\ mRunning' = FALSE
  /\ oPc' = "joining"
  /\ UNCHANGED <<mQueue, ctxVec, sPc, enqueued, handled, aborted>>

Stop_StillRunning ==                \* bug: mRunning = false forgotten
  /\ oPc = "started"
  /\ sPc' = Signalled
  /\ oPc' = "joining"
  /\ UNCHANGED <<mRunning, mQueue, ctxVec, enqueued, handled, aborted>>

Stop ==
  /\ oPc = "started"
  /\ mRunning' = FALSE
  /\ sPc' = Signalled
  /\ oPc' = "joining"
  /\ UNCHANGED <<mQueue, ctxVec, enqueued, handled, aborted>>

Join ==
  /\ oPc = "joining"
  /\ sPc = "ended"
  /\ oPc' = "stopped"
  /\ UNCHANGED <<mRunning, mQueue, ctxVec, sPc, enqueued, handled, aborted>>

(* ~LogicService: assert(mQueue.size() == 0)                               *)
Destroy ==
  /\ oPc = "stopped"
  /\ oPc' = "destroyed"
  /\ aborted' = (mQueue # <<>>)
  /\ UNCHANGED <<mRunning, mQueue, ctxVec, sPc, enqueued, handled>>

-----------------------------------------------------------------------------
(* Any thread, as long as the service exists.                              *)
Enqueue_Unsignalled(ctx) ==         \* bug: pthread_cond_signal forgotten
  /\ oPc # "destroyed"
  /\ ctx \notin enqueued
  /\ enqueued' = enqueued \cup {ctx}
  /\ mQueue' = IF mRunning THEN Append(mQueue, ctx) ELSE mQueue
  /\ UNCHANGED <<mRunning, ctxVec, sPc, oPc, handled, aborted>>

Enqueue_Front(ctx) ==               \* bug: push_front
  /\ oPc # "destroyed"
  /\ ctx \notin enqueued
  /\ enqueued' = enqueued \cup {ctx}
  /\ mQueue' = IF mRunning THEN <<ctx>> \o mQueue ELSE mQueue
  /\ sPc' = Signalled
  /\ UNCHANGED <<mRunning, ctxVec, oPc, handled, aborted>>

Enqueue(ctx) ==
  /\ oPc # "destroyed"
  /\ ctx \notin enqueued
  /\ enqueued' = enqueued \cup {ctx}
  /\ mQueue' = IF mRunning THEN Append(mQueue, ctx) ELSE mQueue
  /\ sPc' = Signalled
  /\ UNCHANGED <<mRunning, ctxVec, oPc, handled, aborted>>

-----------------------------------------------------------------------------
(* The service's thread: Run.                                              *)
RunInit ==
  /\ sPc = "init"
  /\ \/ sPc' = "loop"
     \/ InitMayFail /\ sPc' = "ended"
  /\ UNCHANGED <<mRunning, mQueue, ctxVec, oPc, enqueued, handled, aborted>>

TestRunning ==
  /\ sPc = "loop"
  /\ sPc' = IF mRunning THEN "take" ELSE "ended"
  /\ UNCHANGED <<mRunning, mQueue, ctxVec, oPc, enqueued, handled, aborted>>

WaitForWork ==
  /\ sPc = "take"
  /\ mQueue = <<>>
  /\ mRunning
  /\ sPc' = "wait"
  /\ UNCHANGED <<mRunning, mQueue, ctxVec, oPc, enqueued, handled, aborted>>

TakeAll_NotCleared ==               \* bug: mQueue.clear() forgotten
  /\ sPc = "take"
  /\ mQueue # <<>> \/ ~mRunning
  /\ ctxVec' = mQueue
  /\ sPc' = "each"
  /\ UNCHANGED <<mRunning, mQueue, oPc, enqueued, handled, aborted>>

TakeAll ==
  /\ sPc = "take"
  /\ mQueue # <<>> \/ ~mRunning
  /\ ctxVec' = mQueue
  /\ mQueue' = <<>>
  /\ sPc' = "each"
  /\ UNCHANGED <<mRunning, oPc, enqueued, handled, aborted>>

NoneLeft ==
  /\ sPc = "each"
  /\ ctxVec = <<>>
  /\ sPc' = "loop"
  /\ UNCHANGED <<mRunning, mQueue, ctxVec, oPc, enqueued, handled, aborted>>

(* Per context: read mRunning, then process the context or drop it.        *)
Decide ==
  /\ sPc = "each"
  /\ ctxVec # <<>>
  /\ IF mRunning THEN sPc' = "act" /\ UNCHANGED ctxVec
                 ELSE sPc' = "each" /\ ctxVec' = Tail(ctxVec)
  /\ UNCHANGED <<mRunning, mQueue, oPc, enqueued, handled, aborted>>

Process ==
  /\ sPc = "act"
  /\ Head(ctxVec) # START
  /\ handled' = Append(handled, Head(ctxVec))
  /\ ctxVec' = Tail(ctxVec)
  /\ sPc' = "each"
  /\ UNCHANGED <<mRunning, mQueue, oPc, enqueued, aborted>>

(* The closure is there as long as the owner waits on it.                  *)
ProcessStart ==
  /\ sPc = "act"
  /\ Head(ctxVec) = START
  /\ \/ /\ oPc = "waiting"
        /\ mRunning' = TRUE
        /\ oPc' = "started"
        /\ handled' = Append(handled, START)
        /\ ctxVec' = Tail(ctxVec)
        /\ sPc' = "each"
        /\ UNCHANGED aborted
     \/ /\ oPc # "waiting"
        /\ aborted' = TRUE
        /\ UNCHANGED <<mRunning, oPc, handled, ctxVec, sPc>>
  /\ UNCHANGED <<mQueue, enqueued>>

Run == \/ RunInit \/ TestRunning \/ WaitForWork \/ TakeAll
       \/ NoneLeft \/ Decide \/ Process \/ ProcessStart

-----------------------------------------------------------------------------
ThreadStep == ~aborted /\ Run
OwnerStep == ~aborted /\ (WaitServerWork \/ Join)
OwnerChoice == /\ ~aborted
               /\ \/ StartThread \/ StartWithoutNewThread \/ WakeUnsignalled
                  \/ Stop \/ Destroy
OthersEnqueue == ~aborted /\ \E ctx \in Msgs : Enqueue(ctx)

Next == ThreadStep \/ OwnerStep \/ OwnerChoice \/ OthersEnqueue

Spec == Init /\ [][Next]_serviceVars

(* The threads are scheduled; nobody has to start, stop or enqueue.        *)
FairSpec == Spec /\ WF_serviceVars(ThreadStep) /\ WF_serviceVars(OwnerStep)

-----------------------------------------------------------------------------
(* Type correctness, with where the owner must be while the service runs. *)
TypeOK ==
  /\ mRunning \in BOOLEAN
  /\ mRunning <=> oPc \in {"starting", "waiting", "started", "inside"}
  /\ mQueue \in Seq(Contexts)
  /\ ctxVec \in Seq(Contexts)
  /\ sPc \in {"none", "init", "loop", "take", "wait", "each", "act", "ended"}
  /\ oPc \in {"idle", "starting", "waiting", "started", "inside", "joining",
              "stopped", "destroyed"}
  /\ enqueued \subseteq Msgs
  /\ handled \in Seq(Contexts)
  /\ aborted \in BOOLEAN

(* No wakeup is lost: the thread sleeps only while there is nothing to     *)
(* take and nobody has stopped the service.                                *)
SleepsWithNothingToDo == sPc = "wait" => mQueue = <<>> /\ mRunning

(* Start returns only when the service works: its thread has got through   *)
(* Init and is processing contexts ("wait server work!").                  *)
StartMeansStarted == oPc = "started" => \E i \in DOMAIN handled : handled[i] = START

MQ == INSTANCE MessageQueue WITH
        pending <- ctxVec \o mQueue,
        state <- CASE oPc = "idle" -> "new"
                   [] oPc = "joining" -> "closing"
                   [] oPc \in {"stopped", "destroyed"} -> "closed"
                   [] OTHER -> "open"

(* Whatever fails, the service does to its contexts what MessageQueue may  *)
(* do: it handles each accepted context once, in order, loses none before  *)
(* its stop and handles none after its thread is joined.                   *)
KeepsOrder == MQ!QSafe

(* What can go wrong with Start: Run gives up where Init fails, and the     *)
(* thread finds no closure to signal where a wait returned too early.      *)
InitFailed == sPc = "ended" /\ mRunning

(* And it handles every context it accepts for as long as nobody stops it, *)
(* unless its Init has failed or a wait returned unsignalled and aborted   *)
(* it.                                                                     *)
KeepsPromise == <>(InitFailed \/ aborted) \/ MQ!QLive

(* Stop returns to its caller, whatever other threads are still enqueuing. *)
StopReturns == (oPc = "joining") ~> (oPc = "stopped" \/ aborted)

===============================================================================
