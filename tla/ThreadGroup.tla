----------------------------- MODULE ThreadGroup -----------------------------
(***************************************************************************)
(* The Threading plugin: VRThreadGroupNode hands each of the three display *)
(* calls of a frame to one render thread per child and waits until all of  *)
(* them are done.  Modelled are VRThreadGroup (two mutexes, two condition  *)
(* variables), Barrier (VRThread.h), the loop of VRRenderThread::render,   *)
(* and the node that drives them from the main thread, the controller.     *)
(*                                                                         *)
(* A step is a piece of code that touches shared fields at most once       *)
(* between two synchronisation operations: the critical sections of        *)
(* actionMutex and actionCompletedMutex, which guard the same fields, are  *)
(* split into steps; that of the barrier's own mutex is one step.          *)
(***************************************************************************)
EXTENDS Integers, FiniteSets

CONSTANTS
    Threads,            \* the children of the node, one render thread each
    Controller,         \* the thread that calls the node (VRMain's thread)
    Generations,        \* values of the unsigned m_generation: 2^32 in C++
    Indeterminate       \* what a field no constructor sets may hold

ASSUME ThreadsAssumption ==
    /\ IsFiniteSet(Threads) /\ Threads # {}
    /\ Controller \notin Threads /\ "free" \notin Threads \cup {Controller}
ASSUME GenerationsAssumption == Generations \in Nat /\ Generations >= 2
ASSUME IndeterminateAssumption == Indeterminate \subseteq Int

VARIABLES
    threadAction,        \* VRThreadGroup: the action the threads are to do
    numThreadsCompleted, \*   how many have done it
    renderHandler,       \*   what they render with: "handler" or "NULL"
    actionMutex,         \*   who holds actionMutex, or "free"
    completedMutex,      \*   who holds actionCompletedMutex, or "free"
    mCount,              \* Barrier: threads still to arrive
    mGeneration,         \*   generation of the barrier
    pc,                  \* VRRenderThread: what each thread does next
    action,              \*   local `action' of render()
    gen,                 \*   local `gen' of Barrier::wait()
    asleep,              \* threads blocked inside a condition wait
    ctl,                 \* the controller: what it does next
    call,                \*   the node's method being run, or the last one
    asyncEnabled,        \* VRThreadGroupNode: render threads are wanted
    threadGroup,         \*   the pointer: "NULL", "allocated", "freed"
    calls                \* history: calls of each child in this `call'

groupVars   == <<threadAction, numThreadsCompleted, renderHandler>>
mutexVars   == <<actionMutex, completedMutex>>
barrierVars == <<mCount, mGeneration, gen>>
nodeVars    == <<call, asyncEnabled, threadGroup>>
threadVars  == <<pc, action, barrierVars, calls>>
vars == <<groupVars, mutexVars, nodeVars, threadVars, ctl, asleep>>

RenderCalls == {"Init", "Render"}
FrameCalls  == RenderCalls \cup {"WaitForRenderToComplete",
                                 "DisplayFinishedRendering"}
Calls       == FrameCalls \cup {"Terminate"}

\* What a render thread and the controller may be about to do.
ThreadPoints == {"unborn", "arrive", "inBarrier", "waitForAction", "readAction",
                 "act", "lockCompleted", "increment", "testLast", "exited"}
ControllerPoints == {"idle", "direct", "start", "reset", "publish",
                     "waitForComplete", "testCompleted", "join",
                     "destroyed", "crashed"}

numThreads == Cardinality(Threads)

\* The handler a method passes to startThreadAction: only render() has one.
HandlerOf(c) == IF c \in RenderCalls THEN "handler" ELSE "NULL"

Init ==
    /\ threadAction = "None"
    /\ numThreadsCompleted \in Indeterminate
    /\ renderHandler \in {"NULL", "garbage"}
    /\ actionMutex = "free" /\ completedMutex = "free"
    /\ mCount = numThreads
    /\ mGeneration = 0
    /\ pc = [t \in Threads |-> "unborn"]
    /\ action = [t \in Threads |-> "None"]
    /\ gen = [t \in Threads |-> 0]
    /\ asleep = {}
    /\ ctl = "idle"
    /\ call = "None"
    /\ asyncEnabled \in BOOLEAN
    /\ threadGroup = "NULL"
    /\ calls = [t \in Threads |-> 0]

\* Who sleeps on each of the three condition variables, and is woken by its
\* notify_all if asleep.  (Faulty: completeAction notifies nobody.)
ActionWaiters    == {t \in Threads : pc[t] = "waitForAction"}
BarrierWaiters   == {t \in Threads : pc[t] = "inBarrier"}
NoWaiters        == {}
CompletedWaiters == {Controller}

\* waitForComplete's test, and completeAction's.  (Faulty: one thread is not
\* waited for; the action is never taken back.)
AllButOneCompleted == numThreadsCompleted >= numThreads - 1
AllCompleted       == numThreadsCompleted >= numThreads
NeverLast          == FALSE
LastCompleted      == numThreadsCompleted = numThreads

\* Barrier::wait's tests: `--m_count == 0' and `gen == m_generation'.  (Faulty:
\* `m_count-- == 0'; a spurious wakeup opens the barrier.)
OpensLate        == mCount = 0
Opens            == mCount = 1
AnyWakeup(t)     == TRUE
NewGeneration(t) == gen[t] # mGeneration

\* ~VRRenderThread of every thread has returned from its join.  (Faulty: the
\* destructor does not join.)
JoinNobody == TRUE
AllJoined  == \A t \in Threads : pc[t] = "exited"

-----------------------------------------------------------------------------
(* The controller: VRThreadGroupNode's methods, called by VRMain.          *)

\* The controller enters method c, which goes on at program point `next'.
Enter(c, next) ==
    /\ call' = c
    /\ ctl' = next
    /\ calls' = [t \in Threads |-> 0]
    /\ UNCHANGED <<groupVars, mutexVars, barrierVars, asyncEnabled, pc, action, asleep>>

BetweenFrames == ctl = "idle" /\ call \in {"None", "DisplayFinishedRendering"}

\* render(): the first asynchronous one creates the group and does Init.
Render ==
    /\ BetweenFrames
    /\ \/ /\ asyncEnabled /\ threadGroup = "NULL"
          /\ threadGroup' = "allocated"
          /\ Enter("Init", "start")
       \/ /\ asyncEnabled /\ threadGroup # "NULL"
          /\ UNCHANGED threadGroup
          /\ Enter("Render", "start")
       \/ /\ ~asyncEnabled
          /\ UNCHANGED threadGroup
          /\ Enter("Render", "direct")

\* waitForRenderToComplete() and displayFinishedRendering().
FinishFrame ==
    /\ ctl = "idle"
    /\ UNCHANGED threadGroup
    /\ \E next \in {IF asyncEnabled THEN "start" ELSE "direct"} :
          \/ call \in RenderCalls /\ Enter("WaitForRenderToComplete", next)
          \/ /\ call = "WaitForRenderToComplete"
             /\ Enter("DisplayFinishedRendering", next)

\* ~VRThreadGroupNode(): starts Terminate without looking at threadGroup;
\* through a NULL pointer that locks a mutex near address 0 and crashes.
Destroy ==
    /\ BetweenFrames
    /\ UNCHANGED threadGroup
    /\ Enter("Terminate", IF threadGroup = "NULL" THEN "crashed" ELSE "start")

\* VRDisplayNode's own methods, used when asyncEnabled is false.
ServeDirect(t) ==
    /\ ctl = "direct" /\ calls[t] = 0
    /\ calls' = [calls EXCEPT ![t] = @ + 1]
    /\ UNCHANGED <<groupVars, mutexVars, barrierVars, nodeVars, ctl, pc, action, asleep>>

ReturnDirect ==
    /\ ctl = "direct" /\ \A t \in Threads : calls[t] > 0
    /\ ctl' = "idle"
    /\ UNCHANGED <<groupVars, mutexVars, nodeVars, threadVars, asleep>>

\* VRRenderThread's constructor: the thread runs from here on.
CreateThread(t) ==
    /\ ctl = "start" /\ call = "Init" /\ pc[t] = "unborn"
    /\ pc' = [pc EXCEPT ![t] = "arrive"]
    /\ UNCHANGED <<groupVars, mutexVars, barrierVars, nodeVars, ctl, action, asleep, calls>>

\* startThreadAction, in three steps.
LockStart ==
    /\ ctl = "start" /\ \A t \in Threads : pc[t] # "unborn"
    /\ actionMutex = "free"
    /\ actionMutex' = Controller
    /\ ctl' = "reset"
    /\ UNCHANGED <<groupVars, completedMutex, nodeVars, threadVars, asleep>>

\* (Faulty: the count is not reset.)
KeepCompleted ==
    /\ ctl = "reset"
    /\ ctl' = "publish"
    /\ UNCHANGED <<groupVars, mutexVars, nodeVars, threadVars, asleep>>

ResetCompleted ==
    /\ ctl = "reset"
    /\ numThreadsCompleted' = 0
    /\ ctl' = "publish"
    /\ UNCHANGED <<threadAction, renderHandler, mutexVars, nodeVars, threadVars, asleep>>

Publish ==
    /\ ctl = "publish"
    /\ renderHandler' = HandlerOf(call)
    /\ threadAction' = call
    /\ asleep' = asleep \ ActionWaiters
    /\ actionMutex' = "free"
    /\ ctl' = IF call = "Terminate" THEN "join" ELSE "waitForComplete"
    /\ UNCHANGED <<numThreadsCompleted, completedMutex, nodeVars, threadVars>>

\* waitForComplete: taking the mutex, at first or again after a wait ...
LockWaitForComplete ==
    /\ ctl = "waitForComplete" /\ Controller \notin asleep
    /\ completedMutex = "free"
    /\ completedMutex' = Controller
    /\ ctl' = "testCompleted"
    /\ UNCHANGED <<groupVars, actionMutex, nodeVars, threadVars, asleep>>

\* ... and testing the count under it: sleep, or return from the method.
TestCompleted ==
    /\ ctl = "testCompleted"
    /\ completedMutex' = "free"
    /\ \/ /\ ~AllCompleted
          /\ ctl' = "waitForComplete"
          /\ asleep' = asleep \cup {Controller}
       \/ /\ AllCompleted
          /\ ctl' = "idle"
          /\ UNCHANGED asleep
    /\ UNCHANGED <<groupVars, actionMutex, nodeVars, threadVars>>

\* The rest of the destructor: join every thread, delete the group.
Join ==
    /\ ctl = "join" /\ AllJoined
    /\ ctl' = "destroyed"
    /\ threadGroup' = "freed"
    /\ UNCHANGED <<groupVars, mutexVars, call, asyncEnabled, threadVars, asleep>>

-----------------------------------------------------------------------------
(* A render thread: the loop of VRRenderThread::render().                  *)

Goto(t, point) == pc' = [pc EXCEPT ![t] = point]

\* Barrier::wait up to its first cond.wait: the last to arrive opens the next
\* generation and wakes the others.
Arrive(t) ==
    /\ pc[t] = "arrive"
    /\ \/ /\ Opens
          /\ mGeneration' = IF mGeneration + 1 = Generations THEN 0
                                                           ELSE mGeneration + 1
          /\ mCount' = numThreads
          /\ asleep' = asleep \ BarrierWaiters
          /\ Goto(t, "waitForAction")
          /\ UNCHANGED gen
       \/ /\ ~Opens
          /\ mCount' = mCount - 1
          /\ gen' = [gen EXCEPT ![t] = mGeneration]
          /\ asleep' = asleep \cup {t}
          /\ Goto(t, "inBarrier")
          /\ UNCHANGED mGeneration
    /\ UNCHANGED <<groupVars, mutexVars, nodeVars, ctl, action, calls>>

\* A thread that woke up inside the barrier leaves it in a new generation.
LeaveBarrier(t) ==
    /\ pc[t] = "inBarrier" /\ t \notin asleep
    /\ \/ /\ ~NewGeneration(t)
          /\ asleep' = asleep \cup {t}
          /\ UNCHANGED pc
       \/ /\ NewGeneration(t)
          /\ Goto(t, "waitForAction")
          /\ UNCHANGED asleep
    /\ UNCHANGED <<groupVars, mutexVars, barrierVars, nodeVars, ctl, action, calls>>

\* waitForAction: taking the mutex, at first or again after a wait ...
LockWaitForAction(t) ==
    /\ pc[t] = "waitForAction" /\ t \notin asleep
    /\ actionMutex = "free"
    /\ actionMutex' = t
    /\ Goto(t, "readAction")
    /\ UNCHANGED <<groupVars, completedMutex, barrierVars, nodeVars, ctl, action, asleep, calls>>

\* ... and looking at threadAction under it: sleep, or take the action.
ReadAction(t) ==
    /\ pc[t] = "readAction"
    /\ actionMutex' = "free"
    /\ \/ /\ threadAction = "None"
          /\ Goto(t, "waitForAction")
          /\ asleep' = asleep \cup {t}
          /\ UNCHANGED action
       \/ /\ threadAction # "None"
          /\ action' = [action EXCEPT ![t] = threadAction]
          /\ Goto(t, "act")
          /\ UNCHANGED asleep
    /\ UNCHANGED <<groupVars, completedMutex, barrierVars, nodeVars, ctl, calls>>

\* Terminate ends the thread ...
Exit(t) ==
    /\ pc[t] = "act" /\ action[t] = "Terminate"
    /\ Goto(t, "exited")
    /\ UNCHANGED <<groupVars, mutexVars, barrierVars, nodeVars, ctl, action, asleep, calls>>

\* ... every other action is one call of the child's display node.
Serve(t) ==
    /\ pc[t] = "act" /\ action[t] # "Terminate"
    /\ calls' = [calls EXCEPT ![t] = @ + 1]
    /\ Goto(t, "lockCompleted")
    /\ UNCHANGED <<groupVars, mutexVars, barrierVars, nodeVars, ctl, action, asleep>>

\* completeAction, in three steps, back to the barrier.
LockCompleted(t) ==
    /\ pc[t] = "lockCompleted" /\ completedMutex = "free"
    /\ completedMutex' = t
    /\ Goto(t, "increment")
    /\ UNCHANGED <<groupVars, actionMutex, barrierVars, nodeVars, ctl, action, asleep, calls>>

Increment(t) ==
    /\ pc[t] = "increment"
    /\ numThreadsCompleted' = numThreadsCompleted + 1
    /\ Goto(t, "testLast")
    /\ UNCHANGED <<threadAction, renderHandler, mutexVars, barrierVars, nodeVars,
                   ctl, action, asleep, calls>>

FinishCompleted(t) ==
    /\ pc[t] = "testLast"
    /\ threadAction' = IF LastCompleted THEN "None" ELSE threadAction
    /\ asleep' = asleep \ CompletedWaiters
    /\ completedMutex' = "free"
    /\ Goto(t, "arrive")
    /\ UNCHANGED <<numThreadsCompleted, renderHandler, actionMutex, barrierVars,
                   nodeVars, ctl, action, calls>>

-----------------------------------------------------------------------------
\* A condition wait may also return although nobody notified.
SpuriousWakeup(p) ==
    /\ p \in asleep
    /\ asleep' = asleep \ {p}
    /\ UNCHANGED <<groupVars, mutexVars, nodeVars, threadVars, ctl>>

\* The node is gone (or the process is): nothing moves any more.
Over ==
    /\ ctl \in {"destroyed", "crashed"}
    /\ UNCHANGED vars

ControllerStep ==
    \/ Render \/ FinishFrame \/ Destroy \/ ReturnDirect
    \/ \E t \in Threads : ServeDirect(t) \/ CreateThread(t)
    \/ LockStart \/ ResetCompleted \/ Publish
    \/ LockWaitForComplete \/ TestCompleted \/ Join

ThreadStep(t) ==
    \/ Arrive(t) \/ LeaveBarrier(t) \/ LockWaitForAction(t) \/ ReadAction(t)
    \/ Exit(t) \/ Serve(t)
    \/ LockCompleted(t) \/ Increment(t) \/ FinishCompleted(t)

Next ==
    \/ ControllerStep
    \/ \E t \in Threads : ThreadStep(t)
    \/ \E p \in Threads \cup {Controller} : SpuriousWakeup(p)
    \/ Over

SafetySpec == Init /\ [][Next]_vars

\* Threads are scheduled, and a mutex that is released again and again is
\* eventually obtained.  VRMain need not draw another frame or shut down, and
\* nobody relies on a spurious wakeup.
Fairness ==
    /\ WF_vars(\E t \in Threads : ServeDirect(t) \/ CreateThread(t))
    /\ WF_vars(ReturnDirect) /\ WF_vars(FinishFrame)
    /\ SF_vars(LockStart) /\ WF_vars(ResetCompleted) /\ WF_vars(Publish)
    /\ SF_vars(LockWaitForComplete) /\ WF_vars(TestCompleted) /\ WF_vars(Join)
    /\ \A t \in Threads :
          /\ WF_vars(Arrive(t)) /\ WF_vars(LeaveBarrier(t))
          /\ SF_vars(LockWaitForAction(t)) /\ WF_vars(ReadAction(t))
          /\ WF_vars(Exit(t)) /\ WF_vars(Serve(t))
          /\ SF_vars(LockCompleted(t)) /\ WF_vars(Increment(t))
          /\ WF_vars(FinishCompleted(t))

Spec == SafetySpec /\ Fairness
-----------------------------------------------------------------------------
TypeOK ==
    /\ threadAction \in Calls \cup {"None"}
    /\ numThreadsCompleted \in 0..numThreads \cup Indeterminate
    /\ renderHandler \in {"handler", "NULL", "garbage"}
    /\ actionMutex \in Threads \cup {Controller, "free"}
    /\ completedMutex \in Threads \cup {Controller, "free"}
    /\ mCount \in 1..numThreads
    /\ mGeneration \in 0..(Generations - 1)
    /\ pc \in [Threads -> ThreadPoints]
    /\ action \in [Threads -> Calls \cup {"None"}]
    /\ gen \in [Threads -> 0..(Generations - 1)]
    /\ asleep \subseteq Threads \cup {Controller}
    /\ ctl \in ControllerPoints
    /\ call \in Calls \cup {"None"}
    /\ asyncEnabled \in BOOLEAN
    /\ threadGroup \in {"NULL", "allocated", "freed"}
    /\ calls \in [Threads -> 0..1]

\* The fields of VRThreadGroup that the next step of p writes, and reads.
Writes(p) ==
    IF p = Controller
    THEN CASE ctl = "reset"   -> {"numThreadsCompleted"}
           [] ctl = "publish" -> {"threadAction", "renderHandler"}
           [] OTHER           -> {}
    ELSE CASE pc[p] = "increment" -> {"numThreadsCompleted"}
           [] pc[p] = "testLast" /\ LastCompleted -> {"threadAction"}
           [] OTHER -> {}

Reads(p) ==
    IF p = Controller
    THEN IF ctl = "testCompleted" THEN {"numThreadsCompleted"} ELSE {}
    ELSE CASE pc[p] = "readAction" -> {"threadAction"}
           [] pc[p] \in {"increment", "testLast"} -> {"numThreadsCompleted"}
           [] pc[p] = "act" /\ action[p] \in RenderCalls -> {"renderHandler"}
           [] OTHER -> {}

\* threadAction is written under actionMutex by startThreadAction and under
\* actionCompletedMutex by completeAction, numThreadsCompleted likewise, and
\* renderHandler is read under neither.  Still no two threads are ever about
\* to touch the same field, one of them writing it: there is no data race.
NoDataRace ==
    \A p, q \in Threads \cup {Controller} :
        p # q => Writes(p) \cap (Writes(q) \cup Reads(q)) = {}

\* A render thread that is about to run an action runs the one the controller
\* has asked for last, has not run it before, and finds the render handler
\* of that very call: no thread is a round ahead or a round behind.
ActsOnCurrentCall ==
    \A t \in Threads : pc[t] = "act" =>
        /\ action[t] = call
        /\ calls[t] = 0
        /\ renderHandler = HandlerOf(call)

\* When a method of the node returns to VRMain every child has been called
\* exactly once, whether by render threads or directly.
ReturnsWithAllServed ==
    ctl = "idle" /\ call # "None" => \A t \in Threads : calls[t] = 1

\* The group is deleted only when no render thread will touch it again.
FreedUnused ==
    threadGroup = "freed" => \A t \in Threads : pc[t] = "exited"

\* Every call of a frame returns, and so does the destructor of a node whose
\* threads exist: no wake-up is lost and no thread waits for ever.
CallsReturn == ctl = "start" ~> ctl \in {"idle", "destroyed"}

\* The node does what every display node promises to VRMain.
Node == INSTANCE DisplayCalls WITH
    Children <- Threads,
    call     <- IF call = "Init" THEN "Render" ELSE call,
    open     <- ctl \notin {"idle", "destroyed"},
    served   <- calls
ImplementsDisplayCalls == Node!Spec
=============================================================================
