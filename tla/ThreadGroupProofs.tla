-------------------------- MODULE ThreadGroupProofs --------------------------
(***************************************************************************)
(* Proofs about ThreadGroup, for any number of render threads.             *)
(***************************************************************************)
EXTENDS ThreadGroupInv, FiniteSetTheorems, TLAPS

USE ThreadsAssumption, GenerationsAssumption, IndeterminateAssumption

\* The number of render threads is a positive integer.
LEMMA NumThreads == numThreads \in Nat /\ numThreads >= 1
  BY FS_CardinalityType, FS_EmptySet DEF numThreads

\* A set of threads is finite, and counts numThreads only if it has them all.
LEMMA ThreadSets ==
    ASSUME NEW S \in SUBSET Threads
    PROVE  /\ IsFiniteSet(S)
           /\ Cardinality(S) \in 0..numThreads
           /\ Cardinality(S) = numThreads <=> S = Threads
           /\ Cardinality(S) = 0 <=> S = {}
  <1>1. IsFiniteSet(S) /\ Cardinality(S) <= Cardinality(Threads)
        /\ (Cardinality(S) = Cardinality(Threads) => S = Threads)
    BY FS_Subset
  <1>2. Cardinality(S) \in Nat /\ Cardinality(Threads) \in Nat
    BY <1>1, FS_CardinalityType
  <1>3. Cardinality(S) = 0 <=> S = {}
    BY <1>1, FS_EmptySet
  <1> QED
    BY <1>1, <1>2, <1>3 DEF numThreads

\* One more thread counts one more.
LEMMA AddThread ==
    ASSUME NEW S \in SUBSET Threads, NEW t \in Threads, t \notin S
    PROVE  Cardinality(S \cup {t}) = Cardinality(S) + 1
  BY ThreadSets, FS_AddElement

\* All but one of the threads counted means only that one is missing.
LEMMA OneMissing ==
    ASSUME NEW S \in SUBSET Threads, NEW t \in Threads, t \notin S,
           Cardinality(S) = numThreads - 1
    PROVE  S \cup {t} = Threads
  <1>1. Cardinality(S \cup {t}) = numThreads
    BY AddThread, NumThreads, ThreadSets
  <1> QED
    BY <1>1, ThreadSets

-----------------------------------------------------------------------------
\* The invariant holds initially: all threads are unborn.
LEMMA InitInv == Init => IInv
  <1> SUFFICES ASSUME Init PROVE IInv
    OBVIOUS
  <1> USE DEF Init
  <1>1. Waiting = {}
    BY DEF Waiting
  <1>2. TypeOK
    BY NumThreads DEF TypeOK, ThreadPoints, ControllerPoints
  <1>3. MutexInv
    BY DEF MutexInv
  <1>4. BarrierInv
    BY <1>1, NumThreads, FS_EmptySet DEF BarrierInv
  <1>5. UnpublishedInv /\ PublishedInv
    BY DEF UnpublishedInv, PublishedInv, Published, AllOnOneSide, AtBarrier,
           Resting
  <1>6. ThreadInv /\ CallInv
    BY DEF ThreadInv, CallInv
  <1> QED
    BY <1>2, <1>3, <1>4, <1>5, <1>6 DEF IInv
-----------------------------------------------------------------------------
(* The steps of the controller.                                            *)

\* Entering a method of the node, or crashing in its destructor, publishes
\* nothing and moves no thread.
LEMMA EnterInv ==
    ASSUME IInv, Render \/ FinishFrame \/ Destroy
    PROVE  IInv'
  <1> USE DEF IInv, Render, FinishFrame, Destroy, Enter, BetweenFrames,
              groupVars, mutexVars, barrierVars
  <1>1. ~Published /\ ~Published'
    BY DEF Published
  <1>2. TypeOK'
    BY DEF TypeOK, ControllerPoints, Calls, FrameCalls, RenderCalls
  <1>3. Waiting' = Waiting
    BY DEF Waiting
  <1>4. MutexInv' /\ BarrierInv'
    BY <1>3 DEF MutexInv, BarrierInv
  <1>5. UnpublishedInv' /\ PublishedInv'
    BY <1>1, <1>3
    DEF UnpublishedInv, PublishedInv, AllOnOneSide, AtBarrier, Resting
  <1>6. ThreadInv' /\ CallInv'
    BY <1>1 DEF ThreadInv, CallInv, Calls, FrameCalls, RenderCalls, AllJoined
  <1> QED
    BY <1>2, <1>4, <1>5, <1>6

\* Without render threads the controller serves the children itself.
LEMMA ServeDirectInv ==
    ASSUME NEW t \in Threads, IInv, ServeDirect(t)
    PROVE  IInv'
  <1> USE DEF IInv, ServeDirect, groupVars, mutexVars, barrierVars, nodeVars
  <1>1. ~Published /\ ~Published'
    BY DEF Published
  <1>2. TypeOK'
    BY DEF TypeOK
  <1>3. Waiting' = Waiting
    BY DEF Waiting
  <1>4. MutexInv' /\ BarrierInv'
    BY <1>3 DEF MutexInv, BarrierInv
  <1>5. UnpublishedInv' /\ PublishedInv'
    BY <1>1, <1>3
    DEF UnpublishedInv, PublishedInv, AllOnOneSide, AtBarrier, Resting
  <1>6. ThreadInv' /\ CallInv'
    BY <1>1 DEF ThreadInv, CallInv, UnpublishedInv, Resting, AllJoined
  <1> QED
    BY <1>2, <1>4, <1>5, <1>6

\* It returns when all are served.
LEMMA ReturnDirectInv ==
    ASSUME IInv, ReturnDirect
    PROVE  IInv'
  <1> USE DEF IInv, ReturnDirect, groupVars, mutexVars, nodeVars, threadVars,
              barrierVars
  <1>1. TypeOK'
    BY NumThreads
    DEF TypeOK, ThreadInv, ThreadPoints, ControllerPoints, Calls, FrameCalls,
        RenderCalls, HandlerOf
  <1>2. Waiting' = Waiting
    BY DEF Waiting, TypeOK
  <1>3. Counted' = Counted
    BY DEF Counted, TypeOK, MutexInv
  <1>4. MutexInv' /\ BarrierInv'
    BY <1>2 DEF MutexInv, BarrierInv, TypeOK
  <1>5. \A u \in Threads : AtBarrier(u)' = AtBarrier(u)
    BY <1>2 DEF AtBarrier, TypeOK
  <1>6. UnpublishedInv'
    BY <1>5
    DEF UnpublishedInv, AllOnOneSide, Resting, Published, TypeOK, PublishedInv,
        ThreadInv, MutexInv
  <1>7. PublishedInv'
    BY <1>3, <1>5
    DEF PublishedInv, AllOnOneSide, Resting, Published, TypeOK, UnpublishedInv,
        ThreadInv, MutexInv
  <1>8. ThreadInv' /\ CallInv'
    BY DEF ThreadInv, CallInv, Published, TypeOK, PublishedInv, UnpublishedInv,
           AllJoined
  <1> QED
    BY <1>1, <1>4, <1>6, <1>7, <1>8

\* A thread that is created joins those at the barrier.
LEMMA CreateThreadInv ==
    ASSUME NEW t \in Threads, IInv, CreateThread(t)
    PROVE  IInv'
  <1> USE DEF IInv, CreateThread, groupVars, mutexVars, nodeVars, threadVars,
              barrierVars
  <1>1. TypeOK'
    BY NumThreads
    DEF TypeOK, ThreadInv, ThreadPoints, ControllerPoints, Calls, FrameCalls,
        RenderCalls, HandlerOf
  <1>2. Waiting' = Waiting
    BY DEF Waiting, TypeOK
  <1>3. Counted' = Counted
    BY DEF Counted, TypeOK, MutexInv
  <1>4. MutexInv' /\ BarrierInv'
    BY <1>2 DEF MutexInv, BarrierInv, TypeOK
  <1>5. \A u \in Threads : AtBarrier(u)' = AtBarrier(u)
    BY <1>2 DEF AtBarrier, TypeOK
  <1>6. UnpublishedInv'
    BY <1>5
    DEF UnpublishedInv, AllOnOneSide, Resting, Published, TypeOK, PublishedInv,
        ThreadInv, MutexInv
  <1>7. PublishedInv'
    BY <1>3, <1>5
    DEF PublishedInv, AllOnOneSide, Resting, Published, TypeOK, UnpublishedInv,
        ThreadInv, MutexInv
  <1>8. ThreadInv' /\ CallInv'
    BY DEF ThreadInv, CallInv, Published, TypeOK, PublishedInv, UnpublishedInv,
           AllJoined
  <1> QED
    BY <1>1, <1>4, <1>6, <1>7, <1>8

\* startThreadAction takes actionMutex: no thread is reading the action.
LEMMA LockStartInv ==
    ASSUME IInv, LockStart
    PROVE  IInv'
  <1> USE DEF IInv, LockStart, groupVars, mutexVars, nodeVars, threadVars,
              barrierVars
  <1>1. TypeOK'
    BY NumThreads
    DEF TypeOK, ThreadInv, ThreadPoints, ControllerPoints, Calls, FrameCalls,
        RenderCalls, HandlerOf
  <1>2. Waiting' = Waiting
    BY DEF Waiting, TypeOK
  <1>3. Counted' = Counted
    BY DEF Counted, TypeOK, MutexInv
  <1>4. MutexInv' /\ BarrierInv'
    BY <1>2 DEF MutexInv, BarrierInv, TypeOK
  <1>5. \A u \in Threads : AtBarrier(u)' = AtBarrier(u)
    BY <1>2 DEF AtBarrier, TypeOK
  <1>6. UnpublishedInv'
    BY <1>5
    DEF UnpublishedInv, AllOnOneSide, Resting, Published, TypeOK, PublishedInv,
        ThreadInv, MutexInv
  <1>7. PublishedInv'
    BY <1>3, <1>5
    DEF PublishedInv, AllOnOneSide, Resting, Published, TypeOK, UnpublishedInv,
        ThreadInv, MutexInv
  <1>8. ThreadInv' /\ CallInv'
    BY DEF ThreadInv, CallInv, Published, TypeOK, PublishedInv, UnpublishedInv,
           AllJoined
  <1> QED
    BY <1>1, <1>4, <1>6, <1>7, <1>8

\* It resets the count while no thread counts itself.
LEMMA ResetCompletedInv ==
    ASSUME IInv, ResetCompleted
    PROVE  IInv'
  <1> USE DEF IInv, ResetCompleted, groupVars, mutexVars, nodeVars, threadVars,
              barrierVars
  <1>1. TypeOK'
    BY NumThreads
    DEF TypeOK, ThreadInv, ThreadPoints, ControllerPoints, Calls, FrameCalls,
        RenderCalls, HandlerOf
  <1>2. Waiting' = Waiting
    BY DEF Waiting, TypeOK
  <1>3. Counted' = Counted
    BY DEF Counted, TypeOK, MutexInv
  <1>4. MutexInv' /\ BarrierInv'
    BY <1>2 DEF MutexInv, BarrierInv, TypeOK
  <1>5. \A u \in Threads : AtBarrier(u)' = AtBarrier(u)
    BY <1>2 DEF AtBarrier, TypeOK
  <1>6. UnpublishedInv'
    BY <1>5
    DEF UnpublishedInv, AllOnOneSide, Resting, Published, TypeOK, PublishedInv,
        ThreadInv, MutexInv
  <1>7. PublishedInv'
    BY <1>3, <1>5
    DEF PublishedInv, AllOnOneSide, Resting, Published, TypeOK, UnpublishedInv,
        ThreadInv, MutexInv
  <1>8. ThreadInv' /\ CallInv'
    BY DEF ThreadInv, CallInv, Published, TypeOK, PublishedInv, UnpublishedInv,
           AllJoined
  <1> QED
    BY <1>1, <1>4, <1>6, <1>7, <1>8

\* With the action published, none of the threads is counted.
LEMMA PublishInv ==
    ASSUME IInv, Publish
    PROVE  IInv'
  <1> USE DEF IInv, Publish, ActionWaiters, groupVars, mutexVars, nodeVars,
              threadVars, barrierVars
  <1>1. TypeOK'
    BY NumThreads
    DEF TypeOK, ThreadInv, ThreadPoints, ControllerPoints, Calls, FrameCalls,
        RenderCalls, HandlerOf
  <1>2. Waiting' = Waiting
    BY DEF Waiting, TypeOK
  <1>3. Counted' = {} /\ Cardinality(Counted') = 0
    BY FS_EmptySet DEF Counted, UnpublishedInv, Published
  <1>4. MutexInv' /\ BarrierInv'
    BY <1>2 DEF MutexInv, BarrierInv, TypeOK
  <1>5. \A u \in Threads : AtBarrier(u)' = AtBarrier(u)
    BY <1>2 DEF AtBarrier, TypeOK
  <1>6. UnpublishedInv'
    BY <1>5
    DEF UnpublishedInv, AllOnOneSide, Resting, Published, TypeOK, PublishedInv,
        ThreadInv, MutexInv
  <1>7. PublishedInv'
    BY <1>3, <1>5, NumThreads
    DEF PublishedInv, AllOnOneSide, Resting, Published, TypeOK, UnpublishedInv,
        ThreadInv, MutexInv
  <1>8. ThreadInv' /\ CallInv'
    BY DEF ThreadInv, CallInv, Published, TypeOK, PublishedInv, UnpublishedInv,
           AllJoined, Resting, Calls
  <1> QED
    BY <1>1, <1>4, <1>6, <1>7, <1>8

\* waitForComplete takes actionCompletedMutex: no thread is counting itself.
LEMMA LockWaitForCompleteInv ==
    ASSUME IInv, LockWaitForComplete
    PROVE  IInv'
  <1> USE DEF IInv, LockWaitForComplete, groupVars, mutexVars, nodeVars,
              threadVars, barrierVars
  <1>1. TypeOK'
    BY NumThreads
    DEF TypeOK, ThreadInv, ThreadPoints, ControllerPoints, Calls, FrameCalls,
        RenderCalls, HandlerOf
  <1>2. Waiting' = Waiting
    BY DEF Waiting, TypeOK
  <1>3. Counted' = Counted
    BY DEF Counted, TypeOK, MutexInv
  <1>4. MutexInv' /\ BarrierInv'
    BY <1>2 DEF MutexInv, BarrierInv, TypeOK
  <1>5. \A u \in Threads : AtBarrier(u)' = AtBarrier(u)
    BY <1>2 DEF AtBarrier, TypeOK
  <1>6. UnpublishedInv'
    BY <1>5
    DEF UnpublishedInv, AllOnOneSide, Resting, Published, TypeOK, PublishedInv,
        ThreadInv, MutexInv
  <1>7. PublishedInv'
    BY <1>3, <1>5
    DEF PublishedInv, AllOnOneSide, Resting, Published, TypeOK, UnpublishedInv,
        ThreadInv, MutexInv
  <1>8. ThreadInv' /\ CallInv'
    BY DEF ThreadInv, CallInv, Published, TypeOK, PublishedInv, UnpublishedInv,
           AllJoined
  <1> QED
    BY <1>1, <1>4, <1>6, <1>7, <1>8

\* When the controller, holding actionCompletedMutex, finds the count complete,
\* every child has been called, no thread is doing anything any more, and the
\* last one has taken the action back.
LEMMA CompletedMeansServed ==
    ASSUME IInv, ctl = "testCompleted", AllCompleted
    PROVE  /\ threadAction = "None"
           /\ \A t \in Threads : calls[t] = 1 /\ Resting(t)
           /\ AllOnOneSide
  <1> USE DEF IInv
  <1>1. numThreadsCompleted = numThreads /\ Counted = Threads
    BY ThreadSets, NumThreads DEF AllCompleted, PublishedInv, Published, Counted
  <1>2. ~ \E t \in Threads : pc[t] = "testLast"
    BY DEF MutexInv
  <1> QED
    BY <1>1, <1>2 DEF PublishedInv, Published, Counted

\* It returns only when CompletedMeansServed applies.
LEMMA TestCompletedInv ==
    ASSUME IInv, TestCompleted
    PROVE  IInv'
  <1> USE DEF IInv, TestCompleted, AllCompleted, groupVars, mutexVars,
              nodeVars, threadVars, barrierVars
  <1>1. TypeOK'
    BY NumThreads
    DEF TypeOK, ThreadInv, ThreadPoints, ControllerPoints, Calls, FrameCalls,
        RenderCalls, HandlerOf
  <1>2. Waiting' = Waiting
    BY DEF Waiting, TypeOK
  <1>3. Counted' = Counted
    BY DEF Counted, TypeOK, MutexInv
  <1>4. MutexInv' /\ BarrierInv'
    BY <1>2 DEF MutexInv, BarrierInv, TypeOK
  <1>5. \A u \in Threads : AtBarrier(u)' = AtBarrier(u)
    BY <1>2 DEF AtBarrier, TypeOK
  <1>6. UnpublishedInv'
    BY <1>5, CompletedMeansServed
    DEF UnpublishedInv, AllOnOneSide, Resting, Published
  <1>7. PublishedInv'
    BY <1>3, <1>5
    DEF PublishedInv, AllOnOneSide, Resting, Published, TypeOK, UnpublishedInv,
        ThreadInv, MutexInv
  <1>8. ThreadInv' /\ CallInv'
    BY CompletedMeansServed
    DEF ThreadInv, CallInv, Published, Resting, AllJoined
  <1> QED
    BY <1>1, <1>4, <1>6, <1>7, <1>8

\* The group is deleted when every thread has exited.
LEMMA JoinInv ==
    ASSUME IInv, Join
    PROVE  IInv'
  <1> USE DEF IInv, Join, AllJoined, groupVars, mutexVars, nodeVars,
              threadVars, barrierVars
  <1>1. TypeOK'
    BY NumThreads
    DEF TypeOK, ThreadInv, ThreadPoints, ControllerPoints, Calls, FrameCalls,
        RenderCalls, HandlerOf
  <1>2. Waiting' = Waiting
    BY DEF Waiting, TypeOK
  <1>3. Counted' = Counted
    BY DEF Counted, TypeOK, MutexInv
  <1>4. MutexInv' /\ BarrierInv'
    BY <1>2 DEF MutexInv, BarrierInv, TypeOK
  <1>5. \A u \in Threads : AtBarrier(u)' = AtBarrier(u)
    BY <1>2 DEF AtBarrier, TypeOK
  <1>6. UnpublishedInv'
    BY <1>5
    DEF UnpublishedInv, AllOnOneSide, Resting, Published, TypeOK, PublishedInv,
        ThreadInv, MutexInv
  <1>7. PublishedInv'
    BY <1>3, <1>5
    DEF PublishedInv, AllOnOneSide, Resting, Published, TypeOK, UnpublishedInv,
        ThreadInv, MutexInv
  <1>8. ThreadInv' /\ CallInv'
    BY DEF ThreadInv, CallInv, Published, TypeOK, PublishedInv, UnpublishedInv,
           AllJoined
  <1> QED
    BY <1>1, <1>4, <1>6, <1>7, <1>8

-----------------------------------------------------------------------------
(* The steps of a render thread.                                           *)

\* The barrier opens only when all threads are at it; then all are past it.
LEMMA ArriveInv ==
    ASSUME NEW t \in Threads, IInv, Arrive(t)
    PROVE  IInv'
  <1> USE DEF IInv, Arrive, Goto, groupVars, mutexVars, nodeVars
  <1>1. t \notin Waiting /\ Waiting \in SUBSET Threads
    BY DEF Waiting
  <1>2. mCount' \in 1..numThreads /\ BarrierInv'
        /\ \/ \A u \in Threads : AtBarrier(u)' = AtBarrier(u)
           \/ \A u \in Threads : /\ AtBarrier(u) /\ ~AtBarrier(u)'
                                  /\ pc[u] # "testLast"
    <2>1. CASE Opens
      <3>1. \A u \in Threads : /\ AtBarrier(u) /\ pc[u] # "testLast"
                            /\ u \in Waiting \cup {t}
        BY <1>1, <2>1, OneMissing, ThreadSets, NumThreads
        DEF Opens, BarrierInv, AtBarrier, Waiting
      <3>2. \A u \in Threads : ~AtBarrier(u)'
        BY <2>1, <3>1 DEF AtBarrier, Waiting, TypeOK
      <3>3. Cardinality(Waiting') = 0
        BY <3>2, FS_EmptySet DEF AtBarrier, Waiting
      <3> QED
        BY <2>1, <3>1, <3>2, <3>3, NumThreads DEF BarrierInv
    <2>2. CASE ~Opens
      <3>1. Waiting' = Waiting \cup {t}
        BY <2>2 DEF Waiting, TypeOK
      <3>2. Cardinality(Waiting') = Cardinality(Waiting) + 1
        BY <1>1, <3>1, AddThread
      <3>3. \A u \in Threads : AtBarrier(u)' = AtBarrier(u)
        BY <3>1 DEF AtBarrier, TypeOK
      <3>4. mCount' \in 1..numThreads
        BY <2>2, NumThreads DEF Opens, TypeOK
      <3> QED
        BY <1>1, <2>2, <3>2, <3>3, <3>4, ThreadSets, NumThreads
        DEF BarrierInv, TypeOK
    <2> QED
      BY <2>1, <2>2
  <1>3. TypeOK'
    BY <1>2, NumThreads DEF TypeOK, ThreadPoints, Opens
  <1>4. Counted' = Counted
    BY DEF Counted, TypeOK
  <1>5. MutexInv'
    BY DEF MutexInv, TypeOK
  <1>6. UnpublishedInv'
    BY <1>2 DEF UnpublishedInv, AllOnOneSide, Resting, Published, TypeOK
  <1>7. PublishedInv'
    <2> SUFFICES ASSUME Published PROVE PublishedInv'
      BY DEF PublishedInv, Published
    <2>0. call # "None"
      BY DEF CallInv, Published, FrameCalls, RenderCalls
    <2>1. CASE /\ threadAction = "None" /\ Counted = Threads /\ AllOnOneSide
               /\ \A u \in Threads : Resting(u)
      BY <1>2, <1>4, <2>1
      DEF PublishedInv, Published, AllOnOneSide, Resting, TypeOK
    <2>2. ASSUME threadAction = call, numThreadsCompleted = numThreads,
                 NEW v \in Threads, pc[v] = "testLast"
          PROVE  \E u \in Threads : pc'[u] = "testLast"
      BY <2>2 DEF TypeOK
    <2>3. CASE /\ threadAction = call
               /\ \A u \in Threads : /\ AtBarrier(u) /\ pc[u] # "testLast"
                                     /\ calls[u] = 0
      <3>1. Counted = {} /\ numThreadsCompleted # numThreads
        BY <2>3, FS_EmptySet, NumThreads DEF Counted, PublishedInv
      <3> QED
        BY <1>2, <1>4, <2>3, <3>1 DEF PublishedInv, Published, TypeOK
    <2>4. CASE /\ threadAction = call
               /\ \A u \in Threads : AtBarrier(u) <=> u \in Counted
      <3>1. \A u \in Threads : AtBarrier(u)' = AtBarrier(u)
        <4>1. SUFFICES
                ASSUME \A u \in Threads : AtBarrier(u) /\ pc[u] # "testLast"
                PROVE  FALSE
          BY <1>2
        <4>2. Counted = Threads
          BY <2>4, <4>1 DEF Counted
        <4>3. numThreadsCompleted = numThreads
          BY <4>2, ThreadSets DEF PublishedInv
        <4> QED
          BY <4>1, <4>3, <2>4, <2>0 DEF PublishedInv
      <3> QED
        BY <1>4, <2>0, <2>2, <2>4, <3>1 DEF PublishedInv, Published
    <2> QED
      BY <2>1, <2>3, <2>4 DEF PublishedInv
  <1>8. ThreadInv' /\ CallInv'
    BY DEF ThreadInv, CallInv, Published, TypeOK, AllJoined
  <1> QED
    BY <1>3, <1>2, <1>5, <1>6, <1>7, <1>8

\* A waiter stays, or leaves because an older generation woke it: either way
\* it does not change sides.
LEMMA LeaveBarrierInv ==
    ASSUME NEW t \in Threads, IInv, LeaveBarrier(t)
    PROVE  IInv'
  <1> USE DEF IInv, LeaveBarrier, Goto, NewGeneration, groupVars, mutexVars,
              nodeVars, threadVars, barrierVars
  <1>1. TypeOK'
    BY NumThreads
    DEF TypeOK, ThreadInv, ThreadPoints, ControllerPoints, Calls, FrameCalls,
        RenderCalls, HandlerOf
  <1>2. Waiting' = Waiting
    BY DEF Waiting, TypeOK
  <1>3. Counted' = Counted
    BY DEF Counted, TypeOK, MutexInv
  <1>4. MutexInv' /\ BarrierInv'
    BY <1>2 DEF MutexInv, BarrierInv, TypeOK
  <1>5. \A u \in Threads : AtBarrier(u)' = AtBarrier(u)
    BY <1>2 DEF AtBarrier, TypeOK
  <1>6. UnpublishedInv'
    BY <1>5
    DEF UnpublishedInv, AllOnOneSide, Resting, Published, TypeOK, PublishedInv,
        ThreadInv, MutexInv
  <1>7. PublishedInv'
    BY <1>3, <1>5
    DEF PublishedInv, AllOnOneSide, Resting, Published, TypeOK, UnpublishedInv,
        ThreadInv, MutexInv
  <1>8. ThreadInv' /\ CallInv'
    BY DEF ThreadInv, CallInv, Published, TypeOK, PublishedInv, UnpublishedInv,
           AllJoined
  <1> QED
    BY <1>1, <1>4, <1>6, <1>7, <1>8

\* waitForAction takes actionMutex: the controller is not publishing.
LEMMA LockWaitForActionInv ==
    ASSUME NEW t \in Threads, IInv, LockWaitForAction(t)
    PROVE  IInv'
  <1> USE DEF IInv, LockWaitForAction, Goto, groupVars, mutexVars, nodeVars,
              threadVars, barrierVars
  <1>1. TypeOK'
    BY NumThreads
    DEF TypeOK, ThreadInv, ThreadPoints, ControllerPoints, Calls, FrameCalls,
        RenderCalls, HandlerOf
  <1>2. Waiting' = Waiting
    BY DEF Waiting, TypeOK
  <1>3. Counted' = Counted
    BY DEF Counted, TypeOK, MutexInv
  <1>4. MutexInv' /\ BarrierInv'
    BY <1>2 DEF MutexInv, BarrierInv, TypeOK
  <1>5. \A u \in Threads : AtBarrier(u)' = AtBarrier(u)
    BY <1>2 DEF AtBarrier, TypeOK
  <1>6. UnpublishedInv'
    BY <1>5
    DEF UnpublishedInv, AllOnOneSide, Resting, Published, TypeOK, PublishedInv,
        ThreadInv, MutexInv
  <1>7. PublishedInv'
    BY <1>3, <1>5
    DEF PublishedInv, AllOnOneSide, Resting, Published, TypeOK, UnpublishedInv,
        ThreadInv, MutexInv
  <1>8. ThreadInv' /\ CallInv'
    BY DEF ThreadInv, CallInv, Published, TypeOK, PublishedInv, UnpublishedInv,
           AllJoined
  <1> QED
    BY <1>1, <1>4, <1>6, <1>7, <1>8

\* A thread that reads an action is past the barrier, so it has not done it.
LEMMA ReadActionInv ==
    ASSUME NEW t \in Threads, IInv, ReadAction(t)
    PROVE  IInv'
  <1> USE DEF IInv, ReadAction, Goto, groupVars, mutexVars, nodeVars,
              threadVars, barrierVars
  <1>1. TypeOK'
    BY NumThreads
    DEF TypeOK, ThreadInv, ThreadPoints, ControllerPoints, Calls, FrameCalls,
        RenderCalls, HandlerOf
  <1>2. Waiting' = Waiting
    BY DEF Waiting, TypeOK
  <1>3. Counted' = Counted
    BY DEF Counted, TypeOK, MutexInv
  <1>4. MutexInv' /\ BarrierInv'
    BY <1>2 DEF MutexInv, BarrierInv, TypeOK
  <1>5. \A u \in Threads : AtBarrier(u)' = AtBarrier(u)
    BY <1>2 DEF AtBarrier, TypeOK
  <1>6. UnpublishedInv'
    BY <1>5
    DEF UnpublishedInv, AllOnOneSide, Resting, Published, TypeOK, PublishedInv,
        ThreadInv, MutexInv
  <1>7. PublishedInv'
    BY <1>3, <1>5
    DEF PublishedInv, AllOnOneSide, Resting, Published, TypeOK, UnpublishedInv,
        ThreadInv, MutexInv
  <1>8. ThreadInv' /\ CallInv'
    BY DEF ThreadInv, CallInv, Published, TypeOK, PublishedInv, UnpublishedInv,
           AllJoined, Waiting, AtBarrier, Counted
  <1> QED
    BY <1>1, <1>4, <1>6, <1>7, <1>8

\* A thread that exits does so for Terminate.
LEMMA ExitInv ==
    ASSUME NEW t \in Threads, IInv, Exit(t)
    PROVE  IInv'
  <1> USE DEF IInv, Exit, Goto, groupVars, mutexVars, nodeVars, threadVars,
              barrierVars
  <1>1. TypeOK'
    BY NumThreads
    DEF TypeOK, ThreadInv, ThreadPoints, ControllerPoints, Calls, FrameCalls,
        RenderCalls, HandlerOf
  <1>2. Waiting' = Waiting
    BY DEF Waiting, TypeOK
  <1>3. Counted' = Counted
    BY DEF Counted, TypeOK, MutexInv
  <1>4. MutexInv' /\ BarrierInv'
    BY <1>2 DEF MutexInv, BarrierInv, TypeOK
  <1>5. \A u \in Threads : AtBarrier(u)' = AtBarrier(u)
    BY <1>2 DEF AtBarrier, TypeOK
  <1>6. UnpublishedInv'
    BY <1>5
    DEF UnpublishedInv, AllOnOneSide, Resting, Published, TypeOK, PublishedInv,
        ThreadInv, MutexInv
  <1>7. PublishedInv'
    BY <1>3, <1>5
    DEF PublishedInv, AllOnOneSide, Resting, Published, TypeOK, UnpublishedInv,
        ThreadInv, MutexInv
  <1>8. ThreadInv' /\ CallInv'
    BY DEF ThreadInv, CallInv, Published, TypeOK, PublishedInv, UnpublishedInv,
           AllJoined
  <1> QED
    BY <1>1, <1>4, <1>6, <1>7, <1>8

\* A thread that calls its child is not counted before nor after.
LEMMA ServeInv ==
    ASSUME NEW t \in Threads, IInv, Serve(t)
    PROVE  IInv'
  <1> USE DEF IInv, Serve, Goto, groupVars, mutexVars, nodeVars, threadVars,
              barrierVars
  <1>1. TypeOK'
    BY NumThreads
    DEF TypeOK, ThreadInv, ThreadPoints, ControllerPoints, Calls, FrameCalls,
        RenderCalls, HandlerOf
  <1>2. Waiting' = Waiting
    BY DEF Waiting, TypeOK
  <1>3. Counted' = Counted
    BY DEF Counted, TypeOK, ThreadInv
  <1>4. MutexInv' /\ BarrierInv'
    BY <1>2 DEF MutexInv, BarrierInv, TypeOK
  <1>5. \A u \in Threads : AtBarrier(u)' = AtBarrier(u)
    BY <1>2 DEF AtBarrier, TypeOK
  <1>6. UnpublishedInv'
    BY <1>5
    DEF UnpublishedInv, AllOnOneSide, Resting, Published, TypeOK, PublishedInv,
        ThreadInv, MutexInv
  <1>7. PublishedInv'
    <2>1. calls[t] = 0 /\ ~AtBarrier(t) /\ threadAction = call /\ Published
      BY DEF ThreadInv, AtBarrier, Waiting
    <2>2. \A u \in Threads : AtBarrier(u) <=> u \in Counted
      BY <2>1 DEF PublishedInv, Counted
    <2> QED
      BY <1>3, <1>5, <2>1, <2>2 DEF PublishedInv, Published, TypeOK
  <1>8. ThreadInv' /\ CallInv'
    BY DEF ThreadInv, CallInv, Published, TypeOK, PublishedInv, UnpublishedInv,
           AllJoined
  <1> QED
    BY <1>1, <1>4, <1>6, <1>7, <1>8

\* completeAction takes actionCompletedMutex.
LEMMA LockCompletedInv ==
    ASSUME NEW t \in Threads, IInv, LockCompleted(t)
    PROVE  IInv'
  <1> USE DEF IInv, LockCompleted, Goto, groupVars, mutexVars, nodeVars,
              threadVars, barrierVars
  <1>1. TypeOK'
    BY NumThreads
    DEF TypeOK, ThreadInv, ThreadPoints, ControllerPoints, Calls, FrameCalls,
        RenderCalls, HandlerOf
  <1>2. Waiting' = Waiting
    BY DEF Waiting, TypeOK
  <1>3. Counted' = Counted
    BY DEF Counted, TypeOK, MutexInv
  <1>4. MutexInv' /\ BarrierInv'
    BY <1>2 DEF MutexInv, BarrierInv, TypeOK
  <1>5. \A u \in Threads : AtBarrier(u)' = AtBarrier(u)
    BY <1>2 DEF AtBarrier, TypeOK
  <1>6. UnpublishedInv'
    BY <1>5
    DEF UnpublishedInv, AllOnOneSide, Resting, Published, TypeOK, PublishedInv,
        ThreadInv, MutexInv
  <1>7. PublishedInv'
    BY <1>3, <1>5
    DEF PublishedInv, AllOnOneSide, Resting, Published, TypeOK, UnpublishedInv,
        ThreadInv, MutexInv
  <1>8. ThreadInv' /\ CallInv'
    BY DEF ThreadInv, CallInv, Published, TypeOK, PublishedInv, UnpublishedInv,
           AllJoined
  <1> QED
    BY <1>1, <1>4, <1>6, <1>7, <1>8

\* The thread that counts itself changes sides, and is counted.
LEMMA IncrementInv ==
    ASSUME NEW t \in Threads, IInv, Increment(t)
    PROVE  IInv'
  <1> USE DEF IInv, Increment, Goto, groupVars, mutexVars, nodeVars,
              threadVars, barrierVars
  <1>2. Waiting' = Waiting
    BY DEF Waiting, TypeOK
  <1>3. /\ Counted' = Counted \cup {t} /\ t \notin Counted
        /\ ~AtBarrier(t) /\ AtBarrier(t)'
    BY <1>2 DEF Counted, TypeOK, ThreadInv, AtBarrier, Waiting
  <1>3a. /\ numThreadsCompleted' = Cardinality(Counted')
         /\ numThreadsCompleted' \in 0..numThreads
    <2>1. Counted \in SUBSET Threads /\ Counted' \in SUBSET Threads
      BY DEF Counted
    <2> QED
      BY <1>3, <2>1, AddThread, ThreadSets, NumThreads
      DEF ThreadInv, PublishedInv
  <1>4. MutexInv' /\ BarrierInv'
    BY <1>2 DEF MutexInv, BarrierInv, TypeOK
  <1>5. \A u \in Threads \ {t} : AtBarrier(u)' = AtBarrier(u)
    BY <1>2 DEF AtBarrier, TypeOK
  <1>6. UnpublishedInv'
    BY <1>5
    DEF UnpublishedInv, AllOnOneSide, Resting, Published, TypeOK, PublishedInv,
        ThreadInv, MutexInv
  <1>7. PublishedInv'
    <2>1. calls[t] = 1 /\ threadAction = call /\ Published
      BY DEF ThreadInv
    <2>2. \A u \in Threads : AtBarrier(u) <=> u \in Counted
      BY <1>3, <2>1 DEF PublishedInv
    <2>3. pc'[t] = "testLast"
      BY DEF TypeOK
    <2> QED
      BY <1>3, <1>3a, <1>5, <2>1, <2>2, <2>3 DEF PublishedInv, Published
  <1>8. ThreadInv' /\ CallInv'
    BY DEF ThreadInv, CallInv, Published, TypeOK, PublishedInv, UnpublishedInv,
           AllJoined
  <1>1. TypeOK'
    BY <1>3a DEF TypeOK, ThreadPoints
  <1> QED
    BY <1>1, <1>4, <1>6, <1>7, <1>8

\* The last thread to be counted takes the action back when all have done it.
LEMMA FinishCompletedInv ==
    ASSUME NEW t \in Threads, IInv, FinishCompleted(t)
    PROVE  IInv'
  <1> USE DEF IInv, FinishCompleted, Goto, LastCompleted, CompletedWaiters,
              groupVars, mutexVars, nodeVars, threadVars, barrierVars
  <1>1. TypeOK'
    BY NumThreads
    DEF TypeOK, ThreadInv, ThreadPoints, ControllerPoints, Calls, FrameCalls,
        RenderCalls, HandlerOf
  <1>2. Waiting' = Waiting
    BY DEF Waiting, TypeOK
  <1>3. Counted' = Counted
    BY DEF Counted, TypeOK, MutexInv
  <1>4. MutexInv' /\ BarrierInv'
    BY <1>2 DEF MutexInv, BarrierInv, TypeOK
  <1>5. \A u \in Threads : AtBarrier(u)' = AtBarrier(u)
    BY <1>2 DEF AtBarrier, TypeOK
  <1>6. UnpublishedInv'
    BY <1>5
    DEF UnpublishedInv, AllOnOneSide, Resting, Published, TypeOK, PublishedInv,
        ThreadInv, MutexInv
  <1>7. PublishedInv'
    <2>1. calls[t] = 1 /\ threadAction = call /\ Published
      BY DEF ThreadInv
    <2>2. \A u \in Threads : AtBarrier(u) <=> u \in Counted
      BY <2>1 DEF PublishedInv, Resting
    <2>3. \A u \in Threads \ {t} : pc[u] # "testLast"
      BY DEF MutexInv
    <2>4. CASE LastCompleted
      <3>1. Counted = Threads
        BY <2>1, <2>4, ThreadSets DEF PublishedInv, LastCompleted, Counted
      <3> QED
        BY <1>3, <1>5, <2>1, <2>2, <2>3, <2>4, <3>1
        DEF PublishedInv, Published, Resting, AllOnOneSide, AtBarrier, Waiting,
            TypeOK
    <2>5. CASE ~LastCompleted
      BY <1>3, <1>5, <2>1, <2>2, <2>5 DEF PublishedInv, Published, LastCompleted
    <2> QED
      BY <2>4, <2>5
  <1>8. ThreadInv' /\ CallInv'
    <2>1. LastCompleted => Counted = Threads
      BY ThreadSets DEF ThreadInv, PublishedInv, LastCompleted, Counted
    <2> QED
      BY <2>1
      DEF ThreadInv, CallInv, Published, TypeOK, Counted, MutexInv, AllJoined
  <1> QED
    BY <1>1, <1>4, <1>6, <1>7, <1>8

-----------------------------------------------------------------------------
(* All steps together.                                                     *)

\* Waking up without notice, and doing nothing, change no field IInv names
\* except the set of sleepers, of which it says only that they are threads.
LEMMA IdleInv ==
    ASSUME IInv,
           \/ \E p \in Threads \cup {Controller} : SpuriousWakeup(p)
           \/ UNCHANGED vars
    PROVE  IInv'
  <1> USE DEF IInv, SpuriousWakeup, vars, groupVars, mutexVars, nodeVars,
              threadVars, barrierVars
  <1>1. TypeOK'
    BY DEF TypeOK
  <1>2. Waiting' = Waiting /\ Counted' = Counted
    BY DEF Waiting, Counted
  <1>3. MutexInv' /\ BarrierInv'
    BY <1>2 DEF MutexInv, BarrierInv
  <1>4. UnpublishedInv' /\ PublishedInv'
    BY <1>2 DEF UnpublishedInv, PublishedInv, AllOnOneSide, AtBarrier, Resting,
                Published
  <1>5. ThreadInv' /\ CallInv'
    BY DEF ThreadInv, CallInv, Published, AllJoined
  <1> QED
    BY <1>1, <1>3, <1>4, <1>5

\* Every step of the system keeps the invariant.
LEMMA NextInv == IInv /\ [Next]_vars => IInv'
  <1> SUFFICES ASSUME IInv, [Next]_vars PROVE IInv'
    OBVIOUS
  <1>1. CASE ControllerStep
    BY <1>1, EnterInv, ReturnDirectInv,
       LockStartInv, ResetCompletedInv, PublishInv, LockWaitForCompleteInv,
       TestCompletedInv, JoinInv, ServeDirectInv, CreateThreadInv
    DEF ControllerStep
  <1>2. ASSUME NEW t \in Threads, ThreadStep(t) PROVE IInv'
    BY <1>2, ArriveInv, LeaveBarrierInv, LockWaitForActionInv,
       ReadActionInv, ExitInv, ServeInv,
       LockCompletedInv, IncrementInv, FinishCompletedInv
    DEF ThreadStep
  <1>3. CASE \/ \E p \in Threads \cup {Controller} : SpuriousWakeup(p)
             \/ UNCHANGED vars
    BY <1>3, IdleInv
  <1> QED
    BY <1>1, <1>2, <1>3 DEF Next, Over

\* IInv is an invariant of the thread group, whatever the number of threads.
THEOREM InductiveInvariant == SafetySpec => []IInv
  BY InitInv, NextInv, PTL DEF SafetySpec

-----------------------------------------------------------------------------
(* What follows from the invariant.                                        *)

\* Every variable keeps its type; in particular the unsigned m_count never
\* wraps around and no child is called twice in one call of the node.
THEOREM TypeCorrect == SafetySpec => []TypeOK
  <1>1. IInv => TypeOK
    BY DEF IInv
  <1> QED
    BY <1>1, InductiveInvariant, PTL

\* No two threads are ever about to touch a field of VRThreadGroup, one of them
\* writing it, although no single mutex guards those fields.
THEOREM RaceFreedom == SafetySpec => []NoDataRace
  <1>1. IInv => NoDataRace
    <2> SUFFICES ASSUME IInv, NEW p \in Threads \cup {Controller},
                        NEW q \in Threads \cup {Controller}, p # q
                 PROVE  Writes(p) \cap (Writes(q) \cup Reads(q)) = {}
      BY DEF NoDataRace
    <2> USE DEF IInv, Writes, Reads
    <2>1. CASE p = Controller /\ ctl \in {"reset", "publish"}
      <3>1. Resting(q) /\ pc[q] # "readAction"
        BY <2>1 DEF UnpublishedInv, Published, MutexInv
      <3> QED
        BY <2>1, <3>1 DEF Resting
    <2>2. CASE p \in Threads /\ pc[p] = "increment"
      <3>1. ctl \notin {"reset", "publish", "testCompleted"}
        BY <2>2 DEF ThreadInv, Published, MutexInv
      <3>2. q \in Threads => pc[q] \notin {"increment", "testLast"}
        BY <2>2 DEF MutexInv
      <3> QED
        BY <2>2, <3>1, <3>2
    <2>3. CASE p \in Threads /\ pc[p] = "testLast" /\ LastCompleted
      <3>1. ctl \notin {"reset", "publish"}
        BY <2>3 DEF ThreadInv, Published
      <3>2. Counted = Threads
        BY <2>3, ThreadSets DEF LastCompleted, ThreadInv, PublishedInv, Counted
      <3>3. q \in Threads => AtBarrier(q) /\ pc[q] # "testLast"
        BY <2>3, <3>2 DEF ThreadInv, PublishedInv, Resting, MutexInv
      <3> QED
        BY <2>3, <3>1, <3>3 DEF AtBarrier, Waiting
    <2> QED
      BY <2>1, <2>2, <2>3
  <1> QED
    BY <1>1, InductiveInvariant, PTL

\* A render thread only ever runs the call the controller is waiting for, once,
\* with that call's render handler.
THEOREM CurrentCallOnly == SafetySpec => []ActsOnCurrentCall
  <1>1. IInv => ActsOnCurrentCall
    BY DEF IInv, ActsOnCurrentCall, ThreadInv, PublishedInv
  <1> QED
    BY <1>1, InductiveInvariant, PTL

\* When the node returns from a call, every child has been called exactly once.
THEOREM AllServed == SafetySpec => []ReturnsWithAllServed
  <1>1. IInv => ReturnsWithAllServed
    BY DEF IInv, ReturnsWithAllServed, UnpublishedInv, Published
  <1> QED
    BY <1>1, InductiveInvariant, PTL

\* The group is deleted only after its last use.
THEOREM NoUseAfterFree == SafetySpec => []FreedUnused
  <1>1. IInv => FreedUnused
    BY DEF IInv, FreedUnused, CallInv, AllJoined
  <1> QED
    BY <1>1, InductiveInvariant, PTL

-----------------------------------------------------------------------------
(* The thread group implements DisplayCalls.                               *)

\* The group starts as a node that has not been called.
LEMMA NodeInit == Init => Node!Init
  BY DEF Init, Node!Init

\* Every step is one of the node's, or invisible to its caller.
LEMMA NodeNext == IInv /\ [Next]_vars => [Node!Next]_Node!dcVars
  <1> SUFFICES ASSUME IInv, [Next]_vars PROVE [Node!Next]_Node!dcVars
    OBVIOUS
  <1> USE DEF groupVars, mutexVars, nodeVars, threadVars, barrierVars,
              Node!dcVars
  <1>1. CASE Render \/ FinishFrame \/ Destroy
    <2>1. Node!Begin
      BY <1>1 DEF Render, FinishFrame, Destroy, Enter, BetweenFrames,
                  RenderCalls, Node!Begin, Node!CallsAfter
    <2> QED
      BY <2>1 DEF Node!Next
  <1>2. ASSUME NEW t \in Threads, ServeDirect(t) PROVE Node!Serve(t)
    BY <1>2 DEF ServeDirect, IInv, CallInv, FrameCalls, RenderCalls, Node!Serve
  <1>3. ASSUME NEW t \in Threads, Serve(t) PROVE Node!Serve(t)
    <2>1. calls[t] = 0 /\ call # "Terminate" /\ ctl \notin {"idle", "destroyed"}
      BY <1>3 DEF Serve, IInv, ThreadInv, CallInv, AllJoined, Published
    <2>2. calls' = [calls EXCEPT ![t] = 1]
      BY <1>3, <2>1 DEF Serve
    <2> QED
      BY <1>3, <2>1, <2>2 DEF Serve, Node!Serve
  <1>4. CASE ReturnDirect \/ Join
    <2>1. Node!Return
      BY <1>4 DEF ReturnDirect, Join, IInv, TypeOK, CallInv, Node!Return
    <2> QED
      BY <2>1 DEF Node!Next
  <1>5. CASE TestCompleted
    <2>1. CASE ~AllCompleted
      BY <1>5, <2>1 DEF TestCompleted
    <2>2. CASE AllCompleted
      <3>1. Node!Return
        BY <1>5, <2>2, CompletedMeansServed DEF TestCompleted, Node!Return
      <3> QED
        BY <3>1 DEF Node!Next
    <2> QED
      BY <2>1, <2>2
  <1>6. CASE LockStart \/ ResetCompleted \/ Publish \/ LockWaitForComplete
    BY <1>6 DEF LockStart, ResetCompleted, Publish, LockWaitForComplete
  <1>7. ASSUME NEW t \in Threads, CreateThread(t) PROVE UNCHANGED Node!dcVars
    BY <1>7 DEF CreateThread
  <1>8. ASSUME NEW t \in Threads, ThreadStep(t), ~Serve(t)
        PROVE  UNCHANGED Node!dcVars
    BY <1>8 DEF ThreadStep, Arrive, LeaveBarrier, LockWaitForAction, ReadAction,
                Exit, LockCompleted, Increment, FinishCompleted
  <1>9. CASE \/ \E p \in Threads \cup {Controller} : SpuriousWakeup(p)
             \/ UNCHANGED vars
    BY <1>9 DEF SpuriousWakeup, vars
  <1> QED
    BY <1>1, <1>2, <1>3, <1>4, <1>5, <1>6, <1>7, <1>8, <1>9
    DEF Next, ControllerStep, Over, Node!Next

\* The thread group makes the calls of its children that DisplayCalls allows.
THEOREM Implementation == SafetySpec => Node!SafetySpec
  <1>1. SafetySpec => []IInv
    BY InductiveInvariant
  <1>2. SafetySpec => Node!Init
    BY NodeInit DEF SafetySpec
  <1>3. SafetySpec => [][Next]_vars
    BY DEF SafetySpec
  <1> QED
    BY <1>1, <1>2, <1>3, NodeNext, PTL DEF Node!SafetySpec
=============================================================================
