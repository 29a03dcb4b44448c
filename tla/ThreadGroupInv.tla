--------------------------- MODULE ThreadGroupInv ---------------------------
(***************************************************************************)
(* Why ThreadGroup's properties hold: an inductive invariant.              *)
(*                                                                         *)
(* The barrier splits the threads in two.  A thread is at the barrier from *)
(* its increment of numThreadsCompleted until the barrier opens, and past  *)
(* it from then until its next increment.  The barrier opens only when all *)
(* are at it, so the threads change sides together in one direction and    *)
(* one by one in the other; the count tells the controller how many have   *)
(* changed.                                                                *)
(***************************************************************************)
EXTENDS ThreadGroup

\* Waiting for the barrier to open; a sleeper of an older generation is past it.
Waiting == {t \in Threads : pc[t] = "inBarrier" /\ gen[t] = mGeneration}

AtBarrier(t) == pc[t] \in {"unborn", "testLast", "arrive"} \/ t \in Waiting

\* Not doing any action.
Resting(t) == pc[t] \in {"unborn", "arrive", "inBarrier", "waitForAction",
                         "readAction"}

\* The threads numThreadsCompleted should count.
Counted == {t \in Threads : calls[t] = 1
                            /\ pc[t] \notin {"lockCompleted", "increment"}}

\* The controller is between its Publish and the end of the call.
Published == ctl \in {"waitForComplete", "testCompleted", "join", "destroyed"}

AllOnOneSide == (\A t \in Threads : AtBarrier(t)) \/ (\A t \in Threads : ~AtBarrier(t))

MutexInv ==
    /\ actionMutex = Controller <=> ctl \in {"reset", "publish"}
    /\ completedMutex = Controller <=> ctl = "testCompleted"
    /\ \A t \in Threads :
          /\ actionMutex = t <=> pc[t] = "readAction"
          /\ completedMutex = t <=> pc[t] \in {"increment", "testLast"}

BarrierInv == mCount = numThreads - Cardinality(Waiting)

\* No action is published: the threads rest, all on one side of the barrier.
UnpublishedInv == ~Published =>
    /\ threadAction = "None"
    /\ \A t \in Threads : Resting(t)
    /\ AllOnOneSide
    /\ ctl \in {"start", "reset", "publish"} => \A t \in Threads : calls[t] = 0
    /\ ctl = "publish" => numThreadsCompleted = 0
    /\ ctl = "idle" /\ call # "None" => \A t \in Threads : calls[t] = 1

\* An action is being done, or has just been done by all.
PublishedInv == Published =>
    /\ renderHandler = HandlerOf(call)
    /\ numThreadsCompleted = Cardinality(Counted)
    /\ \/ /\ threadAction = "None"
          /\ Counted = Threads
          /\ \A t \in Threads : Resting(t)
          /\ AllOnOneSide
       \/ /\ threadAction = call
          /\ \/ \A t \in Threads :
                   AtBarrier(t) /\ pc[t] # "testLast" /\ calls[t] = 0
             \/ \A t \in Threads : AtBarrier(t) <=> t \in Counted
          /\ numThreadsCompleted = numThreads =>
                \E t \in Threads : pc[t] = "testLast"

ThreadInv == \A t \in Threads :
    /\ pc[t] = "act" => /\ action[t] = call /\ threadAction = call
                        /\ calls[t] = 0 /\ Published
    /\ pc[t] \in {"lockCompleted", "increment", "testLast"} =>
          calls[t] = 1 /\ threadAction = call /\ Published
    /\ pc[t] = "exited" => call = "Terminate" /\ Published

CallInv ==
    /\ ctl \in {"waitForComplete", "testCompleted", "direct"} => call \in FrameCalls
    /\ ctl \in {"start", "reset", "publish"} => call \in Calls
    /\ ctl \in {"join", "destroyed"} => call = "Terminate"
    /\ ctl \in {"start", "reset", "publish", "join", "destroyed"} /\ call = "Terminate"
          => \A t \in Threads : calls[t] = 0
    /\ ctl = "destroyed" => AllJoined
    /\ threadGroup = "freed" => ctl = "destroyed"

\* The invariant the proofs rest on: everything above, and the types.
IInv ==
    /\ TypeOK /\ MutexInv /\ BarrierInv /\ UnpublishedInv /\ PublishedInv
    /\ ThreadInv /\ CallInv
=============================================================================
