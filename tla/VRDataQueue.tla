----------------------------- MODULE VRDataQueue -----------------------------
(***************************************************************************)
(* One VRDataQueue and the calls its owner makes on it.  In MinVR an owner *)
(* first collects events (input devices and the network push and add) and  *)
(* then consumes them (VRMain pops the queue empty, a device clears it);   *)
(* the class itself allows any order.                                      *)
(***************************************************************************)
EXTENDS DataQueueOps

CONSTANTS
    Times,              \* values of the clock; gettimeofday may go back
    Ids,                \* events
    MaxItems,           \* bound on the length of the queue
    MaxAdded,           \* bound on the length of a queue that is added
    CollectThenConsume  \* TRUE: the order MinVR's own owners keep to

ASSUME QueueAssumption ==
    /\ Times \subseteq Int /\ MaxItems \in Nat /\ MaxAdded \in Nat \ {0}
    /\ CollectThenConsume \in BOOLEAN

VARIABLES
    dataMap,            \* the queue
    consuming           \* a pop was made, and the queue is not yet empty

vars == <<dataMap, consuming>>

Items == [id : Ids, form : {"raw", "text"}]

\* A queue that was filled by n pushes, as another owner may hand it over.
Filled(n) ==
    {PushAll(EmptyQueue, list) : list \in [1..n -> [time : Times, item : Items]]}

Init == dataMap = EmptyQueue /\ consuming = FALSE

Room(n) == Cardinality(DOMAIN dataMap) + n <= MaxItems
Collecting == CollectThenConsume => ~consuming

\* push() of an index or of its text, stamped by makeTimeStamp() or the caller.
PushItem ==
    /\ Collecting /\ Room(1)
    /\ \E time \in Times, item \in Items : dataMap' = Push(dataMap, time, item)
    /\ UNCHANGED consuming

\* addQueue() of a local queue, or of one that came over the network.
AddOther ==
    /\ Collecting
    /\ \E n \in 1..MaxAdded : Room(n) /\ \E new \in Filled(n) :
          \/ dataMap' = AddQueue(dataMap, new)
          \/ dataMap' = AddQueue(dataMap, FromSerialized(Serialize(new)))
    /\ UNCHANGED consuming

PopFirst ==
    /\ dataMap # EmptyQueue
    /\ dataMap' = Pop(dataMap)
    /\ consuming' = (dataMap' # EmptyQueue)

Clear ==
    /\ dataMap' = EmptyQueue
    /\ consuming' = FALSE

Next == PushItem \/ AddOther \/ PopFirst \/ Clear

Spec == Init /\ [][Next]_vars

-----------------------------------------------------------------------------
TypeOK ==
    /\ DOMAIN dataMap \subseteq Times \X (0..(MaxItems - 1))
    /\ \A k \in DOMAIN dataMap : dataMap[k] \in Items
    /\ consuming \in BOOLEAN

\* A queue read back from its own text holds the same events in the same order,
\* so the clients of a server dispatch what the server dispatches.
RoundTrip == InOrder(FromSerialized(Serialize(dataMap))) = Serialize(dataMap)

\* Seen through InOrder, the map with its disambiguation numbers is the list
\* VRDataQueue.h describes: FIFO among equal time stamps, time order otherwise.
Events == INSTANCE EventList WITH MaxBatch <- MaxAdded, list <- InOrder(dataMap)
ImplementsEventList == Events!Spec
=============================================================================
