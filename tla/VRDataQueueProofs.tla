-------------------------- MODULE VRDataQueueProofs --------------------------
(***************************************************************************)
(* Proofs about VRDataQueue, for any clock, any events and any bounds.     *)
(***************************************************************************)
EXTENDS VRDataQueue, DataQueueProofs

USE QueueAssumption

\* What TypeOK lacks to be inductive is the number of keys, which bounds the number a
\* push may find.  As long as the owner collects before it consumes there is no gap
\* between the numbers of a time stamp: only pop() makes one.
IInv ==
    /\ TypeOK
    /\ IsQueue(dataMap, Items)
    /\ Cardinality(DOMAIN dataMap) <= MaxItems
    /\ CollectThenConsume /\ ~consuming => Contiguous(dataMap)

\* Text is an item too, and the text of text is that text.
LEMMA ItemText ==
    ASSUME NEW item \in Items
    PROVE  AsText(item) \in Items /\ AsText(AsText(item)) = AsText(item)
  BY DEF Items, AsText

\* What is added is a queue without gaps, and in order it is a list of events that
\* arrives at once.
LEMMA FilledType ==
    ASSUME NEW n \in 1..MaxAdded, NEW new \in Filled(n)
    PROVE  /\ IsQueue(new, Items)
           /\ Cardinality(DOMAIN new) = n
           /\ InOrder(new) \in Seq(EntriesOf(Items))
           /\ InTimeOrder(InOrder(new))
           /\ InOrder(new) \in [1..n -> [time : Times, item : Items]]
  <1> DEFINE Few == [time : Times, item : Items]
  <1>1. PICK list \in [1..n -> Few] : new = PushAll(EmptyQueue, list)
    BY DEF Filled
  <1>2. n \in Nat /\ Few \subseteq EntriesOf(Items)
    <2>1. Few \subseteq EntriesOf(Items)
      BY DEF EntriesOf
    <2> QED
      BY <2>1
  <1>3. list \in Seq(Few) /\ Len(list) = n /\ list \in Seq(EntriesOf(Items))
    BY <1>2, FunctionIsSeq, SeqMonotonic
  <1>4. IsQueue(EmptyQueue, Items) /\ Contiguous(EmptyQueue) /\ InOrder(EmptyQueue) = <<>>
        /\ Cardinality(DOMAIN EmptyQueue) = 0
    BY EmptyQueueInOrder, FS_EmptySet DEF EmptyQueue
  <1>5. /\ IsQueue(new, Items)
        /\ Cardinality(DOMAIN new) = Cardinality(DOMAIN EmptyQueue) + Len(list)
        /\ Contiguous(EmptyQueue) =>
              Contiguous(new) /\ InOrder(new) = Merge(InOrder(EmptyQueue), list)
    BY <1>1, <1>3, <1>4, PushAllInOrder
  <1>6. InOrder(new) = Merge(<<>>, list)
    BY <1>4, <1>5
  <1>7. Timed(Few) /\ <<>> \in Seq(Few) /\ InTimeOrder(<<>>)
    <2>1. Timed(Few)
      BY DEF Timed
    <2>2. DOMAIN <<>> = {}
      OBVIOUS
    <2> QED
      BY <2>1, <2>2, EmptySeq DEF InTimeOrder
  <1>8. Merge(<<>>, list) \in Seq(Few) /\ InTimeOrder(Merge(<<>>, list))
        /\ Len(Merge(<<>>, list)) = Len(<<>>) + Len(list)
    <2> DEFINE none == <<>>
    <2>1. none \in Seq(Few) /\ InTimeOrder(none) /\ Timed(Few) /\ list \in Seq(Few)
      BY <1>3, <1>7
    <2> HIDE DEF none, Few
    <2>2. Merge(none, list) \in Seq(Few) /\ InTimeOrder(Merge(none, list))
          /\ Len(Merge(none, list)) = Len(none) + Len(list)
      BY <2>1, MergeType
    <2> QED
      BY <2>2 DEF none
  <1>9. Len(InOrder(new)) = n
    BY <1>2, <1>3, <1>6, <1>8
  <1>10. InOrder(new) \in [1..n -> Few]
    BY <1>6, <1>8, <1>9, LenProperties
  <1>11. InOrder(new) \in Seq(EntriesOf(Items))
    BY <1>5, InOrderType
  <1> QED
    BY <1>2, <1>3, <1>4, <1>5, <1>6, <1>8, <1>10, <1>11

\* As text it is another such list, and what is read back from it shows it.
LEMMA FilledText ==
    ASSUME NEW n \in 1..MaxAdded, NEW new \in Filled(n)
    PROVE  LET copy == FromSerialized(Serialize(new))
           IN  /\ IsQueue(copy, Items)
               /\ Cardinality(DOMAIN copy) = n
               /\ InOrder(copy) \in Seq(EntriesOf(Items))
               /\ InTimeOrder(InOrder(copy))
               /\ InOrder(copy) \in [1..n -> [time : Times, item : Items]]
  <1> DEFINE list == InOrder(new)
             text == TextOf(list)
             copy == FromSerialized(text)
  <1>1. list \in Seq(EntriesOf(Items)) /\ InTimeOrder(list)
        /\ list \in [1..n -> [time : Times, item : Items]] /\ n \in Nat
    BY FilledType
  <1>2. Len(list) = n
    BY <1>1, LenProperties
  <1> HIDE DEF list
  <1>3. \A item \in Items : AsText(item) \in Items
    BY ItemText
  <1>4. /\ text \in Seq(EntriesOf(Items))
        /\ Len(text) = Len(list)
        /\ \A i \in 1..Len(list) : text[i] = Entry(list[i].time, AsText(list[i].item))
        /\ InTimeOrder(list) => InTimeOrder(text)
    BY <1>1, <1>3, TextOfType
  <1> HIDE DEF text
  <1>5. \A i \in 1..n : text[i] \in [time : Times, item : Items]
    BY <1>1, <1>2, <1>3, <1>4 DEF Entry
  <1>6. text \in [1..n -> [time : Times, item : Items]]
    BY <1>2, <1>4, <1>5, LenProperties
  <1>7. /\ IsQueue(copy, Items)
        /\ Contiguous(copy)
        /\ InOrder(copy) = text
        /\ Cardinality(DOMAIN copy) = Len(text)
    BY <1>1, <1>4, FromSerializedInOrder
  <1> QED
    BY <1>1, <1>2, <1>4, <1>6, <1>7 DEF Serialize, list, text

-----------------------------------------------------------------------------
(* The inductive invariant.                                                *)

\* A push, of an item that fits.
LEMMA PushItemInv == ASSUME IInv, PushItem PROVE IInv'
  <1> USE DEF IInv, PushItem
  <1>1. PICK time \in Times, item \in Items : dataMap' = Push(dataMap, time, item)
    OBVIOUS
  <1>2. time \in Int /\ item \in Items /\ IsQueue(dataMap, Items)
    OBVIOUS
  <1>3. /\ IsQueue(dataMap', Items)
        /\ DOMAIN dataMap' = DOMAIN dataMap \cup {FreeStamp(dataMap, time)}
        /\ Cardinality(DOMAIN dataMap') = Cardinality(DOMAIN dataMap) + 1
        /\ Contiguous(dataMap) => Contiguous(dataMap')
    <2>1. /\ IsQueue(Push(dataMap, time, item), Items)
          /\ DOMAIN Push(dataMap, time, item) = DOMAIN dataMap \cup {FreeStamp(dataMap, time)}
          /\ Cardinality(DOMAIN Push(dataMap, time, item)) = Cardinality(DOMAIN dataMap) + 1
          /\ Contiguous(dataMap) => Contiguous(Push(dataMap, time, item))
      BY <1>2, PushQueue
    <2> QED
      BY <1>1, <2>1
  <1>4. PICK d \in 0..Cardinality(DOMAIN dataMap) : FreeStamp(dataMap, time) = <<time, d>>
    BY <1>2, FreeStampExists
  <1>5. Cardinality(DOMAIN dataMap) \in Nat /\ Cardinality(DOMAIN dataMap) + 1 <= MaxItems
    BY InOrderType DEF Room
  <1>6. d \in 0..(MaxItems - 1)
    BY <1>5
  <1>7. TypeOK'
    BY <1>3, <1>4, <1>6 DEF TypeOK, IsQueue
  <1> QED
    BY <1>3, <1>5, <1>7 DEF Collecting

\* Adding a queue, also one read back from text.
LEMMA AddOtherInv == ASSUME IInv, AddOther PROVE IInv'
  <1> USE DEF IInv, AddOther
  <1>0. PICK n \in 1..MaxAdded :
            /\ Room(n)
            /\ \E new \in Filled(n) :
                  \/ dataMap' = AddQueue(dataMap, new)
                  \/ dataMap' = AddQueue(dataMap, FromSerialized(Serialize(new)))
    OBVIOUS
  <1>1. PICK filled \in Filled(n) :
            \/ dataMap' = AddQueue(dataMap, filled)
            \/ dataMap' = AddQueue(dataMap, FromSerialized(Serialize(filled)))
    BY <1>0
  <1>2. PICK new : /\ dataMap' = AddQueue(dataMap, new)
                   /\ IsQueue(new, Items)
                   /\ Cardinality(DOMAIN new) = n
                   /\ InOrder(new) \in Seq(EntriesOf(Items))
                   /\ InOrder(new) \in [1..n -> [time : Times, item : Items]]
    BY <1>1, FilledType, FilledText
  <1>3. /\ IsQueue(dataMap', Items)
        /\ Cardinality(DOMAIN dataMap') = Cardinality(DOMAIN dataMap) + Cardinality(DOMAIN new)
        /\ Contiguous(dataMap) =>
              Contiguous(dataMap') /\ InOrder(dataMap') = Merge(InOrder(dataMap), InOrder(new))
    BY <1>2, AddQueueInOrder
  <1>4. Cardinality(DOMAIN dataMap) \in Nat /\ Cardinality(DOMAIN dataMap) + n <= MaxItems
    BY <1>0, InOrderType DEF Room
  <1>5. Len(InOrder(new)) = n /\ \A i \in 1..n : InOrder(new)[i].time \in Times
    BY <1>2, InOrderType
  <1>6. DOMAIN dataMap' \subseteq Times \X (0..(MaxItems - 1))
    <2>1. DOMAIN dataMap \subseteq Times \X (0..(MaxItems - 1))
      BY DEF TypeOK
    <2> DEFINE list == InOrder(new)
    <2>2. list \in Seq(EntriesOf(Items)) /\ (\A i \in 1..Len(list) : list[i].time \in Times)
          /\ Cardinality(DOMAIN dataMap) + Len(list) <= MaxItems /\ IsQueue(dataMap, Items)
      BY <1>2, <1>4, <1>5
    <2> HIDE DEF list
    <2>3. DOMAIN PushAll(dataMap, list) \subseteq Times \X (0..(MaxItems - 1))
      BY <2>1, <2>2, PushAllKeys
    <2> QED
      BY <1>2, <2>3 DEF AddQueue, list
  <1>7. TypeOK'
    BY <1>3, <1>6 DEF TypeOK, IsQueue
  <1> QED
    BY <1>2, <1>3, <1>4, <1>7 DEF Collecting

\* A pop may leave a gap, and then the owner is consuming, or an empty queue.
LEMMA PopFirstInv == ASSUME IInv, PopFirst PROVE IInv'
  <1> USE DEF IInv, PopFirst
  <1>1. IsQueue(dataMap', Items) /\ DOMAIN dataMap' \subseteq DOMAIN dataMap
    BY PopInOrder
  <1>2. Cardinality(DOMAIN dataMap') <= Cardinality(DOMAIN dataMap)
    BY <1>1, FS_Subset DEF IsQueue
  <1>3. Cardinality(DOMAIN dataMap') \in Nat /\ Cardinality(DOMAIN dataMap) \in Nat
    BY <1>1, FS_CardinalityType DEF IsQueue
  <1>4. TypeOK'
    BY <1>1 DEF TypeOK, IsQueue
  <1>5. ~consuming' => Contiguous(dataMap')
    BY EmptyQueueInOrder
  <1> QED
    BY <1>1, <1>2, <1>3, <1>4, <1>5

\* The empty queue.
LEMMA EmptyInv ==
    /\ dataMap = EmptyQueue /\ consuming = FALSE => IInv
    /\ dataMap' = EmptyQueue /\ consuming' = FALSE => IInv'
  <1>1. DOMAIN EmptyQueue = {} /\ Cardinality(DOMAIN EmptyQueue) = 0
    BY FS_EmptySet DEF EmptyQueue
  <1>2. IsQueue(EmptyQueue, Items) /\ Contiguous(EmptyQueue) /\ 0 <= MaxItems
    BY EmptyQueueInOrder
  <1> QED
    BY <1>1, <1>2 DEF IInv, TypeOK

\* The invariant holds, whether or not the owner collects before it consumes.
THEOREM Invariance == Spec => []IInv
  <1>1. Init => IInv
    BY EmptyInv DEF Init
  <1>2. IInv /\ [Next]_vars => IInv'
    <2> SUFFICES ASSUME IInv, [Next]_vars PROVE IInv'
      OBVIOUS
    <2>1. CASE PushItem
      BY <2>1, PushItemInv
    <2>2. CASE AddOther
      BY <2>2, AddOtherInv
    <2>3. CASE PopFirst
      BY <2>3, PopFirstInv
    <2>4. CASE Clear
      BY <2>4, EmptyInv DEF Clear
    <2>5. CASE UNCHANGED vars
      BY <2>5 DEF IInv, TypeOK, vars
    <2> QED
      BY <2>1, <2>2, <2>3, <2>4, <2>5 DEF Next
  <1> QED
    BY <1>1, <1>2, PTL DEF Spec

\* Keys have a time of the clock and a number that is less than the bound on the
\* queue's length, and the values are events.
THEOREM TypeCorrect == Spec => []TypeOK
  <1>1. IInv => TypeOK
    BY DEF IInv
  <1> QED
    BY <1>1, Invariance, PTL

\* A queue read back from its own text holds the same events in the same order,
\* whatever pushes, additions and pops it went through.
THEOREM ReadBack == Spec => []RoundTrip
  <1>1. IInv => RoundTrip
    <2> SUFFICES ASSUME IInv PROVE RoundTrip
      OBVIOUS
    <2>1. InOrder(dataMap) \in Seq(EntriesOf(Items)) /\ InTimeOrder(InOrder(dataMap))
      BY InOrderType DEF IInv
    <2>2. TextOf(InOrder(dataMap)) \in Seq(EntriesOf(Items))
          /\ InTimeOrder(TextOf(InOrder(dataMap)))
      BY <2>1, ItemText, TextOfType
    <2> QED
      BY <2>2, FromSerializedInOrder DEF RoundTrip, Serialize
  <1> QED
    BY <1>1, Invariance, PTL

-----------------------------------------------------------------------------
(* The refinement of EventList.                                            *)

\* EventList's operators on lists, seen from here, are those of TimedList.
LEMMA SameOperators ==
    /\ \A list : Events!InTimeOrder(list) = InTimeOrder(list)
    /\ \A list, new : Events!Merge(list, new) = Merge(list, new)
  <1>1. \A list : Events!InTimeOrder(list) <=> InTimeOrder(list)
    BY DEF Events!InTimeOrder, InTimeOrder
  <1>2. \A list, new : Events!Merge(list, new) = Merge(list, new)
    BY DEF Events!Merge, Events!Insert, Events!NotLater, Events!Cardinality,
           Merge, Insert, NotLater, Cardinality
  <1> QED
    BY <1>1, <1>2

\* A list of n entries in time order may arrive at once.
LEMMA MayArrive ==
    ASSUME NEW n \in 1..MaxAdded, NEW b \in [1..n -> [time : Times, item : Items]],
           InTimeOrder(b)
    PROVE  b \in Events!Batches
  BY SameOperators DEF Events!Batches, Events!Entries

\* A push adds one entry to the list.
LEMMA PushItemAdds ==
    ASSUME IInv, CollectThenConsume, PushItem PROVE Events!Add
  <1>1. PICK time \in Times, item \in Items : dataMap' = Push(dataMap, time, item)
    BY DEF PushItem
  <1> DEFINE b == [i \in 1..1 |-> Entry(time, item)]
  <1>2. b \in [1..1 -> [time : Times, item : Items]] /\ InTimeOrder(b)
    BY DEF Entry, InTimeOrder
  <1>3. b = <<Entry(time, item)>>
    OBVIOUS
  <1>4. Contiguous(dataMap) /\ IsQueue(dataMap, Items) /\ time \in Int /\ item \in Items
    BY DEF IInv, PushItem, Collecting
  <1>5. InOrder(Push(dataMap, time, item)) = Insert(InOrder(dataMap), Entry(time, item))
    BY <1>4, PushInOrder
  <1>6. InOrder(dataMap') = Merge(InOrder(dataMap), b)
    BY <1>1, <1>3, <1>5, MergeSingle
  <1> HIDE DEF b
  <1>7. b \in Events!Batches
    <2>1. 1 \in 1..MaxAdded
      OBVIOUS
    <2> QED
      BY <1>2, <2>1, MayArrive
  <1> QED
    BY <1>6, <1>7, SameOperators DEF Events!Add

\* An addition adds the other queue's list.
LEMMA AddOtherAdds ==
    ASSUME IInv, CollectThenConsume, AddOther PROVE Events!Add
  <1>0. PICK n \in 1..MaxAdded :
            \E new \in Filled(n) :
                  \/ dataMap' = AddQueue(dataMap, new)
                  \/ dataMap' = AddQueue(dataMap, FromSerialized(Serialize(new)))
    BY DEF AddOther
  <1>1. PICK filled \in Filled(n) :
            \/ dataMap' = AddQueue(dataMap, filled)
            \/ dataMap' = AddQueue(dataMap, FromSerialized(Serialize(filled)))
    BY <1>0
  <1>2. PICK new : /\ dataMap' = AddQueue(dataMap, new)
                   /\ IsQueue(new, Items)
                   /\ InTimeOrder(InOrder(new))
                   /\ InOrder(new) \in [1..n -> [time : Times, item : Items]]
    BY <1>1, FilledType, FilledText
  <1>3. Contiguous(dataMap) /\ IsQueue(dataMap, Items)
    BY DEF IInv, AddOther, Collecting
  <1>4. InOrder(dataMap') = Merge(InOrder(dataMap), InOrder(new))
    <2>1. /\ IsQueue(AddQueue(dataMap, new), Items)
          /\ Cardinality(DOMAIN AddQueue(dataMap, new)) =
                Cardinality(DOMAIN dataMap) + Cardinality(DOMAIN new)
          /\ Contiguous(dataMap) =>
                /\ Contiguous(AddQueue(dataMap, new))
                /\ InOrder(AddQueue(dataMap, new)) = Merge(InOrder(dataMap), InOrder(new))
      BY <1>2, <1>3, AddQueueInOrder
    <2> QED
      BY <1>2, <1>3, <2>1
  <1>5. InOrder(new) \in Events!Batches
    BY <1>2, MayArrive
  <1> QED
    BY <1>4, <1>5, SameOperators DEF Events!Add

\* An owner that collects events and then consumes them sees the FIFO by time stamp
\* that VRDataQueue.h describes: events come out in time order, those of one time in the
\* order they were put in, and none is lost or repeated.
THEOREM Refinement ==
    ASSUME CollectThenConsume PROVE Spec => ImplementsEventList
  <1>1. Init => Events!Init
    BY EmptyQueueInOrder DEF Init, Events!Init
  <1>2. IInv /\ [Next]_vars => [Events!Next]_(InOrder(dataMap))
    <2> SUFFICES ASSUME IInv, [Next]_vars
                 PROVE  Events!Next \/ InOrder(dataMap') = InOrder(dataMap)
      OBVIOUS
    <2>1. CASE PushItem
      BY <2>1, PushItemAdds DEF Events!Next
    <2>2. CASE AddOther
      BY <2>2, AddOtherAdds DEF Events!Next
    <2>3. CASE PopFirst
      <3>1. InOrder(dataMap) # <<>> /\ InOrder(dataMap') = Tail(InOrder(dataMap))
        BY <2>3, PopInOrder DEF PopFirst, IInv
      <3> QED
        BY <3>1 DEF Events!Next, Events!Take
    <2>4. CASE Clear
      <3>1. InOrder(dataMap') = <<>>
        BY <2>4, EmptyQueueInOrder DEF Clear
      <3> QED
        BY <3>1 DEF Events!Next, Events!Drop
    <2>5. CASE UNCHANGED vars
      BY <2>5 DEF vars
    <2> QED
      BY <2>1, <2>2, <2>3, <2>4, <2>5 DEF Next
  <1> QED
    BY <1>1, <1>2, Invariance, PTL DEF Spec, ImplementsEventList, Events!Spec
=============================================================================
