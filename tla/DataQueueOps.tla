---------------------------- MODULE DataQueueOps ----------------------------
(***************************************************************************)
(* The operations of VRDataQueue (src/config/VRDataQueue.cpp) as operators *)
(* on its one field, the std::map _dataMap.  A key of the map is a time    *)
(* stamp and a disambiguation number, <<time, d>>; iteration is in key     *)
(* order.  A serialized queue is the sequence of its <VRDataQueueItem>s.   *)
(*                                                                         *)
(* An item is a record whose field `form' tells whether it is a VRDataIndex*)
(* ("raw") or XML text ("text"): what is sent over the network is text.    *)
(*                                                                         *)
(* In this module and the others a definition that a comment calls faulty  *)
(* is not used: it is there to be put in place of the one after it, to see *)
(* the properties fail.                                                    *)
(***************************************************************************)
EXTENDS Integers, Sequences, FiniteSets

EmptyQueue == [k \in {} |-> {}]

\* std::map's order of keys, and the items in it, each with its time.
Before(k, l) == k[1] < l[1] \/ (k[1] = l[1] /\ k[2] < l[2])
InOrder(q) ==
    LET rank[k \in DOMAIN q] == 1 + Cardinality({l \in DOMAIN q : Before(l, k)})
        key(i) == CHOOSE k \in DOMAIN q : rank[k] = i
    IN  [i \in 1..Cardinality(DOMAIN q) |-> [time |-> key(i)[1], item |-> q[key(i)]]]

\* The key push() finds: the first free disambiguation number of the time.
\* (Faulty: always the number 0, or numbers from 1 on.)
LastStamp(q, time) == <<time, 0>>
SkippedStamp(q, time) ==
    <<time, 1 + Cardinality({k \in DOMAIN q : k[1] = time})>>
FreeStamp(q, time) ==
    CHOOSE k \in {time} \X (0..Cardinality(DOMAIN q)) :
        /\ k \notin DOMAIN q
        /\ \A d \in 0..(k[2] - 1) : <<time, d>> \in DOMAIN q

Push(q, time, item) ==
    LET k == FreeStamp(q, time)
    IN  [l \in DOMAIN q \cup {k} |-> IF l = k THEN item ELSE q[l]]

\* One after the other.  (The sets of one element, here and elsewhere, make TLC
\* evaluate p once and not at each use.)
PushAll(q, list) ==
    LET pushed[i \in 0..Len(list)] ==
            IF i = 0 THEN q
            ELSE CHOOSE s \in {Push(p, list[i].time, list[i].item) : p \in {pushed[i - 1]}} : TRUE
    IN  pushed[Len(list)]

\* addQueue() pushes the other queue's items in order, under their times only.
AddQueue(q, new) == PushAll(q, InOrder(new))

AsText(item) == [item EXCEPT !.form = "text"]

\* serialize() writes time and disambiguation; addSerializedQueue(), reading an
\* integer, stops at the dash between them: only the time is sent.
\* (Faulty: the last item is forgotten.)
TextOf(list)  == [i \in DOMAIN list |-> [list[i] EXCEPT !.item = AsText(@)]]
Serialize(q)  == TextOf(InOrder(q))
AddAllButLast(q, data)      == PushAll(q, SubSeq(data, 1, Len(data) - 1))
AddSerializedQueue(q, data) == PushAll(q, data)

\* VRDataQueue(serialData), the constructor used on both ends of a connection.
FromSerialized(data) == AddSerializedQueue(EmptyQueue, data)

\* pop(): erase the first item.
Pop(q) ==
    LET first == CHOOSE k \in DOMAIN q : \A l \in DOMAIN q \ {k} : Before(k, l)
    IN  [l \in DOMAIN q \ {first} |-> q[l]]
=============================================================================
