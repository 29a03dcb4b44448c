------------------------------ MODULE EventList ------------------------------
(***************************************************************************)
(* What the header of VRDataQueue promises: a FIFO of events ordered by    *)
(* time stamp.  Events come out in time order, those of one time in the    *)
(* order they were put in, and none is lost or repeated.                   *)
(***************************************************************************)
EXTENDS TimedList

CONSTANTS Times, Items,     \* time stamps, and events
          MaxBatch          \* how many events may arrive at once

VARIABLE list               \* the events to come, in order

Entries == [time : Times, item : Items]

Init == list = <<>>

\* What may arrive at once: one event, or another list.
Batches == {b \in UNION {[1..n -> Entries] : n \in 1..MaxBatch} : InTimeOrder(b)}

Add  == \E b \in Batches : list' = Merge(list, b)
Take == list # <<>> /\ list' = Tail(list)
Drop == list' = <<>>

Next == Add \/ Take \/ Drop

Spec == Init /\ [][Next]_list
=============================================================================
