------------------------------ MODULE TimedList ------------------------------
(***************************************************************************)
(* Lists of events with time stamps, as a queue shows them to a reader:    *)
(* an entry is a record with the fields `time' and `item', and an item's   *)
(* id begins with the node it comes from.                                  *)
(***************************************************************************)
EXTENDS Integers, Sequences, FiniteSets

InTimeOrder(list) == \A i, j \in DOMAIN list : i < j => list[i].time <= list[j].time

\* How many entries are not later than a time: in a list in time order, the first ones.
NotLater(list, time) == Cardinality({i \in DOMAIN list : list[i].time <= time})

\* Behind every event that is not later than the new one.
Insert(list, e) ==
    LET k == NotLater(list, e.time)
    IN  SubSeq(list, 1, k) \o <<e>> \o SubSeq(list, k + 1, Len(list))

\* The events of another list one after the other.  (The set of one element makes
\* TLC evaluate the list so far once and not at each use.)
Merge(list, new) ==
    LET merged[i \in 0..Len(new)] ==
            IF i = 0 THEN list
            ELSE CHOOSE m \in {Insert(l, new[i]) : l \in {merged[i - 1]}} : TRUE
    IN  merged[Len(new)]

\* The events of one node in a list, in the order of the list.
From(list, n) ==
    LET kept[i \in 0..Len(list)] ==
            IF i = 0 THEN <<>>
            ELSE IF list[i].item.id[1] = n THEN Append(kept[i - 1], list[i])
                 ELSE kept[i - 1]
    IN  kept[Len(list)]
=============================================================================
