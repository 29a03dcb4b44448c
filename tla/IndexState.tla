------------------------------ MODULE IndexState ------------------------------
(***************************************************************************)
(* VRDataIndex as a map of names to shared data, with pushState() and      *)
(* popState().  A state is not saved as a whole: each datum keeps a stack  *)
(* of its own and copies its value only when it is set for the first time  *)
(* after a push (VRDatumSpecialized in VRDatum.h).  Display nodes do it in *)
(* every render(): push, add values, draw the children, pop.               *)
(***************************************************************************)
EXTENDS Integers, Sequences, FiniteSets, DatumState

CONSTANTS
    Order,          \* the names, in the order of std::map
    Inside,         \* those of them that lie in the container "box"
    Values,         \* what a name other than "box" may hold
    MaxDepth,       \* bound on the states pushed and not popped
    Restrictions    \* what a caller keeps to: "setLast", "linkFirst" or both

Names == {Order[i] : i \in DOMAIN Order}

ASSUME IndexStateAssumption ==
    /\ Order \in Seq(Names) /\ \A i, j \in DOMAIN Order : Order[i] = Order[j] => i = j
    /\ Inside \subseteq Names \ {"box"} /\ (Inside # {} => "box" \in Names)
    /\ Values # {} /\ MaxDepth \in Nat /\ Restrictions \subseteq {"setLast", "linkFirst"}

VARIABLES
    index,          \* _theIndex: the names present, each with its datum
    datum,          \* the data, each as in DatumState
    saved,          \* history: the contents at each push not yet popped
    setHere,        \* history: the data set in each open state ...
    setWithin       \*   ... and in states pushed and popped again within it

vars == <<index, datum, saved, setHere, setWithin>>

Depth == Len(saved)
Data  == DOMAIN datum

\* What a reader of the index finds under the names.
ContentsOf(ind, data) == [n \in DOMAIN ind |-> Head(data[ind[n]].value)]
Contents == ContentsOf(index, datum)

\* An index as it is after loading: some names, two of them perhaps linked.
Init ==
    /\ datum = [d \in 1..Len(Order) |->
                    New(IF Order[d] = "box" THEN {} ELSE CHOOSE v \in Values : TRUE)]
    /\ index \in {[n \in present |-> CHOOSE d \in Data : Order[d] = n] :
                    present \in {p \in SUBSET (Names \ Inside) : "box" \in Names => "box" \in p}}
    /\ saved = <<>> /\ setHere = <<{}>> /\ setWithin = <<{}>>

-----------------------------------------------------------------------------
(* VRDataIndex.                                                            *)

\* The names present, by their places in the order in which the loops visit them.
Places == {i \in 1..Len(Order) : Order[i] \in DOMAIN index}

\* "setLast": existing data are set in a state only when no further state will be
\* pushed in it, and not if a state pushed and popped within it has set them.
MayPush   == "setLast" \in Restrictions => setHere[Depth + 1] = {}
MaySet(d) == "setLast" \in Restrictions => d \notin setWithin[Depth + 1]
Sets(d)   == setHere' = [setHere EXCEPT ![Depth + 1] = @ \cup {d}]

\* "linkFirst": links are made when the index is loaded, before any push.
MayLink == "linkFirst" \in Restrictions => Depth = 0

\* pushState: every datum once for each of its names; the data after the i-th place.
Pushing[i \in 0..Len(Order)] ==
    IF i = 0 THEN datum
    ELSE IF i \in Places THEN [Pushing[i - 1] EXCEPT ![index[Order[i]]] = DatumPush(@)]
         ELSE Pushing[i - 1]
PushState ==
    /\ Depth < MaxDepth /\ MayPush
    /\ datum' = Pushing[Len(Order)]
    /\ saved' = Append(saved, Contents)
    /\ setHere' = Append(setHere, {}) /\ setWithin' = Append(setWithin, {})
    /\ UNCHANGED index

\* popState: likewise, and the name under which a datum expires is erased.
Popping[i \in 0..Len(Order)] ==
    IF i = 0 THEN datum
    ELSE IF i \in Places THEN [Popping[i - 1] EXCEPT ![index[Order[i]]] = DatumPop(@)]
         ELSE Popping[i - 1]
Erased == {Order[i] : i \in {j \in Places : Expired(Popping[j][index[Order[j]]])}}
PopState ==
    /\ Depth > 0
    /\ datum' = Popping[Len(Order)]
    /\ index' = [n \in DOMAIN index \ Erased |-> index[n]]
    /\ saved' = SubSeq(saved, 1, Depth - 1)
    /\ setHere' = SubSeq(setHere, 1, Depth)
    /\ setWithin' = [SubSeq(setWithin, 1, Depth) EXCEPT ![Depth] =
                        @ \cup setHere[Depth + 1] \cup setWithin[Depth + 1]]

\* addData on a name that exists, under the policy VROVERWRITE.
Overwrite(n, v) ==
    /\ n \in DOMAIN index /\ n # "box" /\ MaySet(index[n])
    /\ datum' = [datum EXCEPT ![index[n]] = SetValue(@, v)]
    /\ Sets(index[n])
    /\ UNCHANGED <<index, saved, setWithin>>

\* addData on a new name: a new datum, and an entry in the parent container.
Add(n, v) ==
    /\ n \notin DOMAIN index /\ n # "box"
    /\ \E d \in {CHOOSE e \in Data : \A m \in DOMAIN index : index[m] # e} :
          LET added == [datum EXCEPT ![d] = New(v)] IN
          /\ index' = [m \in DOMAIN index \cup {n} |-> IF m = n THEN d ELSE index[m]]
          /\ IF n \in Inside
             THEN LET box == index["box"] IN
                  /\ MaySet(box)
                  /\ datum' = [added EXCEPT ![box] = AddToValue(@, n)]
                  /\ Sets(box)
             ELSE datum' = added /\ UNCHANGED setHere
    /\ UNCHANGED <<saved, setWithin>>

\* linkNode: a name, new or in use, for the datum of another one, as XML with
\* linkNode attributes has it.
LinkNode(source, target) ==
    /\ MayLink
    /\ source \in DOMAIN index /\ source # "box"
    /\ target \notin Inside \cup {"box"}
    /\ index' = [m \in DOMAIN index \cup {target} |->
                    IF m = target THEN index[source] ELSE index[m]]
    /\ UNCHANGED <<datum, saved, setHere, setWithin>>

Next ==
    \/ PushState \/ PopState
    \/ \E n \in Names, v \in Values : Overwrite(n, v) \/ Add(n, v)
    \/ \E source, target \in Names : LinkNode(source, target)

Spec == Init /\ [][Next]_vars

-----------------------------------------------------------------------------
TypeOK ==
    /\ DOMAIN index \subseteq Names /\ \A n \in DOMAIN index : index[n] \in Data
    /\ \A d \in Data :
          /\ datum[d].value \in Seq(IF Order[d] = "box" THEN SUBSET Inside ELSE Values)
          /\ Len(datum[d].value) \in 1..(MaxDepth + 1)
          /\ datum[d].needPush \in BOOLEAN /\ datum[d].pushed \in BOOLEAN
          /\ datum[d].stackFrame \in 0..(1 + MaxDepth * Len(Order))

\* pushState and popState work as the header says: a pop brings back exactly the
\* names and values of the matching push, a push changes none, and a change is
\* seen at once and touches no saved state.
Stack == INSTANCE StateStack WITH stack <- Append(saved, Contents)
RestoresState == Stack!Spec
=============================================================================
