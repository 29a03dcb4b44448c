---------------------------- MODULE FrameLockstep ----------------------------
(***************************************************************************)
(* What the two synchronization points of VRMain promise to a cluster of   *)
(* nodes that draw one frame after the other: in each frame every node     *)
(* gives the events it has collected, then all of them process one and the *)
(* same list, merged from what all have given, and no node displays its    *)
(* picture before all have finished drawing theirs.                        *)
(***************************************************************************)
EXTENDS TimedList

CONSTANT Nodes          \* the processes of the cluster

VARIABLES frame,        \* frames each node has displayed
          phase,        \* how far each node is in its present frame
          gave,         \* the events it gave in this frame
          got           \* the events it processes in this frame

vars == <<frame, phase, gave, got>>

Phases == <<"start", "given", "working", "rendered">>

\* Node n is at least at the given phase of frame f.
Reached(n, p, f) ==
    \/ frame[n] > f
    \/ frame[n] = f /\ phase[n] \in {Phases[i] : i \in p..Len(Phases)}
Given(n, f)    == Reached(n, 2, f)
Rendered(n, f) == Reached(n, 4, f)

\* A list is a merge when it is in time order and holds the events each node
\* gave, in the order it gave them, and no others.
IsMerge(list) ==
    /\ InTimeOrder(list)
    /\ \A n \in Nodes : From(list, n) = gave[n]

Init ==
    /\ frame = [n \in Nodes |-> 0]
    /\ phase = [n \in Nodes |-> "start"]
    /\ gave  = [n \in Nodes |-> <<>>]
    /\ got   = [n \in Nodes |-> <<>>]

\* Any events of its own, in time order; nobody else gives anything.
Give(n) ==
    /\ phase[n] = "start"
    /\ phase' = [phase EXCEPT ![n] = "given"]
    /\ InTimeOrder(gave'[n]) /\ From(gave'[n], n) = gave'[n]
    /\ gave' = [gave EXCEPT ![n] = gave'[n]]
    /\ UNCHANGED <<frame, got>>

\* The first node to get the list decides which merge it is.
Get(n) ==
    /\ phase[n] = "given"
    /\ \A m \in Nodes : Given(m, frame[n])
    /\ phase' = [phase EXCEPT ![n] = "working"]
    /\ IsMerge(got'[n])
    /\ \A m \in Nodes \ {n} :
          frame[m] = frame[n] /\ got[m] # <<>> => got'[n] = got[m]
    /\ got' = [got EXCEPT ![n] = got'[n]]
    /\ UNCHANGED <<frame, gave>>

Draw(n) ==
    /\ phase[n] = "working"
    /\ phase' = [phase EXCEPT ![n] = "rendered"]
    /\ UNCHANGED <<frame, gave, got>>

Display(n) ==
    /\ phase[n] = "rendered"
    /\ \A m \in Nodes : Rendered(m, frame[n])
    /\ frame' = [frame EXCEPT ![n] = @ + 1]
    /\ phase' = [phase EXCEPT ![n] = "start"]
    /\ gave'  = [gave EXCEPT ![n] = <<>>]
    /\ got'   = [got EXCEPT ![n] = <<>>]

\* A node may end; the others never pass its frame.
Stop(n) ==
    /\ phase[n] # "stopped"
    /\ phase' = [phase EXCEPT ![n] = "stopped"]
    /\ UNCHANGED <<frame, gave, got>>

Next == \E n \in Nodes : Give(n) \/ Get(n) \/ Draw(n) \/ Display(n) \/ Stop(n)

Spec == Init /\ [][Next]_vars
=============================================================================
