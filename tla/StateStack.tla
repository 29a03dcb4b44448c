------------------------------ MODULE StateStack ------------------------------
(***************************************************************************)
(* What VRDataIndex.h promises of pushState() and popState(): the contents *)
(* of the index can be saved, changed in any way and restored, to any      *)
(* depth.  The stack holds the saved contents and, last, the present ones. *)
(***************************************************************************)
EXTENDS Sequences, Integers

VARIABLE stack

Present == stack[Len(stack)]

Init == Len(stack) = 1

Push == stack' = Append(stack, Present)
Pop  == Len(stack) > 1 /\ stack' = SubSeq(stack, 1, Len(stack) - 1)

\* A call adds, changes or links entries of the present contents; none is lost.
Change ==
    /\ stack' = [stack EXCEPT ![Len(stack)] = Present']
    /\ DOMAIN Present \subseteq DOMAIN Present'

Next == Push \/ Pop \/ Change

Spec == Init /\ [][Next]_stack
=============================================================================
