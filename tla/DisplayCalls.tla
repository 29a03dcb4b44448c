---------------------------- MODULE DisplayCalls ----------------------------
(***************************************************************************)
(* What a display node with several children promises to the main loop.    *)
(*                                                                         *)
(* VRMain::renderOnAllDisplays makes three calls on a display node in each *)
(* frame: render, waitForRenderToComplete, displayFinishedRendering.  The  *)
(* node passes every call on to each of its children exactly once, and     *)
(* returns only when every child has been served.  In which order, or on   *)
(* which threads, the children are served is left open: VRDisplayNode      *)
(* serves them one after the other, VRThreadGroupNode (module ThreadGroup) *)
(* on one thread each.                                                     *)
(***************************************************************************)
EXTENDS Naturals

CONSTANT Children       \* the display nodes below this one

VARIABLES
    call,               \* the call being made, or the last one made
    open,               \* TRUE while that call has not returned
    served              \* how often each child has been served by that call

dcVars == <<call, open, served>>

\* The calls VRMain may make after `c': the three methods of one frame in
\* order, then another frame or the destructor.
CallsAfter(c) ==
    CASE c \in {"None", "DisplayFinishedRendering"} -> {"Render", "Terminate"}
      [] c = "Render"                  -> {"WaitForRenderToComplete"}
      [] c = "WaitForRenderToComplete" -> {"DisplayFinishedRendering"}
      [] OTHER                         -> {}

Init ==
    /\ call = "None"
    /\ open = FALSE
    /\ served = [t \in Children |-> 0]

Begin ==
    /\ ~open
    /\ call' \in CallsAfter(call)
    /\ open' = TRUE
    /\ served' = [t \in Children |-> 0]

Serve(t) ==
    /\ open
    /\ call # "Terminate"
    /\ served[t] = 0
    /\ served' = [served EXCEPT ![t] = 1]
    /\ UNCHANGED <<call, open>>

Return ==
    /\ open
    /\ call = "Terminate" \/ \A t \in Children : served[t] = 1
    /\ open' = FALSE
    /\ UNCHANGED <<call, served>>

Next == Begin \/ (\E t \in Children : Serve(t)) \/ Return

\* Calls of a frame are served and return; the destructor need not return
\* (ThreadGroup says when it does).
ServeOrReturn == (\E t \in Children : Serve(t)) \/ (call # "Terminate" /\ Return)

SafetySpec == Init /\ [][Next]_dcVars

Spec == SafetySpec /\ WF_dcVars(ServeOrReturn)
=============================================================================
