----------------------------- MODULE MCIndexState -----------------------------
(* Instances of IndexState for TLC.                                         *)
EXTENDS IndexState

\* A name outside the container that comes before it in the map's order, so that
\* a link made from "boxed" to "a" is popped before its source.
MCOrder == <<"a", "box", "boxed">>
MCInside == {"boxed"}
=============================================================================
