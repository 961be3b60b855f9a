---------------------------- MODULE MCInputQueue ----------------------------
(* Bounds for model checking InputQueueSpec. *)
EXTENDS InputQueueSpec

CONSTANT MaxFrame       \* no input or game frame past this one

Bounded ==
    /\ frame_count <= MaxFrame
    /\ Len(log) <= MaxFrame + 1
=============================================================================
