------------------------------- MODULE Medium -------------------------------
(***************************************************************************)
(* A medium that delays and reorders messages, and neither loses nor       *)
(* repeats nor invents one: what the send queue of an endpoint may do to   *)
(* the messages on their way to the socket.                                *)
(*                                                                         *)
(* SendQueueSpec is shown to implement this specification, which is why    *)
(* UdpProtoSpec, whose network does the same and worse, can leave the send *)
(* queue out.                                                              *)
(***************************************************************************)
CONSTANT Messages

VARIABLES
    inside,         \* the messages that entered and have not left
    outside         \* the messages that left

Init == inside = {} /\ outside = {}

\* Messages may enter and leave, several in a step.  What is there is not
\* lost, and what has left does not come back.
Next ==
    /\ inside' \cup outside' \subseteq Messages
    /\ inside \cup outside \subseteq inside' \cup outside'
    /\ outside \subseteq outside'
    /\ inside' \cap outside' = {}

Spec == Init /\ [][Next]_<<inside, outside>>
=============================================================================
