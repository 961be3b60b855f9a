--------------------------- MODULE EndpointEvents ---------------------------
(***************************************************************************)
(* What a backend may rely on in the events of its endpoint: it is told    *)
(* that the peer is connected, then that it is synchronized; from then on  *)
(* interruptions and resumptions alternate; and the end of the connection  *)
(* is told at most once, whoever ended it.                                 *)
(*                                                                         *)
(* UdpProtoSpec is shown to implement this specification.                  *)
(***************************************************************************)
EXTENDS Integers

CONSTANT Peers

VARIABLE
    seen    \* what the events got so far say; `parity` is that of their number

NothingSeen ==
    [stage |-> "unknown", interrupted |-> FALSE, disconnected |-> FALSE,
     parity |-> 0]

See(p, now) == seen' = [seen EXCEPT ![p] = [now EXCEPT !.parity = 1 - @]]

-----------------------------------------------------------------------------

Connected(p) ==
    /\ seen[p].stage = "unknown"
    /\ See(p, [seen[p] EXCEPT !.stage = "connected"])

Synchronizing(p) ==
    /\ seen[p].stage = "connected"
    /\ See(p, seen[p])

Synchronized(p) ==
    /\ seen[p].stage = "connected"
    /\ See(p, [seen[p] EXCEPT !.stage = "synchronized"])

Interrupted(p) ==
    /\ seen[p].stage = "synchronized"
    /\ ~seen[p].interrupted
    /\ See(p, [seen[p] EXCEPT !.interrupted = TRUE])

Resumed(p) ==
    /\ seen[p].interrupted
    /\ See(p, [seen[p] EXCEPT !.interrupted = FALSE])

Disconnected(p) ==
    /\ seen[p].stage = "synchronized"
    /\ ~seen[p].disconnected
    /\ See(p, [seen[p] EXCEPT !.disconnected = TRUE])

Init == seen = [p \in Peers |-> NothingSeen]

Next ==
    \E p \in Peers :
        \/ Connected(p) \/ Synchronizing(p) \/ Synchronized(p)
        \/ Interrupted(p) \/ Resumed(p) \/ Disconnected(p)

Spec == Init /\ [][Next]_seen
=============================================================================
