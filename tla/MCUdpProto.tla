----------------------------- MODULE MCUdpProto -----------------------------
(* Instances of UdpProtoSpec for model checking. *)
EXTENDS UdpProtoSpec

CONSTANTS
    A, B,           \* the peers
    MaxSeq          \* bound: the last sequence number sent

MagicOf == [p \in {A, B} |-> IF p = A THEN 1 ELSE 2]

Bounded == \A p \in Peers : endpoint[p].next_send_seq <= MaxSeq
=============================================================================
