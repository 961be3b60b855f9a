----------------------------- MODULE MCUdpOrder -----------------------------
(* Instances of UdpProtoOrder for model checking. *)
EXTENDS UdpProtoOrder

CONSTANTS A, B      \* the peers

MagicOf == [p \in {A, B} |-> IF p = A THEN 1 ELSE 2]
=============================================================================
