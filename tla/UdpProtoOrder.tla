---------------------------- MODULE UdpProtoOrder ----------------------------
(***************************************************************************)
(* UdpProtoSpec with a record of the newest message that each endpoint let *)
(* through its sequence number filter.  Sequence numbers are assumed to    *)
(* stay below half of SeqMod, so that newer means greater.                 *)
(***************************************************************************)
EXTENDS UdpProtoSpec

VARIABLE newest     \* its sequence number, of each peer

Passes(p, msg) == ~IsSync(msg) /\ ~Filtered(endpoint[p], msg)

Remember(p, mail) ==
    newest' = IF Passes(p, mail.msg)
              THEN [newest EXCEPT ![p] = mail.msg.seq] ELSE newest

OrderSpec ==
    /\ Init /\ newest = [p \in Peers |-> 0]
    /\ [][\/ Otherwise /\ UNCHANGED newest
          \/ \E p \in Peers : \E mail \in network :
                Receive(p, mail) /\ Remember(p, mail)]_<<vars, newest>>

(***************************************************************************)
(* udp_proto.rs 651: "filter out out-of-order packets".  A message that    *)
(* the filter lets through is not older than one it let through before.    *)
(***************************************************************************)
FilteredInOrder == [][\A p \in Peers : newest'[p] >= newest[p]]_<<vars, newest>>
=============================================================================
