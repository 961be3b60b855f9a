---------------------------- MODULE UdpProtoSpec ----------------------------
(***************************************************************************)
(* Two endpoints of the protocol on a network that loses, duplicates,      *)
(* delays and reorders their messages, under the calls the peer-to-peer    *)
(* backend makes (src/ggpo/src/backends/p2p.rs):                           *)
(*   add_remote_player          -> init, synchronize                       *)
(*   pump                       -> on_loop_poll                            *)
(*   on_msg                     -> handles_msg, on_msg                     *)
(*   add_local_input            -> send_input                              *)
(*   poll_udp_protocol_events   -> get_event                               *)
(*   disconnect_player_queue    -> disconnect                              *)
(* A peer whose endpoint failed an assertion takes no further step.        *)
(***************************************************************************)
EXTENDS UdpProto, FiniteSets

CONSTANTS
    Peers,          \* the two peers
    Magic,          \* the magic number each peer draws
    Due,            \* the timers without an age that a poll may find expired
    Active,         \* bound: the peers whose clock moves and whose game plays
    NetworkCap,     \* bound: how many messages are in flight
    EventCap,       \* bound: how many events wait for the backend
    FrameCap        \* bound: how many frames a game sends input for

ASSUME PeersAssumption ==
    /\ IsFiniteSet(Peers) /\ Cardinality(Peers) = 2
    /\ Magic \in [Peers -> Nat]
    /\ Due \subseteq {"quality", "stats", "shutdown"}
    /\ Active \subseteq Peers

VARIABLES
    endpoint,       \* the UdpProtocol record of each peer
    network,        \* the messages in flight
    next_frame,     \* the frame each game sends input for next
    seen            \* history: what the backend of each peer has been told

vars == <<endpoint, network, next_frame, seen>>

Stream == INSTANCE EndpointEvents

Other(p) == CHOOSE q \in Peers : q # p
AnyRandom == CHOOSE r \in Randoms : TRUE

Init ==
    /\ endpoint = [p \in Peers |-> NewEndpoint(Magic[p], AnyRandom)]
    /\ network = {}
    /\ next_frame = [p \in Peers |-> 0]
    /\ seen = [p \in Peers |-> Stream!NothingSeen]

Alive(p) == endpoint[p].panic = NoPanic
Attached(p) == Alive(p) /\ endpoint[p].udp
Listening(p) == Len(endpoint[p].event_queue) < EventCap

Mail(p, e) ==
    {[to |-> Other(p), msg |-> e.outbox[i]] : i \in 1 .. Len(e.outbox)}

\* p's endpoint becomes e and hands its messages to the network, beside the
\* messages of `rest`.
Becomes(p, e, rest) ==
    /\ endpoint' = [endpoint EXCEPT ![p] = [e EXCEPT !.outbox = <<>>]]
    /\ network' = rest \cup Mail(p, e)
    /\ Cardinality(network') <= NetworkCap

-----------------------------------------------------------------------------

AddRemotePlayer(p) ==
    /\ endpoint[p].state = "Starting"
    /\ \E random \in Randoms :
        Becomes(p, Synchronize([endpoint[p] EXCEPT !.udp = TRUE], random),
                network)
    /\ UNCHANGED <<next_frame, seen>>

Receive(p, mail) ==
    /\ Attached(p) /\ Listening(p)
    /\ mail \in network /\ mail.to = p
    /\ \E random \in Randoms, rest \in {network, network \ {mail}} :
        Becomes(p, OnMsg(endpoint[p], mail.msg, random), rest)
    /\ UNCHANGED <<next_frame, seen>>

Lose(mail) ==
    /\ mail \in network
    /\ network' = network \ {mail}
    /\ UNCHANGED <<endpoint, next_frame, seen>>

Poll(p) ==
    /\ Attached(p) /\ Listening(p)
    /\ \E due \in SUBSET Due, random \in Randoms :
        Becomes(p, OnLoopPoll(endpoint[p], due, random), network)
    /\ UNCHANGED <<next_frame, seen>>

\* The backend takes input once one of its endpoints is synchronized, so this
\* one may still be on its way when there are others.
AddLocalInput(p) ==
    /\ Attached(p)
    /\ p \in Active
    /\ next_frame[p] < FrameCap
    /\ \E bits \in Bits :
        Becomes(p, SendInput(endpoint[p],
                             [frame |-> next_frame[p], bits |-> bits]),
                network)
    /\ next_frame' = [next_frame EXCEPT ![p] = @ + 1]
    /\ UNCHANGED seen

\* At any moment: the backend disconnects a spectator when it is told that the
\* connection ended, and a player when the application asks for it.
DisconnectPlayer(p) ==
    /\ Attached(p)
    /\ endpoint[p].state # "Disconnected"
    /\ Becomes(p, Disconnect(endpoint[p]), network)
    /\ UNCHANGED <<next_frame, seen>>

Told(was, event) ==
    CASE event = "Connected"     -> [was EXCEPT !.stage = "connected"]
      [] event = "Synchronizing" -> was
      [] event = "Synchronized"  -> [was EXCEPT !.stage = "synchronized"]
      [] event = "Interrupted"   -> [was EXCEPT !.interrupted = TRUE]
      [] event = "Resumed"       -> [was EXCEPT !.interrupted = FALSE]
      [] event = "Disconnected"  -> [was EXCEPT !.disconnected = TRUE]

GetEvent(p) ==
    /\ Alive(p)
    /\ endpoint[p].event_queue # <<>>
    /\ endpoint' = [endpoint EXCEPT ![p].event_queue = Tail(@)]
    /\ seen' = [seen EXCEPT ![p] =
            [Told(seen[p], Head(endpoint[p].event_queue))
                EXCEPT !.parity = 1 - seen[p].parity]]
    /\ UNCHANGED <<network, next_frame>>

Tick ==
    /\ endpoint' = [p \in Peers |-> IF p \in Active /\ Attached(p)
                                    THEN Age(endpoint[p]) ELSE endpoint[p]]
    /\ UNCHANGED <<network, next_frame, seen>>

Deliver == \E p \in Peers : \E mail \in network : Receive(p, mail)

Otherwise ==
    \/ \E p \in Peers :
        \/ AddRemotePlayer(p) \/ Poll(p) \/ AddLocalInput(p)
        \/ DisconnectPlayer(p) \/ GetEvent(p)
    \/ \E mail \in network : Lose(mail)
    \/ Tick

Next == Deliver \/ Otherwise

Spec == Init /\ [][Next]_vars

-----------------------------------------------------------------------------
(* Fairness.  The game loop polls, takes the events, and time passes.  The *)
(* network may lose any message, but not keep a duplicate forever, and if  *)
(* a request with the current random number, or its reply, is on its way   *)
(* again and again, one of them arrives before the next retry.  The calls  *)
(* that send wait for room in the network, which the code does not, hence  *)
(* their strong fairness.                                                  *)

Fresh(mail, p) == IsSync(mail.msg) /\ mail.msg.body.random = endpoint[p].random

ReceiveRequest(p) ==
    \E mail \in network :
        /\ mail.msg.body.type = "SyncRequest"
        /\ Fresh(mail, Other(p))
        /\ Receive(p, mail)

ReceiveReply(p) ==
    \E mail \in network :
        /\ mail.msg.body.type = "SyncReply"
        /\ Fresh(mail, p)
        /\ Receive(p, mail)

Fairness(p) ==
    /\ SF_vars(AddRemotePlayer(p))
    /\ SF_vars(Poll(p))
    /\ WF_vars(GetEvent(p))
    /\ WF_vars(Tick)
    /\ WF_vars(\E mail \in network : mail.to = p /\ Lose(mail))
    /\ SF_vars(ReceiveRequest(p))
    /\ SF_vars(ReceiveReply(p))

FairSpec == Spec /\ \A p \in Peers : Fairness(p)

-----------------------------------------------------------------------------
(* Properties *)

TypeOK ==
    /\ endpoint \in [Peers -> Endpoints]
    /\ \A mail \in network : mail.to \in Peers /\ mail.msg \in Messages
    /\ next_frame \in [Peers -> Nat]
    /\ \A p \in Peers : endpoint[p].outbox = <<>>

(***************************************************************************)
(* The inputs that wait for an acknowledgement are those of consecutive    *)
(* frames, they begin where the acknowledged ones end, and while the       *)
(* endpoint runs they end with the last frame the game sent: no message,   *)
(* late or duplicated, makes the endpoint forget one in between.  This is  *)
(* what send_pending_output asserts of the first (366-369).                *)
(***************************************************************************)
PendingOutputIsContiguous ==
    \A p \in Peers :
        LET pending == endpoint[p].pending_output IN
        /\ FollowsAcked(endpoint[p])
        /\ \A i \in 1 .. Len(pending) :
                pending[i].frame = pending[1].frame + i - 1
        /\ endpoint[p].state = "Running" /\ pending # <<>> =>
                pending[Len(pending)].frame = next_frame[p] - 1

(***************************************************************************)
(* An endpoint fails no assertion but the one on the size of the encoded   *)
(* inputs, and those that its build adds: the overflow checks of a debug   *)
(* build, the division of the statistics when they are logged.  In         *)
(* particular it never sends a keep-alive message, which log_msg could not *)
(* name, as the resending of the pending output always comes first (485,   *)
(* 532), and it never counts its round trips below 0 (823).                *)
(***************************************************************************)
BuildFailures ==
    (IF OverflowChecks
     THEN {"send sequence overflow", "receive sequence underflow"} ELSE {})
    \cup (IF InfoLogging THEN {"statistics over no time"} ELSE {})

OnlyTheseAssertionsFail ==
    \A p \in Peers :
        endpoint[p].panic \in
            {NoPanic, "too many compressed bits"} \cup BuildFailures

(***************************************************************************)
(* When more than one round trip is asked for (five are, 31), no endpoint  *)
(* ever runs and no backend is told that it synchronized, whatever the     *)
(* network delivers: roundtrips_remaining is read (823) and never written. *)
(***************************************************************************)
LongHandshakesNeverEnd ==
    NumSyncPackets > 1 =>
        \A p \in Peers :
            /\ endpoint[p].state # "Running"
            /\ seen[p].stage # "synchronized"

(***************************************************************************)
(* No game is long.  Of the inputs pending, those from DefaultAckFrame on  *)
(* are never acknowledged, and each takes a bit of the next message, so    *)
(* once any was acknowledged the game of a running endpoint is less than   *)
(* MaxCompressedBits frames past DefaultAckFrame; until then, it is less   *)
(* than that past the first pending one.  The next input fails the         *)
(* assertion on the encoded size (407).                                    *)
(***************************************************************************)
GamesAreShort ==
    \A p \in Peers :
        LET pending == endpoint[p].pending_output IN
        Alive(p) /\ endpoint[p].state = "Running" =>
            /\ endpoint[p].last_acked_input.frame # NoFrame =>
                    next_frame[p] < DefaultAckFrame + MaxCompressedBits
            /\ pending # <<>> =>
                    next_frame[p] < pending[1].frame + MaxCompressedBits

(***************************************************************************)
(* While a running endpoint counts as interrupted, it has heard nothing    *)
(* for longer than the notification takes: every message that it handles   *)
(* ends the interruption, and a message it does not handle never ends the  *)
(* silence.                                                                *)
(***************************************************************************)
InterruptionsAreSilences ==
    \A p \in Peers :
        endpoint[p].state = "Running" /\ endpoint[p].disconnect_notify_sent =>
            endpoint[p].silent > DisconnectNotifyStart

(***************************************************************************)
(* Once disconnect was called, the endpoint queues no event any more,      *)
(* whatever arrives or expires.                                            *)
(***************************************************************************)
NoEventAfterDisconnect ==
    [][\A p \in Peers :
            endpoint[p].state = "Disconnected" =>
                Len(endpoint'[p].event_queue) <= Len(endpoint[p].event_queue)]_vars

(***************************************************************************)
(* The backend is told of a connection that timed out only when it was     *)
(* told of its interruption: the Disconnected event is queued either on a  *)
(* message or after the notification.                                      *)
(***************************************************************************)
TimeoutIsAnnounced ==
    [][\A p \in Peers :
            endpoint'[p].disconnect_event_sent
                # endpoint[p].disconnect_event_sent =>
            \/ endpoint'[p].silent = 0
            \/ endpoint'[p].disconnect_notify_sent]_vars

(***************************************************************************)
(* The events that the backend of each peer gets are those of              *)
(* EndpointEvents.                                                         *)
(***************************************************************************)
EventsAreInOrder == Stream!Spec

Over(p) == endpoint[p].state = "Disconnected" \/ ~Alive(p)

(***************************************************************************)
(* p2p.rs 499-501: "Check to see if everyone is now synchronized.  If so,  *)
(* go ahead and tell the client that we're ok to accept input": an         *)
(* endpoint that synchronizes is synchronized in the end, unless one of    *)
(* the two gives up.                                                       *)
(***************************************************************************)
HandshakeCompletes ==
    \A p \in Peers :
        endpoint[p].state = "Syncing" ~>
            \/ endpoint[p].state = "Running"
            \/ Over(p) \/ Over(Other(p))

(***************************************************************************)
(* When the peer of a running endpoint is gone, its backend is told that   *)
(* the connection ended.                                                   *)
(***************************************************************************)
Gone(p) == ~Alive(p) \/ (endpoint[p].state # "Starting" /\ ~endpoint[p].udp)
LossIsReported ==
    \A p \in Peers :
        endpoint[p].state = "Running" /\ Gone(Other(p)) ~>
            \/ endpoint[p].disconnect_event_sent /\ endpoint[p].event_queue = <<>>
            \/ Over(p)

(***************************************************************************)
(* udp_proto.rs 852: "If a disconnect is requested, go ahead and     *)
(* disconnect now": an endpoint whose peer did not disconnect              *)
(* is told so only after a silence.                                        *)
(***************************************************************************)
DisconnectWasRequested ==
    \A p \in Peers :
        endpoint[p].disconnect_event_sent =>
            \/ Over(Other(p))
            \/ endpoint[p].disconnect_notify_sent
=============================================================================
