------------------------------ MODULE UdpProto ------------------------------
(***************************************************************************)
(* One endpoint of the peer-to-peer protocol: the struct UdpProtocol of    *)
(* src/ggpo/src/network/udp_proto.rs and the messages of udp_msg.rs.       *)
(*                                                                         *)
(* An endpoint is a record; a method is an operator that returns the       *)
(* endpoint it leaves behind.  The messages it sent are in `outbox`, for   *)
(* the network to take, and `panic` names the assertion that ended it.     *)
(*                                                                         *)
(* The clock readings are ages in ticks: `silent` since last_recv_time,    *)
(* `idle` since last_send_time and `unresent` since                        *)
(* last_input_packet_recv_time.  An interval has passed when the age is    *)
(* greater, so an age is counted no further than one past its intervals.   *)
(*                                                                         *)
(* Left out: the send queue, which delays and reorders as the network does *)
(* and no more (SendQueueSpec); timesync, which the protocol feeds and     *)
(* never reads (TimeSyncSpec); the statistics, but for the division that   *)
(* fails; send_input_ack, which nothing calls.  What on_input does with a  *)
(* message that requests no disconnect or that carries bits is left out    *)
(* too: send_pending_output fills in a copy of its message and sends the   *)
(* default one, so there is no such message.                               *)
(***************************************************************************)
EXTENDS Integers, Sequences

CONSTANTS
    Bits,                   \* the input matrices
    Zero,                   \* the matrix of a default GameInput, not in Bits
    Randoms,                \* the values of random_request
    NumSyncPackets,         \* NUM_SYNC_PACKETS, 5 in the code
    SeqMod,                 \* 2^16: sequence numbers are u16
    MaxSeqDistance,         \* MAX_SEQ_DISTANCE, 2^15
    DefaultAckFrame,        \* the ack_frame of a new Input message, 31
    MaxCompressedBits,      \* MAX_COMPRESSED_BITS, 4096
    ChangedInputBits,       \* what encoding a changed input adds to its 1 bit
    SyncRetryInterval,      \* SYNC_FIRST_RETRY_INTERVAL, 500 ms, in ticks
    RunningRetryInterval,   \* RUNNING_RETRY_INTERVAL, 200 ms
    NetworkStatsInterval,   \* NETWORK_STATS_INTERVAL, 1000 ms
    DisconnectNotifyStart,  \* DEFAULT_DISCONNECT_NOTIFY_START, 750 ms
    DisconnectTimeout,      \* DEFAULT_DISCONNECT_TIMEOUT, 5000 ms
    OverflowChecks,         \* TRUE in a debug build
    InfoLogging             \* TRUE when the arguments of info! are evaluated

ASSUME UdpAssumption ==
    /\ Zero \notin Bits
    /\ Randoms # {}
    /\ NumSyncPackets \in Nat \ {0}
    /\ SeqMod \in Nat \ {0}
    /\ MaxSeqDistance \in 0 .. SeqMod - 1
    /\ DefaultAckFrame \in Nat
    /\ MaxCompressedBits \in Nat \ {0}
    /\ ChangedInputBits \in Nat
    /\ DisconnectNotifyStart \in Nat /\ DisconnectTimeout \in Nat
    /\ DisconnectNotifyStart <= DisconnectTimeout
    /\ RunningRetryInterval \in Nat /\ NetworkStatsInterval \in Nat
    /\ RunningRetryInterval <= NetworkStatsInterval
    /\ SyncRetryInterval \in Nat
    /\ OverflowChecks \in BOOLEAN
    /\ InfoLogging \in BOOLEAN

NoFrame == -1
SilentAges == 0 .. DisconnectTimeout + 1
IdleAges ==
    0 .. (IF SyncRetryInterval > NetworkStatsInterval
          THEN SyncRetryInterval ELSE NetworkStatsInterval) + 1
UnresentAges == 0 .. RunningRetryInterval + 1

Older(age, ages) == IF age + 1 \in ages THEN age + 1 ELSE age
LongAgo == RunningRetryInterval + 1

States == {"Starting", "Syncing", "Synchronized", "Running", "Disconnected"}
Events == {"Connected", "Synchronizing", "Synchronized",
           "Interrupted", "Resumed", "Disconnected"}

NoPanic == "no panic"
Panics ==
    {NoPanic,
     "pending output does not follow the acknowledged input",
     "too many compressed bits",
     "send sequence overflow",
     "receive sequence underflow",
     "unknown message logged",
     "statistics over no time",
     "no round trips remaining"}

PendingInputs == [frame : Nat, bits : Bits]
AckedInputs == [frame : Nat \cup {NoFrame}, bits : Bits \cup {Zero}]

Bodies ==
    [type : {"SyncRequest", "SyncReply"}, random : Randoms]
        \cup [type : {"Input", "QualityReport", "QualityReply", "KeepAlive"}]
Messages == [magic : Nat, seq : 0 .. SeqMod - 1, body : Bodies]

Endpoints ==
    [udp : BOOLEAN, magic_number : Nat, remote_magic_number : Nat,
     state : States, roundtrips_remaining : 0 .. NumSyncPackets,
     random : Randoms, connected : BOOLEAN,
     next_send_seq : 0 .. SeqMod - 1, next_recv_seq : 0 .. SeqMod - 1,
     pending_output : Seq(PendingInputs), last_acked_input : AckedInputs,
     silent : SilentAges, idle : IdleAges, unresent : UnresentAges,
     disconnect_notify_sent : BOOLEAN, disconnect_event_sent : BOOLEAN,
     event_queue : Seq(Events), outbox : Seq(Messages), panic : Panics]

\* `new`, then the part of `init` that gives the endpoint its magic number.
NewEndpoint(magic, random) ==
    [udp |-> FALSE, magic_number |-> magic, remote_magic_number |-> 0,
     state |-> "Starting", roundtrips_remaining |-> 0,
     random |-> random, connected |-> FALSE,
     next_send_seq |-> 0, next_recv_seq |-> 0,
     pending_output |-> <<>>,
     last_acked_input |-> [frame |-> NoFrame, bits |-> Zero],
     silent |-> 0, idle |-> 0, unresent |-> LongAgo,
     disconnect_notify_sent |-> FALSE, disconnect_event_sent |-> FALSE,
     event_queue |-> <<>>, outbox |-> <<>>, panic |-> NoPanic]

Fail(e, assertion) ==
    IF e.panic = NoPanic THEN [e EXCEPT !.panic = assertion] ELSE e

QueueEvent(e, event) == [e EXCEPT !.event_queue = Append(@, event)]

-----------------------------------------------------------------------------
(* Sending *)

\* send_msg logs the message first: a keep-alive message holds MsgEnum::None,
\* which log_msg takes to be unreachable.
SendMsg(e, body) ==
    IF body.type = "KeepAlive" THEN Fail(e, "unknown message logged")
    ELSE IF OverflowChecks /\ e.next_send_seq + 1 = SeqMod
    THEN Fail(e, "send sequence overflow")
    ELSE LET seq == (e.next_send_seq + 1) % SeqMod IN
         [e EXCEPT !.next_send_seq = seq,
                   !.idle = 0,
                   !.outbox = Append(@, [magic |-> e.magic_number,
                                         seq |-> seq, body |-> body])]

\* Mutant: the random number drawn is not remembered.
SendSyncRequestForgetting(e, random) ==
    IF e.state = "Syncing"
    THEN SendMsg(e, [type |-> "SyncRequest", random |-> random])
    ELSE e

SendSyncRequest(e, random) ==
    IF e.state = "Syncing"
    THEN SendMsg([e EXCEPT !.random = random],
                 [type |-> "SyncRequest", random |-> random])
    ELSE e

\* Mutant: one round trip too many.
SynchronizeOneMore(e, random) ==
    SendSyncRequest([e EXCEPT !.state = "Syncing",
                              !.roundtrips_remaining = NumSyncPackets + 1],
                    random)

Synchronize(e, random) ==
    SendSyncRequest([e EXCEPT !.state = "Syncing",
                              !.roundtrips_remaining = NumSyncPackets],
                    random)

\* Mutant: an input that did not change takes no bit.
EncodedBitsOfChanges(e) ==
    LET inputs == <<e.last_acked_input>> \o e.pending_output
        upTo[n \in Nat] ==
            IF n <= 1 THEN 0
            ELSE upTo[n - 1]
                 + (IF inputs[n].bits = inputs[n - 1].bits
                    THEN 0 ELSE 1 + ChangedInputBits)
    IN upTo[Len(inputs)]

\* The bits the pending inputs take, each encoded as its change from the last.
EncodedBits(e) ==
    LET inputs == <<e.last_acked_input>> \o e.pending_output
        upTo[n \in Nat] ==
            IF n <= 1 THEN 0
            ELSE upTo[n - 1] + 1
                 + (IF inputs[n].bits = inputs[n - 1].bits
                    THEN 0 ELSE ChangedInputBits)
    IN upTo[Len(inputs)]

FollowsAcked(e) ==
    \/ e.pending_output = <<>>
    \/ e.last_acked_input.frame = NoFrame
    \/ e.pending_output[1].frame = e.last_acked_input.frame + 1

SendPendingOutput(e) ==
    IF ~FollowsAcked(e)
    THEN Fail(e, "pending output does not follow the acknowledged input")
    ELSE IF EncodedBits(e) >= MaxCompressedBits
    THEN Fail(e, "too many compressed bits")
    ELSE SendMsg(e, [type |-> "Input"])

SendInput(e, input) ==
    SendPendingOutput(IF e.state = "Running"
                      THEN [e EXCEPT !.pending_output = Append(@, input)]
                      ELSE e)

-----------------------------------------------------------------------------
(* Receiving *)

Handled(e) == [endpoint |-> e, handled |-> TRUE]
Ignored(e) == [endpoint |-> e, handled |-> FALSE]

OnSyncRequest(e, msg) ==
    IF e.remote_magic_number # 0 /\ msg.magic # e.remote_magic_number
    THEN Ignored(e)
    ELSE Handled(SendMsg(e, [type |-> "SyncReply",
                             random |-> msg.body.random]))

NoteConnected(e) ==
    IF e.connected THEN e
    ELSE QueueEvent([e EXCEPT !.connected = TRUE], "Connected")

\* on_sync_reply reads roundtrips_remaining and never writes it.
OnSyncReply(e, msg, random) ==
    IF e.state # "Syncing"
    THEN [endpoint |-> e, handled |-> msg.magic = e.remote_magic_number]
    ELSE IF msg.body.random # e.random THEN Ignored(e)
    ELSE LET c == NoteConnected(e) IN
         IF OverflowChecks /\ e.roundtrips_remaining = 0
         THEN Handled(Fail(c, "no round trips remaining"))
         ELSE IF e.roundtrips_remaining = 1
         THEN Handled(QueueEvent([c EXCEPT !.state = "Running",
                                           !.unresent = LongAgo,
                                           !.remote_magic_number = msg.magic],
                                 "Synchronized"))
         ELSE Handled(SendSyncRequest(QueueEvent(c, "Synchronizing"), random))

\* Inputs are thrown away from the front while they are older than the ack.
Acknowledged(pending, ack) ==
    CHOOSE n \in 0 .. Len(pending) :
        /\ \A i \in 1 .. n : pending[i].frame < ack
        /\ n < Len(pending) => pending[n + 1].frame >= ack

\* Mutant: the frame of the acknowledgement is remembered, not the input's.
DropAckedAtAck(e, ack) ==
    LET n == Acknowledged(e.pending_output, ack) IN
    [e EXCEPT !.pending_output = SubSeq(@, n + 1, Len(@)),
              !.last_acked_input.frame = IF n = 0 THEN @ ELSE ack]

DropAcked(e, ack) ==
    LET n == Acknowledged(e.pending_output, ack) IN
    [e EXCEPT !.pending_output = SubSeq(@, n + 1, Len(@)),
              !.last_acked_input = IF n = 0 THEN @ ELSE e.pending_output[n]]

\* Mutant: the state is not consulted.
RequestedDisconnectInAnyState(e) ==
    IF e.disconnect_event_sent THEN e
    ELSE QueueEvent([e EXCEPT !.disconnect_event_sent = TRUE], "Disconnected")

RequestedDisconnect(e) ==
    IF e.state = "Disconnected" \/ e.disconnect_event_sent THEN e
    ELSE QueueEvent([e EXCEPT !.disconnect_event_sent = TRUE], "Disconnected")

OnInput(e) == Handled(DropAcked(RequestedDisconnect(e), DefaultAckFrame))

OnQualityReport(e) == Handled(SendMsg(e, [type |-> "QualityReply"]))

IsSync(msg) == msg.body.type \in {"SyncRequest", "SyncReply"}

\* How far msg is ahead of the newest message, in u16 arithmetic.
Skipped(e, msg) == (msg.seq - e.next_recv_seq) % SeqMod

Filtered(e, msg) ==
    /\ ~IsSync(msg)
    /\ \/ msg.magic # e.remote_magic_number
       \/ Skipped(e, msg) > MaxSeqDistance

Dispatch(e, msg, random) ==
    CASE msg.body.type = "SyncRequest"   -> OnSyncRequest(e, msg)
      [] msg.body.type = "SyncReply"     -> OnSyncReply(e, msg, random)
      [] msg.body.type = "Input"         -> OnInput(e)
      [] msg.body.type = "QualityReport" -> OnQualityReport(e)
      [] msg.body.type = "QualityReply"  -> Handled(e)
      [] msg.body.type = "KeepAlive"     ->
            Ignored(Fail(e, "unknown message logged"))

\* Mutant: the end of an interruption is not remembered.
NoteHeardStillNotified(e) ==
    IF e.state = "Running" /\ e.disconnect_notify_sent
    THEN QueueEvent([e EXCEPT !.silent = 0], "Resumed")
    ELSE [e EXCEPT !.silent = 0]

NoteHeard(e) ==
    IF e.state = "Running" /\ e.disconnect_notify_sent
    THEN QueueEvent([e EXCEPT !.silent = 0,
                              !.disconnect_notify_sent = FALSE], "Resumed")
    ELSE [e EXCEPT !.silent = 0]

\* random is what a sync request sent in answer draws.
OnMsg(e, msg, random) ==
    IF /\ OverflowChecks /\ ~IsSync(msg)
       /\ msg.magic = e.remote_magic_number /\ msg.seq < e.next_recv_seq
    THEN Fail(e, "receive sequence underflow")
    ELSE IF Filtered(e, msg) THEN e
    ELSE LET got == Dispatch([e EXCEPT !.next_recv_seq = msg.seq], msg, random)
         IN IF got.handled THEN NoteHeard(got.endpoint) ELSE got.endpoint

-----------------------------------------------------------------------------
(* The poll.  `due` says which of the timers that keep no age have expired: *)
(* the quality report, the statistics, the shutdown.                        *)

\* Mutant: nothing is sent when no input is pending.
ResendWhenPending(e) ==
    IF e.unresent > RunningRetryInterval
    THEN IF e.pending_output = <<>> THEN [e EXCEPT !.unresent = 0]
         ELSE [SendPendingOutput(e) EXCEPT !.unresent = 0]
    ELSE e

Resend(e) ==
    IF e.unresent > RunningRetryInterval
    THEN [SendPendingOutput(e) EXCEPT !.unresent = 0] ELSE e

ReportQuality(e, due) ==
    IF "quality" \in due THEN SendMsg(e, [type |-> "QualityReport"]) ELSE e

\* The first call divides by the time since itself, when info! is evaluated.
UpdateNetworkStats(e, due) ==
    IF "stats" \in due /\ InfoLogging
    THEN Fail(e, "statistics over no time") ELSE e

KeepAlive(e) ==
    IF e.idle > NetworkStatsInterval
    THEN SendMsg(e, [type |-> "KeepAlive"]) ELSE e

\* Mutant: no notification when the time is up already.
NotifyInTime(e) ==
    IF /\ e.silent > DisconnectNotifyStart /\ e.silent <= DisconnectTimeout
       /\ ~e.disconnect_notify_sent
    THEN QueueEvent([e EXCEPT !.disconnect_notify_sent = TRUE], "Interrupted")
    ELSE e

Notify(e) ==
    IF e.silent > DisconnectNotifyStart /\ ~e.disconnect_notify_sent
    THEN QueueEvent([e EXCEPT !.disconnect_notify_sent = TRUE], "Interrupted")
    ELSE e

\* Mutant: an endpoint that told of the interruption leaves it at that.
TimeOutUnlessNotified(e) ==
    IF /\ e.silent > DisconnectTimeout
       /\ ~e.disconnect_event_sent /\ ~e.disconnect_notify_sent
    THEN QueueEvent([e EXCEPT !.disconnect_event_sent = TRUE], "Disconnected")
    ELSE e

TimeOut(e) ==
    IF e.silent > DisconnectTimeout /\ ~e.disconnect_event_sent
    THEN QueueEvent([e EXCEPT !.disconnect_event_sent = TRUE], "Disconnected")
    ELSE e

PollRunning(e, due) ==
    TimeOut(Notify(KeepAlive(
        UpdateNetworkStats(ReportQuality(Resend(e), due), due))))

PollSyncing(e, random) ==
    IF e.idle > SyncRetryInterval THEN SendSyncRequest(e, random) ELSE e

OnLoopPoll(e, due, random) ==
    CASE e.state = "Syncing"      -> PollSyncing(e, random)
      [] e.state = "Running"      -> PollRunning(e, due)
      [] e.state = "Disconnected" ->
            IF "shutdown" \in due THEN [e EXCEPT !.udp = FALSE] ELSE e
      [] OTHER                    -> e

Disconnect(e) == [e EXCEPT !.state = "Disconnected"]

\* The clock moves on.
Age(e) == [e EXCEPT !.silent = Older(@, SilentAges),
                    !.idle = Older(@, IdleAges),
                    !.unresent = Older(@, UnresentAges)]
=============================================================================
