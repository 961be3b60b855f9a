---------------------------- MODULE TimeSyncSpec ----------------------------
(***************************************************************************)
(* Rift synchronization as one running endpoint does it                    *)
(* (src/ggpo/src/network/udp_proto.rs): round trips are measured by the    *)
(* quality reports, the poll tells the endpoint the frame its game is at,  *)
(* and every input sent records the frame advantage of that moment.        *)
(*                                                                         *)
(* Nothing else of the peer enters: remote_frame_advantage keeps its 0,    *)
(* since on_quality_report does not read the report's, and                 *)
(* last_received_input keeps its None, since no message carries bits       *)
(* (see UdpProto).                                                         *)
(***************************************************************************)
EXTENDS TimeSync, Sequences

CONSTANTS
    RoundTrips,     \* the round trip times, in frames: milliseconds * 60 / 1000
    MaxFrame        \* bound: the last frame of the game

\* They are computed in integers of the machine, so one of them is the longest.
ASSUME RoundTripsAssumption ==
    /\ RoundTrips \subseteq Nat
    /\ \E t \in RoundTrips : \A u \in RoundTrips : u <= t
    /\ MaxFrame \in Nat

VARIABLES
    timesync,               \* the TimeSync record
    round_trip_time,        \* of the last quality reply, 0 before the first
    local_frame_advantage,
    frame,                  \* the frame the game sends input for next
    recent                  \* history: the newest advantages, oldest first

vars == <<timesync, round_trip_time, local_frame_advantage, frame, recent>>

Init ==
    /\ timesync = NewTimeSync
    /\ round_trip_time = 0
    /\ local_frame_advantage = 0
    /\ frame = 0
    /\ recent = <<>>

RemoteFrameAdvantage == 0
LastReceivedFrame == 0      \* None.unwrap_or(0)

AdvantageAt(local_frame) == LastReceivedFrame + round_trip_time - local_frame

Newest(seq) ==
    IF Len(seq) > FrameWindowSize THEN Tail(seq) ELSE seq

-----------------------------------------------------------------------------

OnQualityReply ==
    /\ round_trip_time' \in RoundTrips
    /\ UNCHANGED <<timesync, local_frame_advantage, frame, recent>>

\* set_local_frame_number, in any poll.
SetLocalFrameNumber ==
    /\ local_frame_advantage' = AdvantageAt(frame)
    /\ UNCHANGED <<timesync, round_trip_time, frame, recent>>

\* send_input for this frame, then increment_frame, which polls.
SendInput ==
    /\ frame < MaxFrame
    /\ \E bits \in Bits :
        timesync' = AdvanceFrame(timesync, [frame |-> frame, bits |-> bits],
                                 local_frame_advantage, RemoteFrameAdvantage)
    /\ recent' = Newest(Append(recent, local_frame_advantage))
    /\ frame' = frame + 1
    /\ local_frame_advantage' = AdvantageAt(frame + 1)
    /\ UNCHANGED round_trip_time

Next == OnQualityReply \/ SetLocalFrameNumber \/ SendInput

Spec == Init /\ [][Next]_vars

-----------------------------------------------------------------------------
(* Properties *)

TypeOK ==
    /\ timesync \in TimeSyncs
    /\ round_trip_time \in Nat
    /\ local_frame_advantage \in Int
    /\ frame \in Nat
    /\ recent \in Seq(Int)

(***************************************************************************)
(* However often the ring wrapped, it holds the advantages of the newest   *)
(* frames, each at its place, and zeros for frames not played yet.         *)
(***************************************************************************)
WindowHoldsTheNewest ==
    /\ Len(recent) = IF frame < FrameWindowSize THEN frame ELSE FrameWindowSize
    /\ \A i \in 1 .. Len(recent) :
        timesync.local[(frame - i) % FrameWindowSize] =
            recent[Len(recent) + 1 - i]
    /\ \A i \in frame .. FrameWindowSize - 1 : timesync.local[i] = 0

(***************************************************************************)
(* The wait recommended is half the mean lead over the window to the       *)
(* nearest frame: none for less than MinFrameAdvantage, and no more than   *)
(* MaxFrameAdvantage.  The mean lead is that of the newest advantages,     *)
(* counting frames not played as 0.                                        *)
(***************************************************************************)
LeadOver(advantages) ==
    Total([i \in 0 .. Len(advantages) - 1 |-> -advantages[i + 1]],
          Len(advantages))
Lead == LeadOver(recent)

IsHalfOf(wait, lead) ==
    /\ lead >= FrameWindowSize * (2 * wait - 1)
    /\ lead < FrameWindowSize * (2 * wait + 1)

WaitIsHalfTheLead ==
    LET wait == RecommendFrameWaitDuration(timesync, FALSE) IN
    \/ wait = 0 /\ Lead < FrameWindowSize * (2 * MinFrameAdvantage - 1)
    \/ wait \in MinFrameAdvantage .. MaxFrameAdvantage /\ IsHalfOf(wait, Lead)
    \/ /\ wait = MaxFrameAdvantage
       /\ Lead >= FrameWindowSize * (2 * MaxFrameAdvantage - 1)

(***************************************************************************)
(* Every game that goes on for long enough is told to wait as long as can  *)
(* be, however far ahead its peer is: the advantage is computed from its   *)
(* own frame number only (1105, 1111).  So both peers of a session are     *)
(* told so, each of which time_sync.rs 73 takes to agree with the other.   *)
(***************************************************************************)
LongestTrip == CHOOSE t \in RoundTrips : \A u \in RoundTrips : u <= t
LongGame == LongestTrip + 2 * MaxFrameAdvantage + FrameWindowSize

LongGamesAreToldToWait ==
    frame >= LongGame =>
        RecommendFrameWaitDuration(timesync, FALSE) = MaxFrameAdvantage

(***************************************************************************)
(* If the recommendation is made to depend on idle input, a player who     *)
(* holds his controls still is never told to wait: equal is inverted       *)
(* (game_input.rs 107).                                                    *)
(***************************************************************************)
StillPlayersAreNotIdle ==
    (\A i \in 0 .. MinUniqueFrames - 1 :
        timesync.last_inputs[i].bits = timesync.last_inputs[0].bits) =>
    RecommendFrameWaitDuration(timesync, TRUE) = 0
=============================================================================
