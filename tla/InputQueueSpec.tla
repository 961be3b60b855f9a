--------------------------- MODULE InputQueueSpec ---------------------------
(***************************************************************************)
(* One input queue under the calls the synchronisation layer makes:        *)
(*   sync.rs add_local_input, add_remote_input -> add_input                *)
(*   sync.rs synchronize_inputs                -> get_input                *)
(*   sync.rs set_last_confirmed_frame          -> discard_confirmed_frames *)
(*   sync.rs adjust_simulation                 -> reset_prediction, then   *)
(*                                                the frames are replayed  *)
(* of a session with two players (GAMEINPUT_MAX_PLAYERS): at most one      *)
(* queue, the remote player's, ever predicts, so a rollback never goes     *)
(* past the newest input of a queue.                                       *)
(*                                                                         *)
(* The caller is the one sync.rs and p2p.rs are written for: the game asks *)
(* for each frame once, then advances; inputs arrive, errors are looked    *)
(* for and frames are confirmed in the poll between two frames; the        *)
(* prediction barrier of add_local_input bounds how far the game runs      *)
(* ahead of the confirmed frame, and the remote player, who has a barrier  *)
(* too, how far his inputs run ahead of the game.                          *)
(*                                                                         *)
(* sync.rs as it stands does not get this far: its queue vector is never   *)
(* filled (170) and the assertion of its load_frame never holds (525).     *)
(* This module takes a rollback as adjust_simulation states it, with a     *)
(* load_frame that returns; what it shows is about input_queue.rs.         *)
(***************************************************************************)
EXTENDS InputQueue, Sequences

CONSTANTS
    MaxPrediction,      \* num_prediction_frames of the session
    MaxLead             \* how many frames a remote input may be early

ASSUME CallerAssumption ==
    /\ MaxPrediction \in Nat
    /\ MaxLead \in Nat
    /\ MaxPrediction + MaxLead + 1 <= QLen

VARIABLES
    queue,                  \* the InputQueue record
    frame_count,            \* GGPOSync.frame_count
    last_confirmed_frame,   \* GGPOSync.last_confirmed_frame
    replay_to,              \* the frame a rollback replays up to, or NoFrame
    panic,                  \* the assertion that ended the program
    log, answers            \* history: the inputs added, the answers given

callerVars == <<frame_count, last_confirmed_frame, replay_to>>
vars == <<queue, callerVars, panic, log, answers>>

History == INSTANCE InputHistory WITH reported <- queue.first_incorrect_frame

Init ==
    /\ queue = NewQueue
    /\ frame_count = 0
    /\ last_confirmed_frame = NoFrame
    /\ replay_to = NoFrame
    /\ panic = NoPanic
    /\ log = <<>>
    /\ answers = <<>>

LastAdded == Len(log) - 1
OldestKept == IF last_confirmed_frame > 0 THEN last_confirmed_frame ELSE 0
FramesBehind == frame_count - last_confirmed_frame

Running == panic = NoPanic
RollingBack == replay_to # NoFrame
FrameAnswered == Len(answers) = frame_count + 1
Polling == Running /\ ~RollingBack /\ ~FrameAnswered

\* add_local_input refuses a frame at the prediction barrier.
BarrierOpen == frame_count < MaxPrediction \/ FramesBehind < MaxPrediction

-----------------------------------------------------------------------------

AddNextInput(bits) ==
    LET added == AddInput(queue, [frame |-> Len(log), bits |-> bits]) IN
    /\ Polling
    /\ Len(log) <= frame_count + MaxLead
    /\ panic' = added.panic
    /\ IF added.panic = NoPanic
       THEN queue' = added.queue /\ log' = Append(log, bits)
       ELSE UNCHANGED <<queue, log>>
    /\ UNCHANGED <<callerVars, answers>>

SynchronizeInput ==
    LET got == GetInput(queue, frame_count) IN
    /\ Running
    /\ ~FrameAnswered
    /\ queue.first_incorrect_frame = NoFrame
    /\ RollingBack \/ BarrierOpen
    /\ panic' = got.panic
    /\ IF got.panic = NoPanic
       THEN /\ queue' = got.queue
            /\ answers' = Append(answers, [bits |-> got.bits,
                                           confirmed |-> got.confirmed])
       ELSE UNCHANGED <<queue, answers>>
    /\ UNCHANGED <<callerVars, log>>

IncrementFrame ==
    /\ Running
    /\ FrameAnswered
    /\ frame_count' = frame_count + 1
    /\ replay_to' = IF replay_to = frame_count + 1 THEN NoFrame ELSE replay_to
    /\ UNCHANGED <<queue, last_confirmed_frame, panic, log, answers>>

SetLastConfirmedFrame(frame) ==
    LET discarded == IF frame > 0 THEN DiscardConfirmedFrames(queue, frame - 1)
                                  ELSE Outcome(queue, NoPanic)
    IN
    /\ Polling
    /\ queue.first_incorrect_frame = NoFrame
    /\ frame >= last_confirmed_frame
    /\ frame <= LastAdded
    /\ frame <= frame_count
    /\ last_confirmed_frame' = frame
    /\ panic' = discarded.panic
    /\ queue' = IF discarded.panic = NoPanic THEN discarded.queue ELSE queue
    /\ UNCHANGED <<frame_count, replay_to, log, answers>>

\* The rollback is to this queue's own error, or to the other player's.
AdjustSimulation(seek_to) ==
    LET reset == ResetPrediction(queue, seek_to) IN
    /\ Polling
    /\ seek_to < frame_count
    /\ seek_to <= LastAdded
    /\ seek_to >= last_confirmed_frame
    /\ queue.first_incorrect_frame # NoFrame
          => seek_to <= queue.first_incorrect_frame
    /\ panic' = reset.panic
    /\ queue' = IF reset.panic = NoPanic THEN reset.queue ELSE queue
    /\ frame_count' = seek_to
    /\ replay_to' = frame_count
    /\ answers' = SubSeq(answers, 1, seek_to)
    /\ UNCHANGED <<last_confirmed_frame, log>>

Next ==
    \/ \E bits \in Bits : AddNextInput(bits)
    \/ SynchronizeInput
    \/ IncrementFrame
    \/ \E frame \in 0 .. LastAdded : SetLastConfirmedFrame(frame)
    \/ \E frame \in 0 .. frame_count : AdjustSimulation(frame)

Spec == Init /\ [][Next]_vars

-----------------------------------------------------------------------------
(* Properties *)

TypeOK ==
    /\ queue \in Queues
    /\ frame_count \in FrameNum
    /\ last_confirmed_frame \in Frame
    /\ replay_to \in Frame
    /\ panic \in Panics
    /\ log \in Seq(Bits)
    /\ answers \in Seq(History!Answer)

(***************************************************************************)
(* The ring holds exactly the newest QLen inputs, each in the slot that    *)
(* get_confirmed_input computes from its frame number, and head, tail and  *)
(* length frame the ones not yet discarded.                                *)
(***************************************************************************)
RingHoldsNewestInputs ==
    /\ queue.head = Len(log) % QLen
    /\ queue.last_added_frame = LastAdded
    /\ queue.tail = (Len(log) - queue.length) % QLen
    /\ \A f \in 0 .. LastAdded : f > LastAdded - QLen =>
            queue.inputs[f % QLen] = [frame |-> f, bits |-> log[f + 1]]
    /\ \A slot \in Slots : slot > LastAdded =>
            queue.inputs[slot] = NewInput

(***************************************************************************)
(* No input that a rollback may still ask for is discarded: the oldest     *)
(* input kept is the confirmed one, and errors lie after it.               *)
(***************************************************************************)
RollbackInputsKept ==
    /\ Len(log) - queue.length = OldestKept
    /\ OldestKept <= frame_count
    /\ queue.first_incorrect_frame # NoFrame =>
            OldestKept <= queue.first_incorrect_frame

(***************************************************************************)
(* get_confirmed_input never returns a wrong input: it finds every input   *)
(* that is not discarded and every one it finds is the one received.       *)
(***************************************************************************)
ConfirmedInputIsTheOneReceived ==
    \A f \in 0 .. frame_count + MaxLead + QLen :
        LET got == GetConfirmedInput(queue, f) IN
        /\ got.found => f <= LastAdded /\ got.bits = log[f + 1]
        /\ f <= LastAdded /\ f >= Len(log) - queue.length => got.found

(***************************************************************************)
(* While the game has been given answers for frames that have not arrived, *)
(* the queue predicts, the prediction is numbered with the next frame to   *)
(* arrive, and each of those answers was the prediction it still holds.    *)
(***************************************************************************)
PredictionIsWhatTheGameWasGiven ==
    \A f \in Len(log) .. Len(answers) - 1 :
        /\ ~answers[f + 1].confirmed
        /\ Predicting(queue)
        /\ queue.prediction.frame = Len(log)
        /\ queue.prediction.bits = answers[f + 1].bits

(***************************************************************************)
(* Every predicted frame whose input has arrived was judged: all of them   *)
(* before the first incorrect frame were accepted, and that one was not.   *)
(***************************************************************************)
EveryPredictionIsJudged ==
    \A f \in 0 .. LastAdded : History!PredictedFrame(f) =>
        /\ \/ queue.first_incorrect_frame = NoFrame
           \/ f < queue.first_incorrect_frame
           => History!Accepted(f, log[f + 1])
        /\ f = queue.first_incorrect_frame => ~History!Accepted(f, log[f + 1])

(***************************************************************************)
(* Of the assertions of the queue, the two that the synchronisation        *)
(* layer's calls can break: get_input when no input was ever added, and    *)
(* in a debug build discard_confirmed_frames for a frame that was          *)
(* discarded before.                                                       *)
(***************************************************************************)
OnlyTwoAssertionsFail ==
    \/ Running
    \/ panic = "nothing to predict from" /\ log = <<>>
    \/ panic = "discard before the tail" /\ OverflowChecks

(***************************************************************************)
(* A confirmed answer is the input received, and is never given for a      *)
(* frame that has not arrived.                                             *)
(***************************************************************************)
ConfirmedAnswersMatchTheLog ==
    \A f \in 0 .. Len(answers) - 1 : answers[f + 1].confirmed =>
        f <= LastAdded /\ answers[f + 1].bits = log[f + 1]

(***************************************************************************)
(* input_queue.rs 282-287: "See if the inputs we've gotten match what      *)
(* we've been predicting.  If so, don't worry about it.  If not, remember  *)
(* the first input which was incorrect": with no frame reported, every     *)
(* prediction whose input has arrived matched that input.                  *)
(***************************************************************************)
MispredictionsAreRemembered ==
    queue.first_incorrect_frame = NoFrame =>
        \A f \in 0 .. LastAdded : History!PredictedFrame(f) =>
            answers[f + 1].bits = log[f + 1]

(***************************************************************************)
(* input_queue.rs 201-205 and 211-215: "The requested frame isn't in the   *)
(* queue.  Bummer.  This means we need to return a prediction frame",      *)
(* based on "nothing, since we have no frames yet" when no input was ever  *)
(* added.                                                                  *)
(***************************************************************************)
PredictsBeforeTheFirstInput == panic # "nothing to predict from"

-----------------------------------------------------------------------------
(* The inductive invariant: the properties above and what they rest on.    *)

\* How far the game, its inputs and a replay run ahead of what is confirmed.
WithinTheBarrier ==
    /\ last_confirmed_frame <= LastAdded
    /\ last_confirmed_frame <= frame_count
    /\ Len(answers) \in {frame_count, frame_count + 1}
    /\ Len(answers) <= OldestKept + MaxPrediction
    /\ frame_count <= OldestKept + MaxPrediction
    /\ Len(log) <= OldestKept + MaxPrediction + MaxLead + 1
    /\ replay_to # NoFrame =>
            /\ frame_count < replay_to
            /\ replay_to <= OldestKept + MaxPrediction

\* The queue's idea of what was added and asked for is the history's.
QueueKnowsTheHistory ==
    /\ queue.first_frame = (log = <<>>)
    /\ queue.last_user_added_frame = LastAdded
    /\ queue.last_frame_requested # NoFrame =>
            queue.last_frame_requested = Len(answers) - 1
    /\ queue.last_frame_requested = NoFrame => Len(answers) <= Len(log)

\* The queue predicts while an answer is outstanding or an error unresolved.
PredictsWhenItShould ==
    /\ Predicting(queue) => /\ queue.prediction.frame = Len(log)
                            /\ log # <<>>
    /\ queue.first_incorrect_frame = NoFrame =>
            (Predicting(queue) <=> Len(answers) > Len(log))
    /\ queue.first_incorrect_frame # NoFrame =>
            /\ Predicting(queue)
            /\ queue.first_incorrect_frame <= LastAdded
            /\ queue.first_incorrect_frame < Len(answers)
            /\ replay_to = NoFrame

IInv ==
    /\ TypeOK
    /\ RingHoldsNewestInputs
    /\ RollbackInputsKept
    /\ WithinTheBarrier
    /\ QueueKnowsTheHistory
    /\ PredictsWhenItShould
    /\ PredictionIsWhatTheGameWasGiven
    /\ EveryPredictionIsJudged
    /\ ConfirmedAnswersMatchTheLog
    /\ OnlyTwoAssertionsFail

-----------------------------------------------------------------------------
(***************************************************************************)
(* The queue implements the input log: seen through the log, the answers   *)
(* and the reported frame, each of its steps is a step of InputHistory.    *)
(***************************************************************************)
ImplementsHistory == History!Spec
=============================================================================
