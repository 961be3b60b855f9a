----------------------------- MODULE InputQueue -----------------------------
(***************************************************************************)
(* The ring buffer of one player's inputs: src/ggpo/src/input_queue.rs.    *)
(*                                                                         *)
(* A queue is a record with the fields of the struct; a method is an       *)
(* operator that returns the queue it leaves behind and the assertion it   *)
(* failed, NoPanic when it returned normally.  The state of a queue after  *)
(* a failed assertion is never looked at: a panic ends the program.        *)
(*                                                                         *)
(* Left out: `_id`, and `frame_delay`, which set_frame_delay stores and    *)
(* nothing reads.                                                          *)
(***************************************************************************)
EXTENDS GameInput

CONSTANTS
    QLen,               \* INPUT_QUEUE_LENGTH, 128 in the code
    FrameMod,           \* 2^32: frame numbers are u32
    UsizeMod,           \* 2^64: indices and lengths are usize
    OverflowChecks      \* TRUE in a debug build: arithmetic that wraps panics

ASSUME QueueAssumption ==
    /\ QLen \in Nat \ {0}
    /\ FrameMod \in Nat /\ QLen < FrameMod
    /\ UsizeMod \in Nat /\ QLen < UsizeMod
    /\ OverflowChecks \in BOOLEAN

Slots == 0 .. QLen - 1

Queues ==
    [head : Slots, tail : Slots, length : 0 .. QLen, first_frame : BOOLEAN,
     last_user_added_frame : Frame, last_added_frame : Frame,
     first_incorrect_frame : Frame, last_frame_requested : Frame,
     inputs : [Slots -> GameInputs], prediction : GameInputs]

NoPanic == "no panic"

\* The assertions, in source order, and the arithmetic that can overflow.
Panics ==
    {NoPanic,
     "confirmed input past an error",
     "discard before the tail",
     "discard past the length",
     "reset past the error",
     "input asked for after an error",
     "requested frame already discarded",
     "slot holds another frame",
     "nothing to predict from",
     "added out of order",
     "gap before the head",
     "prediction out of step",
     "queue overfull",
     "user input out of order",
     "padding",
     "head out of step"}

Outcome(q, assertion) == [queue |-> q, panic |-> assertion]

NewQueue ==
    [head |-> 0, tail |-> 0, length |-> 0, first_frame |-> TRUE,
     last_user_added_frame |-> NoFrame, last_added_frame |-> NoFrame,
     first_incorrect_frame |-> NoFrame, last_frame_requested |-> NoFrame,
     inputs |-> [slot \in Slots |-> NewInput], prediction |-> NewInput]

PreviousSlot(slot) == IF slot = 0 THEN QLen - 1 ELSE slot - 1
Newest(q) == q.inputs[PreviousSlot(q.head)]
Oldest(q) == q.inputs[q.tail]
Predicting(q) == q.prediction.frame # NoFrame

-----------------------------------------------------------------------------
(* get_confirmed_input: the slot is computed from the frame number alone.  *)

\* Mutant: the slot's frame number is not compared.
GetConfirmedInputUnchecked(q, requested) ==
    LET slot == q.inputs[requested % QLen] IN
    [panic |-> NoPanic, found |-> slot.frame # NoFrame, bits |-> slot.bits]

GetConfirmedInput(q, requested) ==
    LET slot == q.inputs[requested % QLen] IN
    [panic |-> IF q.first_incorrect_frame # NoFrame
                  /\ requested >= q.first_incorrect_frame
               THEN "confirmed input past an error" ELSE NoPanic,
     found |-> requested # NoFrame /\ slot.frame = requested,
     bits  |-> slot.bits]

-----------------------------------------------------------------------------
(* discard_confirmed_frames.  When every input is discarded the code moves *)
(* the tail and leaves the length alone.  frame - tail_frame + 1 is u32    *)
(* arithmetic, length -= offset is usize arithmetic.                       *)

DiscardUpTo(q, in_frame) ==
    IF q.last_frame_requested # NoFrame /\ q.last_frame_requested < in_frame
    THEN q.last_frame_requested ELSE in_frame

\* Mutant: the length is left as it was.
DiscardOldestKeepingLength(q, frame) ==
    Outcome([q EXCEPT !.tail = (q.tail + frame - Oldest(q).frame + 1) % QLen],
            NoPanic)

\* Mutant: one input too many is discarded.
DiscardOldestAndNext(q, frame) ==
    LET offset == frame - Oldest(q).frame + 2 IN
    Outcome([q EXCEPT !.tail = (q.tail + offset) % QLen,
                      !.length = q.length - offset], NoPanic)

DiscardOldest(q, frame) ==
    LET distance == frame - Oldest(q).frame
        offset == (distance + 1) % FrameMod
    IN IF OverflowChecks /\ distance < 0
       THEN Outcome(q, "discard before the tail")
       ELSE IF OverflowChecks /\ offset > q.length
       THEN Outcome(q, "discard past the length")
       ELSE Outcome([q EXCEPT !.tail = (q.tail + offset) % QLen,
                              !.length = (q.length - offset) % UsizeMod],
                    NoPanic)

DiscardConfirmedFrames(q, in_frame) ==
    LET frame == DiscardUpTo(q, in_frame) IN
    IF q.last_added_frame = NoFrame
    THEN Outcome(q, NoPanic)
    ELSE IF frame >= q.last_added_frame
    THEN Outcome([q EXCEPT !.tail = q.head], NoPanic)
    ELSE IF Oldest(q).frame = NoFrame
    THEN Outcome(q, NoPanic)
    ELSE DiscardOldest(q, frame)

-----------------------------------------------------------------------------
(* reset_prediction forgets the prediction, its verdict and the last frame *)
(* asked for.                                                              *)

ResetPrediction(q, frame) ==
    IF q.first_incorrect_frame # NoFrame /\ frame > q.first_incorrect_frame
    THEN Outcome(q, "reset past the error")
    ELSE Outcome([q EXCEPT !.prediction.frame = NoFrame,
                           !.first_incorrect_frame = NoFrame,
                           !.last_frame_requested = NoFrame],
                 NoPanic)

-----------------------------------------------------------------------------
(* get_input.  A frame held by the queue is answered from its slot, unless *)
(* the queue is predicting: then every frame gets the held prediction.  A  *)
(* new prediction repeats the newest input and is numbered one past it; it *)
(* is Erase(prediction), still without a number, when frame 0 is asked for *)
(* or nothing was ever added.                                              *)

Holds(q, requested) ==
    /\ ~Predicting(q)
    /\ Oldest(q).frame # NoFrame
    /\ requested - Oldest(q).frame < q.length

SlotOf(q, requested) == q.inputs[(requested - Oldest(q).frame + q.tail) % QLen]

Answered(q, requested) ==
    Holds(q, requested) /\ SlotOf(q, requested).frame # NoFrame

\* Mutant: every prediction is based on the newest input anew.
NextPredictionRebased(q, requested) ==
    IF Newest(q).frame = NoFrame THEN q.prediction
    ELSE [Newest(q) EXCEPT !.frame = @ + 1]

\* Mutant: the prediction is always blank.
NextPredictionBlank(q, requested) ==
    IF Predicting(q) \/ Newest(q).frame = NoFrame
    THEN q.prediction ELSE Erase([Newest(q) EXCEPT !.frame = @ + 1])

NextPrediction(q, requested) ==
    IF Predicting(q) \/ Oldest(q).frame = NoFrame
    THEN q.prediction
    ELSE LET base == IF requested = 0 \/ q.last_added_frame = NoFrame
                     THEN Erase(q.prediction) ELSE Newest(q)
         IN IF base.frame = NoFrame THEN base
                                    ELSE [base EXCEPT !.frame = @ + 1]

GetInputPanic(q, requested) ==
    IF q.first_incorrect_frame # NoFrame
    THEN "input asked for after an error"
    ELSE IF Oldest(q).frame > requested
    THEN "requested frame already discarded"
    ELSE IF Answered(q, requested) /\ SlotOf(q, requested).frame # requested
    THEN "slot holds another frame"
    ELSE IF /\ ~Answered(q, requested)
            /\ NextPrediction(q, requested).frame = NoFrame
    THEN "nothing to predict from"
    ELSE NoPanic

GetInput(q, requested) ==
    LET confirmed == Answered(q, requested)
        prediction == IF confirmed THEN q.prediction
                                   ELSE NextPrediction(q, requested)
    IN [queue |-> [q EXCEPT !.last_frame_requested = requested,
                            !.prediction = prediction],
        panic |-> GetInputPanic(q, requested),
        confirmed |-> confirmed,
        bits |-> IF confirmed THEN SlotOf(q, requested).bits
                              ELSE prediction.bits]

-----------------------------------------------------------------------------
(* add_delayed_input_to_queue: write the head slot, then judge the input   *)
(* against the prediction that stood in for it.                            *)

AddDelayedPanic(q, frame) ==
    IF q.last_added_frame # NoFrame /\ frame # q.last_added_frame + 1
    THEN "added out of order"
    ELSE IF /\ frame # 0
            /\ Newest(q).frame = NoFrame \/ Newest(q).frame # frame - 1
    THEN "gap before the head"
    ELSE IF Predicting(q) /\ q.prediction.frame # frame
    THEN "prediction out of step"
    ELSE IF q.length + 1 > QLen
    THEN "queue overfull"
    ELSE NoPanic

\* Mutant: a later error replaces the first.
LastIncorrectAfter(q, input, frame) ==
    IF Predicting(q) /\ ~Equal(q.prediction, input, TRUE)
    THEN frame ELSE q.first_incorrect_frame

FirstIncorrectAfter(q, input, frame) ==
    IF /\ Predicting(q)
       /\ q.first_incorrect_frame = NoFrame
       /\ ~Equal(q.prediction, input, TRUE)
    THEN frame ELSE q.first_incorrect_frame

\* Mutant: the prediction is not renumbered.
PredictionFrameKept(q, first_incorrect) ==
    IF ~Predicting(q) \/ (/\ q.prediction.frame = q.last_frame_requested
                          /\ first_incorrect = NoFrame)
    THEN NoFrame ELSE q.prediction.frame

PredictionFrameAfter(q, first_incorrect) ==
    IF ~Predicting(q) \/ (/\ q.prediction.frame = q.last_frame_requested
                          /\ first_incorrect = NoFrame)
    THEN NoFrame ELSE q.prediction.frame + 1

\* Mutant: the head does not wrap.
AddDelayedInputUnwrapped(q, input, frame) ==
    LET first_incorrect == FirstIncorrectAfter(q, input, frame) IN
    Outcome([q EXCEPT !.inputs[q.head] = [input EXCEPT !.frame = frame],
                      !.head = q.head + 1,
                      !.length = q.length + 1,
                      !.first_frame = FALSE,
                      !.last_added_frame = frame,
                      !.first_incorrect_frame = first_incorrect,
                      !.prediction.frame =
                            PredictionFrameAfter(q, first_incorrect)],
            AddDelayedPanic(q, frame))

\* Mutant: the slot is numbered but not written.
AddDelayedFrameOnly(q, input, frame) ==
    LET first_incorrect == FirstIncorrectAfter(q, input, frame) IN
    Outcome([q EXCEPT !.inputs[q.head].frame = frame,
                      !.head = (q.head + 1) % QLen,
                      !.length = q.length + 1,
                      !.first_frame = FALSE,
                      !.last_added_frame = frame,
                      !.first_incorrect_frame = first_incorrect,
                      !.prediction.frame =
                            PredictionFrameAfter(q, first_incorrect)],
            AddDelayedPanic(q, frame))

AddDelayedInputToQueue(q, input, frame) ==
    LET first_incorrect == FirstIncorrectAfter(q, input, frame) IN
    Outcome([q EXCEPT !.inputs[q.head] = [input EXCEPT !.frame = frame],
                      !.head = (q.head + 1) % QLen,
                      !.length = q.length + 1,
                      !.first_frame = FALSE,
                      !.last_added_frame = frame,
                      !.first_incorrect_frame = first_incorrect,
                      !.prediction.frame =
                            PredictionFrameAfter(q, first_incorrect)],
            AddDelayedPanic(q, frame))

(***************************************************************************)
(* add_input and advance_queue_head.  A frame below the expected one is    *)
(* dropped.  A frame above it makes advance_queue_head pad the queue with  *)
(* copies of the newest input, and the assertion after the loop (390) then *)
(* fails, since it compares with the newest input of before the padding:   *)
(* "padding" stands for that panic, and for the ones within the loop.      *)
(***************************************************************************)
ExpectedFrame(q) == IF q.first_frame THEN 0 ELSE Newest(q).frame + 1

AdvanceQueueHead(q, frame) ==
    IF Newest(q).frame = NoFrame \/ ExpectedFrame(q) = frame
    THEN IF /\ Newest(q).frame # NoFrame /\ frame # 0
            /\ frame # Newest(q).frame + 1
         THEN "head out of step" ELSE "add"
    ELSE IF ExpectedFrame(q) > frame THEN "drop" ELSE "padding"

AddInput(q, input) ==
    LET accepted == [q EXCEPT !.last_user_added_frame = input.frame]
        advance == AdvanceQueueHead(accepted, input.frame)
    IN IF /\ q.last_user_added_frame # NoFrame
          /\ input.frame # q.last_user_added_frame + 1
       THEN Outcome(q, "user input out of order")
       ELSE IF advance = "add"
       THEN AddDelayedInputToQueue(accepted, input, input.frame)
       ELSE Outcome(accepted, IF advance = "drop" THEN NoPanic ELSE advance)
=============================================================================
