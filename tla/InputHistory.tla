---------------------------- MODULE InputHistory ----------------------------
(***************************************************************************)
(* What an input queue promises to the game, without a ring, indices or    *)
(* lengths: the inputs received so far form a log, one entry per frame;    *)
(* the game asks for the frames in order; a frame in the log is answered   *)
(* from the log, any other by repeating the newest input known when the    *)
(* prediction began; and each input that arrives for a predicted frame is  *)
(* judged against what the game was given.                                 *)
(*                                                                         *)
(* InputQueueSpec is shown to implement this specification.                *)
(***************************************************************************)
EXTENDS GameInput, Sequences

VARIABLES
    log,        \* log[f + 1] is the input received for frame f
    answers,    \* answers[f + 1] is what the game was given for frame f
    reported    \* the first frame judged wrongly predicted, or NoFrame

vars == <<log, answers, reported>>

Answer == [bits : Bits, confirmed : BOOLEAN]

LastLogged == Len(log) - 1

Init ==
    /\ log = <<>>
    /\ answers = <<>>
    /\ reported = NoFrame

\* The frame was predicted and its answer still stands.
PredictedFrame(f) == f < Len(answers) /\ ~answers[f + 1].confirmed

\* The verdict on a predicted frame once its input is known.
Accepted(f, bits) ==
    Equal([frame |-> f, bits |-> answers[f + 1].bits],
          [frame |-> f, bits |-> bits], TRUE)

\* A prediction is held until the last frame it answered is in the log.
Holding == PredictedFrame(Len(answers) - 1) /\ Len(answers) > Len(log)

Guess == IF Holding THEN answers[Len(answers)].bits ELSE log[Len(log)]

-----------------------------------------------------------------------------

Receive(bits) ==
    LET frame == Len(log) IN
    /\ log' = Append(log, bits)
    /\ reported' = IF /\ reported = NoFrame
                      /\ PredictedFrame(frame)
                      /\ ~Accepted(frame, bits)
                   THEN frame ELSE reported
    /\ UNCHANGED answers

AskReceived ==
    /\ reported = NoFrame
    /\ Len(answers) < Len(log)
    /\ answers' = Append(answers, [bits |-> log[Len(answers) + 1],
                                   confirmed |-> TRUE])
    /\ UNCHANGED <<log, reported>>

AskMissing ==
    /\ reported = NoFrame
    /\ log # <<>>
    /\ Len(answers) >= Len(log)
    /\ answers' = Append(answers, [bits |-> Guess, confirmed |-> FALSE])
    /\ UNCHANGED <<log, reported>>

\* Rewinding to a frame takes back every answer from that frame on.
Rewind(frame) ==
    /\ frame <= LastLogged
    /\ reported # NoFrame => frame <= reported
    /\ answers' = SubSeq(answers, 1, frame)
    /\ reported' = NoFrame
    /\ UNCHANGED log

Next ==
    \/ \E bits \in Bits : Receive(bits)
    \/ AskReceived
    \/ AskMissing
    \/ \E frame \in 0 .. Len(answers) : Rewind(frame)

Spec == Init /\ [][Next]_vars
=============================================================================
