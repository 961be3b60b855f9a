-------------------------------- MODULE Sync --------------------------------
(***************************************************************************)
(* The saved frames and the frame counter of the synchronisation layer:    *)
(* the struct GGPOSync of src/ggpo/src/sync.rs, in a session without       *)
(* players, the only one `init` can make: create_queues stores the queues  *)
(* in an empty vector (170).  The calls to the queues, which such a        *)
(* session does not make, are the actions of InputQueueSpec.               *)
(*                                                                         *)
(* A layer is a record; a method is an operator that returns the layer it  *)
(* leaves.  `panic` names what ended the program.  Of a saved frame only   *)
(* the number is kept: its buffer and its size stay as they are, empty,    *)
(* since save_game_state gets them by shared reference.  Frame numbers     *)
(* are far from the end of a u32, and the build is a release build.        *)
(***************************************************************************)
EXTENDS Integers

CONSTANT MaxPrediction      \* GGPO_MAX_PREDICTION_FRAMES, 8

ASSUME MaxPredictionAssumption == MaxPrediction \in Nat

NoFrame == -1
Frame == Nat \cup {NoFrame}

SlotCount == MaxPrediction + 2
Slots == 0 .. SlotCount - 1

NoPanic == "no panic"
Panics ==
    {NoPanic,
     "saved frame out of bounds",
     "loaded frame has no buffer",
     "no such queue",
     "no such player",
     "not implemented"}

Syncs == [frames : [Slots -> Frame], head : 0 .. SlotCount,
          rolling_back : BOOLEAN, frame_count : Nat,
          last_confirmed_frame : Frame, panic : Panics]

\* `new`, and `init` with a configuration of no players.
NewSync ==
    [frames |-> [i \in Slots |-> NoFrame], head |-> 0,
     rolling_back |-> FALSE, frame_count |-> 0,
     last_confirmed_frame |-> NoFrame, panic |-> NoPanic]

Fail(s, reason) ==
    IF s.panic = NoPanic THEN [s EXCEPT !.panic = reason] ELSE s

-----------------------------------------------------------------------------

\* Mutant: the head wraps one slot early.
SaveCurrentFrameWrapping(s) ==
    [s EXCEPT !.frames[s.head] = s.frame_count,
              !.head = IF s.head + 1 = SlotCount - 1 THEN 0 ELSE s.head + 1]

\* The head does not wrap.
SaveCurrentFrame(s) ==
    IF s.head \notin Slots THEN Fail(s, "saved frame out of bounds")
    ELSE [s EXCEPT !.frames[s.head] = s.frame_count, !.head = @ + 1]

\* Mutant: the frame is saved before it is counted.
IncrementFrameSavedFirst(s) ==
    LET saved == SaveCurrentFrame(s) IN
    [saved EXCEPT !.frame_count = @ + 1]

IncrementFrame(s) == SaveCurrentFrame([s EXCEPT !.frame_count = @ + 1])

GetLastSavedFrame(s) ==
    s.frames[IF s.head = 0 THEN SlotCount - 1 ELSE s.head - 1]

\* Mutant: the index after the frame's.
FindSavedFrameIndexAfter(s, frame) ==
    LET found == {i \in Slots : s.frames[i] = frame} IN
    IF found = {} THEN SlotCount - 1
    ELSE LET i == CHOOSE x \in found : \A y \in found : x <= y
         IN IF i = SlotCount - 1 THEN i ELSE i + 1

\* The index before that of the first slot with the frame.
FindSavedFrameIndex(s, frame) ==
    LET found == {i \in Slots : s.frames[i] = frame} IN
    IF found = {} THEN SlotCount - 1
    ELSE LET i == CHOOSE x \in found : \A y \in found : x <= y
         IN IF i = 0 THEN 0 ELSE i - 1

\* Mutant: the buffer is not looked at.
LoadFrameUnchecked(s, frame) ==
    IF frame = s.frame_count THEN s
    ELSE LET slot == FindSavedFrameIndex(s, frame) IN
         [s EXCEPT !.head = slot + 1,
                   !.frame_count = IF s.frames[slot] = NoFrame THEN @
                                   ELSE s.frames[slot]]

\* The assertion that the buffer is not empty stands before load_game_state
\* and what follows it.
LoadFrame(s, frame) ==
    IF frame = s.frame_count THEN s
    ELSE Fail([s EXCEPT !.head = FindSavedFrameIndex(s, frame)],
              "loaded frame has no buffer")

\* Only a rollback to the current frame gets past load_frame, and then there
\* is no frame to advance.
AdjustSimulation(s, seek_to) ==
    LET loaded == LoadFrame([s EXCEPT !.rolling_back = TRUE], seek_to) IN
    IF loaded.panic # NoPanic THEN loaded
    ELSE [loaded EXCEPT !.rolling_back = FALSE]

FramesBehind(s) ==
    IF s.last_confirmed_frame = NoFrame THEN s.frame_count + 1
    ELSE s.frame_count - s.last_confirmed_frame

AtTheBarrier(s) ==
    s.frame_count >= MaxPrediction /\ FramesBehind(s) >= MaxPrediction

AddLocalInput(s) ==
    IF AtTheBarrier(s) THEN s
    ELSE Fail(IF s.frame_count = 0 THEN SaveCurrentFrame(s) ELSE s,
              "no such queue")

SetLastConfirmedFrame(s, frame) == [s EXCEPT !.last_confirmed_frame = frame]
=============================================================================
