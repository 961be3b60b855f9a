------------------------------ MODULE TimeSync ------------------------------
(***************************************************************************)
(* The frame advantages of the last frames and the wait recommended from   *)
(* them: src/ggpo/src/time_sync.rs.                                        *)
(*                                                                         *)
(* The two averages are f32.  Sums this small are exact, and so are the    *)
(* quotients where the recommendation changes, odd multiples of a frame,   *)
(* so rational arithmetic, with truncation, decides as the code does.      *)
(***************************************************************************)
EXTENDS GameInput

CONSTANTS
    FrameWindowSize,        \* FRAME_WINDOW_SIZE, 40
    MinUniqueFrames,        \* MIN_UNIQUE_FRAMES, 10
    MinFrameAdvantage,      \* MIN_FRAME_ADVANTAGE, 3
    MaxFrameAdvantage       \* MAX_FRAME_ADVANTAGE, 9

ASSUME WindowAssumption ==
    /\ FrameWindowSize \in Nat \ {0}
    /\ MinUniqueFrames \in Nat \ {0, 1}
    /\ MinFrameAdvantage \in Nat \ {0}
    /\ MaxFrameAdvantage \in Nat
    /\ MinFrameAdvantage <= MaxFrameAdvantage

Windows == [0 .. FrameWindowSize - 1 -> Int]
TimeSyncs == [local : Windows, remote : Windows,
              last_inputs : [0 .. MinUniqueFrames - 1 -> GameInputs]]

\* Mutant: the windows are one frame longer than they wrap.
NewTimeSyncLonger ==
    [local |-> [i \in 0 .. FrameWindowSize |-> 0],
     remote |-> [i \in 0 .. FrameWindowSize |-> 0],
     last_inputs |-> [i \in 0 .. MinUniqueFrames - 1 |-> NewInput]]

NewTimeSync ==
    [local |-> [i \in 0 .. FrameWindowSize - 1 |-> 0],
     remote |-> [i \in 0 .. FrameWindowSize - 1 |-> 0],
     last_inputs |-> [i \in 0 .. MinUniqueFrames - 1 |-> NewInput]]

\* Mutant: the window is as long as the list of inputs.
AdvanceFrameShort(ts, input, advantage, r_advantage) ==
    [ts EXCEPT !.last_inputs[input.frame % MinUniqueFrames] = input,
               !.local[input.frame % MinUniqueFrames] = advantage,
               !.remote[input.frame % MinUniqueFrames] = r_advantage]

\* The input has a frame number: without one the code does nothing.
AdvanceFrame(ts, input, advantage, r_advantage) ==
    [ts EXCEPT !.last_inputs[input.frame % MinUniqueFrames] = input,
               !.local[input.frame % FrameWindowSize] = advantage,
               !.remote[input.frame % FrameWindowSize] = r_advantage]

\* The sum of the first n values of f, a function on 0 .. n - 1.
Total(f, n) ==
    LET sum[i \in 0 .. n] == IF i = 0 THEN 0 ELSE sum[i - 1] + f[i - 1]
    IN sum[n]

SumOf(window) == Total(window, FrameWindowSize)

\* Mutant: whoever has the advantage waits.
WaitForSwapped(sum, r_sum) ==
    LET sleep_frames ==
            (sum - r_sum + FrameWindowSize) \div (2 * FrameWindowSize)
    IN IF r_sum >= sum \/ sleep_frames < MinFrameAdvantage THEN 0
       ELSE IF sleep_frames > MaxFrameAdvantage THEN MaxFrameAdvantage
       ELSE sleep_frames

\* Mutant: the half is cut off, not rounded.
WaitForTruncated(sum, r_sum) ==
    LET sleep_frames == (r_sum - sum) \div (2 * FrameWindowSize)
    IN IF sum >= r_sum \/ sleep_frames < MinFrameAdvantage THEN 0
       ELSE IF sleep_frames > MaxFrameAdvantage THEN MaxFrameAdvantage
       ELSE sleep_frames

\* Half the difference of the averages, rounded, unless too small.
WaitFor(sum, r_sum) ==
    LET sleep_frames ==
            (r_sum - sum + FrameWindowSize) \div (2 * FrameWindowSize)
    IN IF sum >= r_sum \/ sleep_frames < MinFrameAdvantage THEN 0
       ELSE IF sleep_frames > MaxFrameAdvantage THEN MaxFrameAdvantage
       ELSE sleep_frames

\* An input that was sent has the session's size, a new one the size 0.
SameSize(self, other) == (self.frame = NoFrame) <=> (other.frame = NoFrame)

\* Mutant: the inputs are not compared.
IsIdleBySize(ts) ==
    \A i \in 1 .. MinUniqueFrames - 1 :
        SameSize(ts.last_inputs[i], ts.last_inputs[0])

IsIdle(ts) ==
    \A i \in 1 .. MinUniqueFrames - 1 :
        /\ SameSize(ts.last_inputs[i], ts.last_inputs[0])
        /\ Equal(ts.last_inputs[i], ts.last_inputs[0], TRUE)

RecommendFrameWaitDuration(ts, require_idle_input) ==
    IF require_idle_input /\ ~IsIdle(ts) THEN 0
    ELSE WaitFor(SumOf(ts.local), SumOf(ts.remote))
=============================================================================
