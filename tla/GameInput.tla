----------------------------- MODULE GameInput -----------------------------
(***************************************************************************)
(* One frame of a player's controls: src/ggpo/src/game_input.rs.           *)
(*                                                                         *)
(* The bit matrix of an input is data: it is an element of Bits, and Blank *)
(* is the matrix of b'0' that every constructor writes.  `size` is the     *)
(* session's input size, the same for every input that reaches a queue, so *)
(* the size comparison of `equal` is left out.                             *)
(***************************************************************************)
EXTENDS Integers

CONSTANTS
    Bits,       \* the input matrices the players can produce
    Blank       \* the matrix GameInput::new and GameInput::init(None) write

ASSUME BlankAssumption == Blank \in Bits

(***************************************************************************)
(* Frame is Option<u32>.  None is -1: Rust orders None below every Some,   *)
(* and -1 is below every frame number.                                     *)
(***************************************************************************)
NoFrame == -1
FrameNum == Nat
Frame == FrameNum \cup {NoFrame}

GameInputs == [frame : Frame, bits : Bits]

NewInput == [frame |-> NoFrame, bits |-> Blank]

\* `erase` blanks the matrix and keeps the frame number.
Erase(input) == [input EXCEPT !.bits = Blank]

(***************************************************************************)
(* `equal`.  The code computes bits_equality as self.bits != other.bits,   *)
(* so two inputs are "equal" when their matrices differ.                   *)
(***************************************************************************)
Equal(self, other, bitsonly) ==
    /\ bitsonly \/ self.frame = other.frame
    /\ self.bits # other.bits
=============================================================================
