------------------------------ MODULE SyncSpec ------------------------------
(***************************************************************************)
(* The synchronisation layer under the two programs that can drive it      *)
(* without players: an application with a GGPOSync of its own, and the     *)
(* SyncTestBackend of src/ggpo/src/backends/sync_test.rs, whose            *)
(* constructor configures no players in the layer.                         *)
(*                                                                         *)
(* A player's input is the set of bits that are set in it.                 *)
(***************************************************************************)
EXTENDS Sync

CONSTANTS
    NumPlayers,     \* num_players of the backend
    MaxPlayers,     \* GAMEINPUT_MAX_PLAYERS, 2
    Buttons,        \* the bits of one player's input
    Blank           \* those set in b'0', which every new input holds

ASSUME InputAssumption ==
    /\ NumPlayers \in Nat
    /\ MaxPlayers \in Nat
    /\ Blank \subseteq Buttons

VARIABLES
    sync,           \* the layer
    backend         \* the backend, NoBackend if there is none

vars == <<sync, backend>>

InputBuffers == [0 .. MaxPlayers - 1 -> SUBSET Buttons]
BlankInput == [p \in 0 .. MaxPlayers - 1 |-> Blank]

\* `handles` are those that add_player gave the application.
Backends == [running : BOOLEAN, handles : SUBSET (0 .. NumPlayers - 1),
             current_input : InputBuffers, last_input : InputBuffers]
NoBackend == <<>>
NewBackend == [running |-> FALSE, handles |-> {},
               current_input |-> BlankInput, last_input |-> BlankInput]

Init == sync = NewSync /\ backend \in {NoBackend, NewBackend}

Goes == sync.panic = NoPanic

-----------------------------------------------------------------------------
(* The application drives the layer itself. *)

Directly(s) ==
    /\ Goes
    /\ backend = NoBackend
    /\ sync' = s
    /\ UNCHANGED backend

LayerSaveCurrentFrame == Directly(SaveCurrentFrame(sync))

LayerIncrementFrame == Directly(IncrementFrame(sync))

LayerAddLocalInput == Directly(AddLocalInput(sync))

LayerLoadFrame ==
    \E frame \in 0 .. sync.frame_count : Directly(LoadFrame(sync, frame))

LayerAdjustSimulation ==
    \E seek_to \in 0 .. sync.frame_count :
        Directly(AdjustSimulation(sync, seek_to))

LayerSetLastConfirmedFrame ==
    \E frame \in NoFrame .. sync.frame_count :
        Directly(SetLastConfirmedFrame(sync, frame))

-----------------------------------------------------------------------------
(* The backend drives it. *)

DoPoll ==
    /\ Goes
    /\ backend # NoBackend
    /\ backend' = [backend EXCEPT !.running = TRUE]
    /\ UNCHANGED sync

AddPlayer ==
    /\ Goes
    /\ backend # NoBackend
    /\ \E player_num \in 1 .. NumPlayers :
        backend' = [backend EXCEPT !.handles = @ \cup {player_num - 1}]
    /\ UNCHANGED sync

\* The input is added to what is there.
AddLocalInputTo(player, values) ==
    IF player < MaxPlayers
    THEN /\ backend' = [backend EXCEPT !.current_input[player] = @ \cup values]
         /\ UNCHANGED sync
    ELSE /\ sync' = Fail(sync, "no such player")
         /\ UNCHANGED backend

BackendAddLocalInput ==
    /\ Goes
    /\ backend # NoBackend
    /\ backend.running
    /\ \E player \in backend.handles, values \in SUBSET Buttons :
        AddLocalInputTo(player, values)

\* Mutant: the frame's input is forgotten once it was answered.
AnsweredOnce ==
    [backend EXCEPT !.last_input = backend.current_input,
                    !.current_input = BlankInput]

Answered == [backend EXCEPT !.last_input = backend.current_input]

\* rolling_back of the backend is never set.
SynchronizeInput ==
    /\ Goes
    /\ backend # NoBackend
    /\ sync' = IF sync.frame_count = 0 THEN SaveCurrentFrame(sync) ELSE sync
    /\ backend' = IF sync'.panic = NoPanic THEN Answered ELSE backend

\* The default method of the trait: unimplemented!().
BackendIncrementFrame ==
    /\ Goes
    /\ backend # NoBackend
    /\ sync' = Fail(sync, "not implemented")
    /\ UNCHANGED backend

Next ==
    \/ LayerSaveCurrentFrame \/ LayerIncrementFrame \/ LayerAddLocalInput
    \/ LayerLoadFrame \/ LayerAdjustSimulation \/ LayerSetLastConfirmedFrame
    \/ DoPoll \/ AddPlayer \/ BackendAddLocalInput \/ SynchronizeInput
    \/ BackendIncrementFrame

Spec == Init /\ [][Next]_vars

\* A game loop asks for the input of every frame.
FairSpec == Spec /\ WF_vars(SynchronizeInput)

-----------------------------------------------------------------------------
(* Properties *)

\* The slots before the head are those that hold a frame, unless loading a
\* frame failed and left the head where it looked.
TypeOK ==
    /\ sync \in Syncs
    /\ backend \in Backends \cup {NoBackend}
    /\ sync.panic # "loaded frame has no buffer" =>
        \A i \in Slots : sync.frames[i] = NoFrame <=> i >= sync.head

(***************************************************************************)
(* The newest save is of the current frame (get_last_saved_frame, 268),    *)
(* after whatever mixture of saves, increments and refused rollbacks.      *)
(***************************************************************************)
NewestSaveIsTheCurrentFrame ==
    Goes =>
        \/ GetLastSavedFrame(sync) = sync.frame_count
        \/ GetLastSavedFrame(sync) = NoFrame /\ sync.frame_count = 0

(***************************************************************************)
(* find_saved_frame_index (276-291) finds the frame before the one that is *)
(* asked for, except that it finds the one in slot 0: so a rollback, were  *)
(* it to complete, would trip the assertion on the frame count (472).      *)
(***************************************************************************)
SavedFrames == {sync.frames[i] : i \in Slots} \ {NoFrame}

FoundFrameIsTheOneBefore ==
    \A frame \in SavedFrames :
        sync.frames[FindSavedFrameIndex(sync, frame)] =
            IF frame = sync.frames[0] THEN frame ELSE frame - 1

(***************************************************************************)
(* No rollback takes the game back: the buffer of a saved frame is empty,  *)
(* as save_game_state cannot fill it, and load_frame asserts that it is    *)
(* not before it resets the frame count (525, 535).                        *)
(***************************************************************************)
GameNeverGoesBack == [][sync'.frame_count >= sync.frame_count]_vars

(***************************************************************************)
(* A button that was pressed once is answered as pressed for every frame   *)
(* from then on, of the backend's inputs nothing is ever released          *)
(* (sync_test.rs 112, 134).                                                *)
(***************************************************************************)
Released(buffer, next) ==
    \E p \in 0 .. MaxPlayers - 1 : ~(buffer[p] \subseteq next[p])

ButtonsAreNeverReleased ==
    [][backend # NoBackend =>
        ~Released(backend.last_input, backend'.last_input)]_vars

(***************************************************************************)
(* A sync test ends in a panic, whatever the application does: its frame   *)
(* count stays 0, so that every synchronize_input saves the frame again,   *)
(* until the ring, whose head does not wrap, is full (sync.rs 237, 264).   *)
(***************************************************************************)
EverySyncTestFails == backend # NoBackend ~> ~Goes
=============================================================================
