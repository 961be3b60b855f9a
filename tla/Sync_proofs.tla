---------------------------- MODULE Sync_proofs ----------------------------
(***************************************************************************)
(* Proofs about SyncSpec, for every length of the ring of saved frames,    *)
(* every number of players and every set of buttons.                       *)
(***************************************************************************)
EXTENDS SyncSpec, NaturalNumbers

USE MaxPredictionAssumption, InputAssumption

(***************************************************************************)
(* The ring is filled from slot 0 on, and a save is of the frame of the    *)
(* save before or of the next one.  The head is behind the newest save     *)
(* unless the loading of a frame moved it, which ends the program.         *)
(***************************************************************************)
Ring(n) ==
    /\ \A i \in Slots : sync.frames[i] = NoFrame <=> i >= n
    /\ \A i \in 1 .. n - 1 :
        sync.frames[i] \in {sync.frames[i - 1], sync.frames[i - 1] + 1}
    /\ sync.panic # "loaded frame has no buffer" => sync.head = n

\* While the program runs the newest save is of the current frame.
Current(n) ==
    Goes => IF n = 0 THEN sync.frame_count = 0
            ELSE sync.frames[n - 1] = sync.frame_count

\* What is answered is still in the input that the next answer will be.
Sticky ==
    backend # NoBackend =>
        \A p \in 0 .. MaxPlayers - 1 :
            backend.last_input[p] \subseteq backend.current_input[p]

Saved == \E n \in 0 .. SlotCount : Ring(n) /\ Current(n)

IInv ==
    /\ sync \in Syncs
    /\ backend \in Backends \cup {NoBackend}
    /\ Saved
    /\ Sticky

-----------------------------------------------------------------------------
(* What the invariant implies.                                             *)

\* The head and the newest save, while the program runs.
LEMMA RunningHead ==
    ASSUME IInv, Goes
    PROVE  /\ sync.head \in 0 .. SlotCount
           /\ Ring(sync.head) /\ Current(sync.head)
  BY DEF IInv, Saved, Ring, Goes, NoPanic

\* Of the slots with a frame one is the first.
LEMMA FirstSlot ==
    ASSUME IInv, NEW frame \in SavedFrames
    PROVE  LET found == {i \in Slots : sync.frames[i] = frame}
           IN found # {} /\ \E x \in found : \A y \in found : x <= y
  <1> DEFINE found == {i \in Slots : sync.frames[i] = frame}
  <1>1. found # {}
    BY DEF SavedFrames
  <1>2. found \in SUBSET Nat
    BY DEF Slots, SlotCount
  <1> HIDE DEF found
  <1>3. \E x \in found : \A y \in found : x <= y
    BY <1>1, <1>2, LeastNatural
  <1> QED BY <1>1, <1>3 DEF found

\* A search finds the slot before the first one with the frame.
LEMMA FoundSlot ==
    ASSUME IInv, NEW frame \in SavedFrames
    PROVE  \E i \in Slots :
            /\ sync.frames[i] = frame
            /\ \A j \in Slots : sync.frames[j] = frame => i <= j
            /\ FindSavedFrameIndex(sync, frame) = IF i = 0 THEN 0 ELSE i - 1
  <1> DEFINE found == {i \in Slots : sync.frames[i] = frame}
             least == CHOOSE x \in found : \A y \in found : x <= y
  <1>1. found # {} /\ \E x \in found : \A y \in found : x <= y
    BY FirstSlot
  <1>2. least \in found /\ \A y \in found : least <= y
    BY <1>1
  <1>3. FindSavedFrameIndex(sync, frame) = IF least = 0 THEN 0 ELSE least - 1
    BY <1>1 DEF FindSavedFrameIndex
  <1> HIDE DEF least
  <1> QED BY <1>2, <1>3

\* A search for a saved frame finds the frame before, or that in slot 0.
LEMMA FrameBeforeFollows == ASSUME IInv PROVE FoundFrameIsTheOneBefore
  <1> SUFFICES ASSUME NEW frame \in SavedFrames
               PROVE  sync.frames[FindSavedFrameIndex(sync, frame)] =
                        IF frame = sync.frames[0] THEN frame ELSE frame - 1
    BY DEF FoundFrameIsTheOneBefore
  <1>1. PICK i \in Slots :
            /\ sync.frames[i] = frame
            /\ \A j \in Slots : sync.frames[j] = frame => i <= j
            /\ FindSavedFrameIndex(sync, frame) = IF i = 0 THEN 0 ELSE i - 1
    BY FoundSlot
  <1>2. PICK n \in 0 .. SlotCount : Ring(n)
    BY DEF IInv, Saved
  <1>3. CASE i = 0
    BY <1>1, <1>3
  <1>4. CASE i # 0
    <2>1. frame # NoFrame /\ frame \in Frame
      BY DEF SavedFrames, IInv, Syncs
    <2>2. i \in 1 .. n - 1 /\ i - 1 \in Slots /\ 0 \in Slots
      <3>1. ~(i >= n)
        BY <1>1, <1>2, <2>1 DEF Ring
      <3>2. i \in Nat /\ i < SlotCount /\ SlotCount \in Nat
        BY DEF Slots, SlotCount
      <3> QED BY <1>4, <3>1, <3>2 DEF Slots
    <2>3. sync.frames[i] \in {sync.frames[i - 1], sync.frames[i - 1] + 1}
      BY <1>2, <2>2 DEF Ring
    <2>4. sync.frames[i - 1] # frame /\ sync.frames[0] # frame
      BY <1>1, <1>4, <2>2 DEF Slots, SlotCount
    <2>5. sync.frames[i - 1] \in Int
      BY <2>2 DEF IInv, Syncs, Frame, NoFrame
    <2> QED BY <1>1, <1>4, <2>3, <2>4, <2>5
  <1> QED BY <1>3, <1>4

\* While the program runs the newest save is of the current frame.
LEMMA NewestFollows == ASSUME IInv PROVE NewestSaveIsTheCurrentFrame
  <1> SUFFICES ASSUME Goes
               PROVE  \/ GetLastSavedFrame(sync) = sync.frame_count
                      \/ GetLastSavedFrame(sync) = NoFrame
                            /\ sync.frame_count = 0
    BY DEF NewestSaveIsTheCurrentFrame
  <1>1. /\ sync.head \in 0 .. SlotCount
        /\ Ring(sync.head) /\ Current(sync.head)
    BY RunningHead
  <1>2. CASE sync.head = 0
    <2>1. SlotCount - 1 \in Slots /\ SlotCount - 1 >= 0
      BY DEF Slots, SlotCount
    <2> QED BY <1>1, <1>2, <2>1 DEF GetLastSavedFrame, Ring, Current
  <1>3. CASE sync.head # 0
    BY <1>1, <1>3 DEF GetLastSavedFrame, Current
  <1> QED BY <1>2, <1>3

\* The invariant says what TypeOK says.
LEMMA TypeFollows == ASSUME IInv PROVE TypeOK
  BY DEF IInv, Saved, Ring, TypeOK

-----------------------------------------------------------------------------
(* What each method of the layer leaves.                                   *)

\* What IInv says of the layer, of a layer s with n saves.
RingOf(s, n) ==
    /\ \A i \in Slots : s.frames[i] = NoFrame <=> i >= n
    /\ \A i \in 1 .. n - 1 :
        s.frames[i] \in {s.frames[i - 1], s.frames[i - 1] + 1}
    /\ s.panic # "loaded frame has no buffer" => s.head = n
    /\ s.panic = NoPanic =>
        IF n = 0 THEN s.frame_count = 0 ELSE s.frames[n - 1] = s.frame_count

Good(s) == s \in Syncs /\ \E n \in 0 .. SlotCount : RingOf(s, n)

\* The invariant is Good of the layer and what it says of the backend.
LEMMA GoodIsIInv ==
    IInv <=> Good(sync) /\ backend \in Backends \cup {NoBackend} /\ Sticky
  BY DEF IInv, Good, Saved, Ring, Current, Goes, RingOf

\* What a method changes beside the ring: the program ends, or the head moves
\* on the way to its end.
LEMMA SameRing ==
    ASSUME NEW s, Good(s), NEW t \in Syncs,
           t.frames = s.frames, t.frame_count = s.frame_count,
           t.panic # "loaded frame has no buffer" =>
                t.head = s.head /\ s.panic # "loaded frame has no buffer",
           t.panic = NoPanic => s.panic = NoPanic
    PROVE  Good(t)
  <1>1. PICK n \in 0 .. SlotCount : RingOf(s, n)
    BY DEF Good
  <1>2. RingOf(t, n)
    BY <1>1 DEF RingOf
  <1> QED BY <1>2 DEF Good

\* A save of the frame after the newest save, or of that frame again, keeps
\* the ring, unless there is no slot left.
LEMMA SavePreserves ==
    ASSUME NEW s, Good(s), s.panic = NoPanic,
           NEW t, NEW count \in {s.frame_count, s.frame_count + 1},
           t = SaveCurrentFrame([s EXCEPT !.frame_count = count])
    PROVE  Good(t) /\ t.frame_count = count
  <1> DEFINE c == [s EXCEPT !.frame_count = count]
  <1>1. PICK n \in 0 .. SlotCount : RingOf(s, n)
    BY DEF Good
  <1>2. s \in Syncs /\ s.frame_count \in Nat /\ count \in Nat /\ s.head = n
    <2>1. s \in Syncs /\ s.frame_count \in Nat
      BY DEF Good, Syncs
    <2>2. count \in Nat
      BY <2>1
    <2>3. s.head = n
      BY <1>1 DEF RingOf, NoPanic
    <2> QED BY <2>1, <2>2, <2>3
  <1>3. /\ c \in Syncs /\ c.frames = s.frames /\ c.head = s.head
        /\ c.panic = NoPanic /\ c.frame_count = count
    BY <1>2 DEF Syncs
  <1> HIDE DEF c
  <1>4. CASE n \notin Slots
    <2>1. t = [c EXCEPT !.panic = "saved frame out of bounds"]
      BY <1>2, <1>3, <1>4 DEF SaveCurrentFrame, Fail, c
    <2>2. /\ t \in Syncs /\ t.frames = s.frames /\ t.head = s.head
          /\ t.panic = "saved frame out of bounds" /\ t.frame_count = count
      BY <1>3, <2>1 DEF Syncs, Panics
    <2>3. RingOf(t, n)
      BY <1>1, <1>2, <2>2 DEF RingOf, NoPanic
    <2> QED BY <2>2, <2>3 DEF Good
  <1>5. CASE n \in Slots
    <2>1. t = [c EXCEPT !.frames[n] = count, !.head = @ + 1]
      BY <1>2, <1>3, <1>5 DEF SaveCurrentFrame, c
    <2>0. n + 1 \in 0 .. SlotCount /\ count \in Frame
      BY <1>2, <1>5 DEF Frame, Slots, SlotCount
    <2>2. /\ t \in Syncs /\ t.frames = [s.frames EXCEPT ![n] = count]
          /\ t.head = n + 1 /\ t.panic = NoPanic /\ t.frame_count = count
      <3>1. t = [c EXCEPT !.frames = [s.frames EXCEPT ![n] = count],
                          !.head = n + 1]
        BY <1>2, <1>3, <2>1 DEF Syncs
      <3>2. [s.frames EXCEPT ![n] = count] \in [Slots -> Frame]
        BY <1>2, <2>0 DEF Syncs
      <3> QED BY <1>3, <2>0, <3>1, <3>2 DEF Syncs
    <2>3. \A i \in Slots : t.frames[i] = IF i = n THEN count ELSE s.frames[i]
      BY <1>2, <2>2 DEF Syncs
    <2>4. \A i \in Slots : t.frames[i] = NoFrame <=> i >= n + 1
      BY <1>1, <1>2, <2>3 DEF RingOf, NoFrame, Slots, SlotCount
    <2>5. ASSUME NEW i \in 1 .. n
          PROVE  t.frames[i] \in {t.frames[i - 1], t.frames[i - 1] + 1}
      <3>1. i \in Slots /\ i - 1 \in Slots /\ i - 1 # n
        BY <1>5 DEF Slots, SlotCount
      <3>2. CASE i = n
        <4>1. n - 1 \in Slots /\ n # 0
          BY <3>1, <3>2
        <4>2. s.frames[n - 1] = s.frame_count
          BY <1>1, <4>1 DEF RingOf
        <4> QED BY <1>2, <2>3, <3>1, <3>2, <4>1, <4>2
      <3>3. CASE i # n
        <4>1. i \in 1 .. n - 1
          BY <3>3
        <4>2. s.frames[i] \in {s.frames[i - 1], s.frames[i - 1] + 1}
          BY <1>1, <4>1 DEF RingOf
        <4> QED BY <2>3, <3>1, <3>3, <4>2
      <3> QED BY <3>2, <3>3
    <2>6. n + 1 \in 0 .. SlotCount /\ t.frames[n] = count
      BY <1>5, <2>3 DEF Slots, SlotCount
    <2>7. RingOf(t, n + 1)
      <3>1. (n + 1) - 1 = n /\ n + 1 # 0
        OBVIOUS
      <3> QED BY <2>2, <2>4, <2>5, <2>6, <3>1 DEF RingOf
    <2> QED BY <2>2, <2>6, <2>7 DEF Good
  <1> QED BY <1>4, <1>5

\* Ending the program, for whatever other reason, or moving the head on the
\* way to it, keeps the ring.
LEMMA FailPreserves ==
    ASSUME NEW s, Good(s), NEW reason \in Panics \ {NoPanic},
           reason # "loaded frame has no buffer"
    PROVE  Good(Fail(s, reason)) /\ Fail(s, reason).frame_count = s.frame_count
  <1> DEFINE t == Fail(s, reason)
  <1>1. /\ t \in Syncs /\ t.frames = s.frames /\ t.head = s.head
        /\ t.frame_count = s.frame_count
        /\ t.panic # NoPanic
        /\ t.panic = "loaded frame has no buffer" => s.panic = t.panic
        /\ t.panic # "loaded frame has no buffer" =>
                s.panic # "loaded frame has no buffer"
    BY DEF Good, Fail, Syncs, NoPanic
  <1> HIDE DEF t
  <1> QED BY <1>1, SameRing DEF t

\* Loading a frame moves the head, at most, and ends the program.
LEMMA LoadPreserves ==
    ASSUME NEW s, Good(s), s.panic = NoPanic, NEW frame
    PROVE  /\ Good(LoadFrame(s, frame))
           /\ LoadFrame(s, frame).frame_count = s.frame_count
  <1>1. CASE frame = s.frame_count
    BY <1>1 DEF LoadFrame
  <1>2. CASE frame # s.frame_count
    <2> DEFINE index == FindSavedFrameIndex(s, frame)
               t == LoadFrame(s, frame)
    <2>1. index \in Slots
      <3> DEFINE found == {i \in Slots : s.frames[i] = frame}
                 least == CHOOSE x \in found : \A y \in found : x <= y
      <3>1. CASE found = {}
        BY <3>1 DEF FindSavedFrameIndex, Slots, SlotCount
      <3>2. CASE found # {}
        <4>1. \E x \in found : \A y \in found : x <= y
          <5>1. found \in SUBSET Nat
            BY DEF Slots
          <5> HIDE DEF found
          <5> QED BY <3>2, <5>1, LeastNatural
        <4>2. least \in found
          BY <4>1
        <4>3. index = IF least = 0 THEN 0 ELSE least - 1
          BY <3>2 DEF FindSavedFrameIndex
        <4> HIDE DEF least
        <4> QED BY <4>2, <4>3 DEF Slots, SlotCount
      <3> QED BY <3>1, <3>2
    <2>2. /\ t = [s EXCEPT !.head = index,
                           !.panic = "loaded frame has no buffer"]
      BY <1>2 DEF LoadFrame, Fail, Good, Syncs
    <2> HIDE DEF index, t
    <2>3. /\ t \in Syncs /\ t.frames = s.frames
          /\ t.frame_count = s.frame_count
          /\ t.panic = "loaded frame has no buffer"
      <3>1. s \in Syncs /\ index \in 0 .. SlotCount
        BY <2>1 DEF Good, Slots, SlotCount
      <3>2. "loaded frame has no buffer" \in Panics
        BY DEF Panics
      <3> QED BY <2>2, <3>1, <3>2 DEF Syncs
    <2>4. Good(t)
      BY <2>3, SameRing DEF NoPanic
    <2> QED BY <2>3, <2>4 DEF t
  <1> QED BY <1>1, <1>2

\* Every method keeps the ring and takes the frame count back never.
LEMMA MethodsPreserve ==
    ASSUME NEW s, Good(s), s.panic = NoPanic, NEW t,
           \/ t = SaveCurrentFrame(s)
           \/ t = IncrementFrame(s)
           \/ t = AddLocalInput(s)
           \/ \E frame \in Nat : t = LoadFrame(s, frame)
           \/ \E seek_to \in Nat : t = AdjustSimulation(s, seek_to)
           \/ \E frame \in Frame : t = SetLastConfirmedFrame(s, frame)
    PROVE  Good(t) /\ t.frame_count >= s.frame_count
  <1>1. s \in Syncs /\ s.frame_count \in Nat
    BY DEF Good, Syncs
  <1>2. s = [s EXCEPT !.frame_count = s.frame_count]
    BY <1>1 DEF Syncs
  <1>3. Good(SaveCurrentFrame(s))
            /\ SaveCurrentFrame(s).frame_count = s.frame_count
    BY <1>2, SavePreserves
  <1>4. CASE t = SaveCurrentFrame(s)
    BY <1>1, <1>3, <1>4
  <1>5. CASE t = IncrementFrame(s)
    <2>1. t = SaveCurrentFrame([s EXCEPT !.frame_count = s.frame_count + 1])
      BY <1>5 DEF IncrementFrame
    <2>2. Good(t) /\ t.frame_count = s.frame_count + 1
      BY <2>1, SavePreserves
    <2> QED BY <1>1, <2>2
  <1>6. CASE t = AddLocalInput(s)
    <2>1. "no such queue" \in Panics \ {NoPanic}
      BY DEF Panics, NoPanic
    <2> DEFINE u == IF s.frame_count = 0 THEN SaveCurrentFrame(s) ELSE s
               failed == Fail(u, "no such queue")
    <2>2. t = s \/ t = failed
      BY <1>6 DEF AddLocalInput
    <2>3. Good(u) /\ u.frame_count = s.frame_count
      BY <1>3
    <2> HIDE DEF u
    <2>4. Good(failed) /\ failed.frame_count = s.frame_count
      BY <2>1, <2>3, FailPreserves
    <2>5. Good(t) /\ t.frame_count = s.frame_count
      BY <2>2, <2>4
    <2> QED BY <1>1, <2>5
  <1>7. ASSUME NEW frame \in Nat, t = LoadFrame(s, frame)
        PROVE  Good(t) /\ t.frame_count >= s.frame_count
    BY <1>1, <1>7, LoadPreserves
  <1>8. ASSUME NEW seek_to \in Nat, t = AdjustSimulation(s, seek_to)
        PROVE  Good(t) /\ t.frame_count >= s.frame_count
    <2> DEFINE r == [s EXCEPT !.rolling_back = TRUE]
               loaded == LoadFrame(r, seek_to)
    <2>1. Good(r) /\ r.panic = NoPanic /\ r.frame_count = s.frame_count
      <3>1. /\ r \in Syncs /\ r.frames = s.frames /\ r.head = s.head
            /\ r.panic = s.panic /\ r.frame_count = s.frame_count
        BY <1>1 DEF Syncs
      <3> HIDE DEF r
      <3> QED BY <3>1, SameRing DEF NoPanic
    <2> HIDE DEF r
    <2>2. Good(loaded) /\ loaded.frame_count = s.frame_count
      BY <2>1, LoadPreserves
    <2>3. t = IF loaded.panic # NoPanic THEN loaded
              ELSE [loaded EXCEPT !.rolling_back = FALSE]
      BY <1>8 DEF AdjustSimulation, r
    <2> HIDE DEF loaded
    <2>4. CASE loaded.panic # NoPanic
      BY <1>1, <2>2, <2>3, <2>4
    <2>5. CASE loaded.panic = NoPanic
      <3>1. t = [loaded EXCEPT !.rolling_back = FALSE]
        BY <2>3, <2>5
      <3>2. /\ t \in Syncs /\ t.frames = loaded.frames
            /\ t.head = loaded.head /\ t.panic = loaded.panic
            /\ t.frame_count = loaded.frame_count
        BY <2>2, <3>1 DEF Good, Syncs
      <3>3. Good(t)
        BY <2>2, <2>5, <3>2, SameRing DEF NoPanic
      <3> QED BY <1>1, <2>2, <3>2, <3>3
    <2> QED BY <2>4, <2>5
  <1>9. ASSUME NEW frame \in Frame, t = SetLastConfirmedFrame(s, frame)
        PROVE  Good(t) /\ t.frame_count >= s.frame_count
    <2>1. /\ t \in Syncs /\ t.frames = s.frames /\ t.head = s.head
          /\ t.panic = s.panic /\ t.frame_count = s.frame_count
      BY <1>1, <1>9 DEF SetLastConfirmedFrame, Syncs
    <2>2. Good(t)
      BY <2>1, SameRing DEF NoPanic
    <2> QED BY <1>1, <2>1, <2>2
  <1> QED BY <1>4, <1>5, <1>6, <1>7, <1>8, <1>9

-----------------------------------------------------------------------------
(* The invariant is inductive.                                             *)

\* A new layer, with or without a backend, satisfies the invariant.
LEMMA InitEstablishes == Init => IInv
  <1> SUFFICES ASSUME Init PROVE IInv
    OBVIOUS
  <1>1. NewSync \in Syncs
    BY DEF NewSync, Syncs, Slots, SlotCount, Frame, NoFrame, Panics
  <1>2. Good(NewSync)
    <2>1. 0 \in 0 .. SlotCount
      BY DEF SlotCount
    <2>2. RingOf(NewSync, 0)
      BY DEF RingOf, NewSync, Slots, SlotCount, NoPanic
    <2> QED BY <1>1, <2>1, <2>2 DEF Good
  <1>3. backend \in Backends \cup {NoBackend} /\ Sticky
    <2>1. CASE backend = NoBackend
      BY <2>1 DEF Sticky
    <2>2. CASE backend = NewBackend
      BY <2>2 DEF Sticky, NewBackend, Backends, BlankInput, InputBuffers
    <2> QED BY <2>1, <2>2 DEF Init
  <1> QED BY <1>2, <1>3, GoodIsIInv DEF Init

\* A step of the application on the layer.
LEMMA LayerPreserves ==
    ASSUME IInv,
           \/ LayerSaveCurrentFrame \/ LayerIncrementFrame
           \/ LayerAddLocalInput \/ LayerLoadFrame
           \/ LayerAdjustSimulation \/ LayerSetLastConfirmedFrame
    PROVE  /\ IInv' /\ sync'.frame_count >= sync.frame_count
           /\ backend = NoBackend
  <1>1. Good(sync) /\ sync.frame_count \in Nat
    BY GoodIsIInv DEF Good, Syncs
  <1>2. /\ sync.panic = NoPanic /\ backend = NoBackend /\ backend' = backend
        /\ \/ sync' = SaveCurrentFrame(sync)
           \/ sync' = IncrementFrame(sync)
           \/ sync' = AddLocalInput(sync)
           \/ \E frame \in Nat : sync' = LoadFrame(sync, frame)
           \/ \E seek_to \in Nat : sync' = AdjustSimulation(sync, seek_to)
           \/ \E frame \in Frame : sync' = SetLastConfirmedFrame(sync, frame)
    <2>1. 0 .. sync.frame_count \subseteq Nat
      BY <1>1
    <2>2. NoFrame .. sync.frame_count \subseteq Frame
      BY <1>1 DEF NoFrame, Frame
    <2> QED BY <2>1, <2>2 DEF LayerSaveCurrentFrame, LayerIncrementFrame,
            LayerAddLocalInput, LayerLoadFrame, LayerAdjustSimulation,
            LayerSetLastConfirmedFrame, Directly, Goes
  <1>3. Good(sync') /\ sync'.frame_count >= sync.frame_count
    BY <1>1, <1>2, MethodsPreserve
  <1>4. Good(sync)'
    BY <1>3 DEF Good
  <1>5. Sticky'
    BY <1>2 DEF Sticky
  <1> QED BY <1>2, <1>3, <1>4, <1>5, GoodIsIInv DEF Good, IInv, Saved, Ring,
            Current, Goes, RingOf

\* The backend's input after a step.
LEMMA BackendStep ==
    ASSUME IInv, backend # NoBackend,
           NEW b \in Backends,
           \A p \in 0 .. MaxPlayers - 1 :
                /\ backend.current_input[p] \subseteq b.current_input[p]
                /\ \/ b.last_input[p] = backend.last_input[p]
                   \/ b.last_input[p] = backend.current_input[p]
    PROVE  \A p \in 0 .. MaxPlayers - 1 :
                /\ b.last_input[p] \subseteq b.current_input[p]
                /\ backend.last_input[p] \subseteq b.last_input[p]
  BY DEF IInv, Sticky

\* A step of the application on the backend.
LEMMA BackendPreserves ==
    ASSUME IInv,
           \/ DoPoll \/ AddPlayer \/ BackendAddLocalInput
           \/ SynchronizeInput \/ BackendIncrementFrame
    PROVE  /\ IInv' /\ sync'.frame_count >= sync.frame_count
           /\ ~Released(backend.last_input, backend'.last_input)
  <1>1. Good(sync) /\ sync.frame_count \in Nat
    BY GoodIsIInv DEF Good, Syncs
  <1>2. sync.panic = NoPanic /\ backend # NoBackend /\ backend \in Backends
    BY DEF IInv, DoPoll, AddPlayer, BackendAddLocalInput, SynchronizeInput,
           BackendIncrementFrame, Goes
  <1>3. /\ Good(sync') /\ sync'.frame_count >= sync.frame_count
        /\ backend' \in Backends
        /\ \A p \in 0 .. MaxPlayers - 1 :
            /\ backend.current_input[p] \subseteq backend'.current_input[p]
            /\ \/ backend'.last_input[p] = backend.last_input[p]
               \/ backend'.last_input[p] = backend.current_input[p]
    <2>1. CASE DoPoll
      <3>1. backend' = [backend EXCEPT !.running = TRUE] /\ sync' = sync
        BY <2>1 DEF DoPoll
      <3>2. /\ backend' \in Backends
            /\ backend'.current_input = backend.current_input
            /\ backend'.last_input = backend.last_input
        BY <1>2, <3>1 DEF Backends
      <3> QED BY <1>1, <3>1, <3>2
    <2>2. CASE AddPlayer
      <3>1. PICK player_num \in 1 .. NumPlayers :
                backend' = [backend EXCEPT !.handles = @ \cup {player_num - 1}]
        BY <2>2 DEF AddPlayer
      <3>2. player_num - 1 \in 0 .. NumPlayers - 1
        OBVIOUS
      <3>3. sync' = sync
        BY <2>2 DEF AddPlayer
      <3> QED BY <1>1, <1>2, <3>1, <3>2, <3>3 DEF Backends
    <2>3. CASE BackendAddLocalInput
      <3>1. PICK player \in backend.handles, values \in SUBSET Buttons :
                AddLocalInputTo(player, values)
        BY <2>3 DEF BackendAddLocalInput
      <3>2. player \in Nat
        BY <1>2 DEF Backends
      <3>3. CASE player < MaxPlayers
        <4>1. /\ backend' = [backend EXCEPT !.current_input[player] =
                                                @ \cup values]
              /\ sync' = sync
          BY <3>1, <3>3 DEF AddLocalInputTo
        <4>2. backend' \in Backends
          BY <1>2, <3>2, <3>3, <4>1 DEF Backends, InputBuffers
        <4>3. \A p \in 0 .. MaxPlayers - 1 :
                /\ backend.current_input[p] \subseteq backend'.current_input[p]
                /\ backend'.last_input[p] = backend.last_input[p]
          BY <1>2, <4>1 DEF Backends, InputBuffers
        <4> QED BY <1>1, <4>1, <4>2, <4>3
      <3>4. CASE ~(player < MaxPlayers)
        <4>1. backend' = backend /\ sync' = Fail(sync, "no such player")
          BY <3>1, <3>4 DEF AddLocalInputTo
        <4>2. "no such player" \in Panics \ {NoPanic}
          BY DEF Panics, NoPanic
        <4>3. Good(sync') /\ sync'.frame_count = sync.frame_count
          BY <1>1, <4>1, <4>2, FailPreserves
        <4>4. sync'.frame_count >= sync.frame_count
          BY <1>1, <4>3
        <4> QED BY <1>2, <4>1, <4>3, <4>4
      <3> QED BY <3>3, <3>4
    <2>4. CASE SynchronizeInput
      <3>1. Good(sync') /\ sync'.frame_count >= sync.frame_count
        BY <1>1, <1>2, <2>4, MethodsPreserve DEF SynchronizeInput
      <3>2. backend' = backend \/ backend' = Answered
        BY <2>4 DEF SynchronizeInput
      <3> QED BY <1>2, <3>1, <3>2 DEF Answered, Backends
    <2>5. CASE BackendIncrementFrame
      <3>1. "not implemented" \in Panics \ {NoPanic}
        BY DEF Panics, NoPanic
      <3>2. backend' = backend /\ sync' = Fail(sync, "not implemented")
        BY <2>5 DEF BackendIncrementFrame
      <3>3. Good(sync') /\ sync'.frame_count = sync.frame_count
        BY <1>1, <3>1, <3>2, FailPreserves
      <3>4. sync'.frame_count >= sync.frame_count
        BY <1>1, <3>3
      <3> QED BY <1>2, <3>2, <3>3, <3>4
    <2> QED BY <2>1, <2>2, <2>3, <2>4, <2>5
  <1>4. \A p \in 0 .. MaxPlayers - 1 :
            /\ backend'.last_input[p] \subseteq backend'.current_input[p]
            /\ backend.last_input[p] \subseteq backend'.last_input[p]
    BY <1>2, <1>3, BackendStep
  <1>5. Sticky' /\ ~Released(backend.last_input, backend'.last_input)
    BY <1>4 DEF Sticky, Released
  <1> QED BY <1>3, <1>5 DEF Good, IInv, Saved, Ring, Current, Goes, RingOf

\* Every step keeps the invariant, the frame count and the answered buttons.
LEMMA NextPreserves ==
    ASSUME IInv, [Next]_vars
    PROVE  /\ IInv' /\ sync'.frame_count >= sync.frame_count
           /\ backend # NoBackend =>
                ~Released(backend.last_input, backend'.last_input)
  <1>1. CASE UNCHANGED vars
    <2>1. sync' = sync /\ backend' = backend
      BY <1>1 DEF vars
    <2>2. sync.frame_count \in Nat
      BY DEF IInv, Syncs
    <2>3. IInv'
      BY <2>1 DEF IInv, Saved, Sticky, Ring, Current, Goes
    <2>4. ~Released(backend.last_input, backend'.last_input)
      BY <2>1 DEF Released
    <2> QED BY <2>1, <2>2, <2>3, <2>4
  <1>2. CASE \/ LayerSaveCurrentFrame \/ LayerIncrementFrame
             \/ LayerAddLocalInput \/ LayerLoadFrame
             \/ LayerAdjustSimulation \/ LayerSetLastConfirmedFrame
    BY <1>2, LayerPreserves
  <1>3. CASE \/ DoPoll \/ AddPlayer \/ BackendAddLocalInput
             \/ SynchronizeInput \/ BackendIncrementFrame
    BY <1>3, BackendPreserves
  <1> QED BY <1>1, <1>2, <1>3 DEF Next

\* IInv is an inductive invariant.
THEOREM Invariant == Spec => []IInv
  <1>1. IInv /\ [Next]_vars => IInv'
    BY NextPreserves
  <1> QED BY <1>1, InitEstablishes, PTL DEF Spec

\* The ring is filled slot by slot up to its head (SyncSpec!TypeOK).
THEOREM TypeCorrect == Spec => []TypeOK
  BY Invariant, TypeFollows, PTL

\* The newest save is of the current frame, however the layer was driven.
THEOREM NewestSaveIsCurrent == Spec => []NewestSaveIsTheCurrentFrame
  BY Invariant, NewestFollows, PTL

\* A search for a saved frame finds the one before it.
THEOREM SearchFindsTheFrameBefore == Spec => []FoundFrameIsTheOneBefore
  BY Invariant, FrameBeforeFollows, PTL

\* No rollback ever takes the game back.
THEOREM NoRollbackCompletes == Spec => GameNeverGoesBack
  <1>1. IInv /\ [Next]_vars => [sync'.frame_count >= sync.frame_count]_vars
    BY NextPreserves
  <1> QED BY <1>1, Invariant, PTL DEF Spec, GameNeverGoesBack

\* The sync test's answers never release a button.
THEOREM ButtonsStayPressed == Spec => ButtonsAreNeverReleased
  <1>1. IInv /\ [Next]_vars =>
            [backend # NoBackend =>
                ~Released(backend.last_input, backend'.last_input)]_vars
    BY NextPreserves
  <1> QED BY <1>1, Invariant, PTL DEF Spec, ButtonsAreNeverReleased
=============================================================================
