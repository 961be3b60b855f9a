-------------------------- MODULE InputQueue_proofs --------------------------
(***************************************************************************)
(* Proofs about InputQueueSpec, for every length of the ring, every bound  *)
(* on prediction and lead, and both kinds of build.                        *)
(***************************************************************************)
EXTENDS InputQueueSpec, RingArithmetic, TLAPS

USE BlankAssumption, QueueAssumption, CallerAssumption

\* The two parts of a method's outcome.
LEMMA OutcomeFields ==
    ASSUME NEW q, NEW assertion, NEW outcome, outcome = Outcome(q, assertion)
    PROVE  outcome.queue = q /\ outcome.panic = assertion
  BY DEF Outcome

-----------------------------------------------------------------------------
(* What the ring holds.                                                    *)

\* The slot behind the head holds the newest input.
LEMMA NewestInput ==
    ASSUME TypeOK, RingHoldsNewestInputs
    PROVE  /\ log = <<>> => Newest(queue) = NewInput
           /\ log # <<>> => Newest(queue) = [frame |-> LastAdded,
                                             bits |-> log[Len(log)]]
  <1>1. CASE log = <<>>
    <2>1. queue.head = 0 /\ LastAdded = -1
      <3>1. Len(log) = 0 /\ queue.head = Len(log) % QLen
        BY <1>1 DEF RingHoldsNewestInputs
      <3>2. 0 % QLen = 0
        BY ModSmall
      <3> QED BY <3>1, <3>2 DEF LastAdded
    <2>2. PreviousSlot(queue.head) = QLen - 1 /\ QLen - 1 \in Slots
      BY <2>1 DEF PreviousSlot, Slots
    <2> QED BY <1>1, <2>1, <2>2 DEF Newest, RingHoldsNewestInputs
  <1>2. CASE log # <<>>
    <2>1. Len(log) \in Nat \ {0} /\ LastAdded \in Nat /\ LastAdded + 1 = Len(log)
      BY <1>2 DEF TypeOK, LastAdded
    <2>2. LastAdded % QLen = IF (LastAdded + 1) % QLen = 0 THEN QLen - 1
                             ELSE ((LastAdded + 1) % QLen) - 1
      BY <2>1, ModPrevious
    <2>3. PreviousSlot(queue.head) = LastAdded % QLen
      BY <2>1, <2>2 DEF PreviousSlot, RingHoldsNewestInputs
    <2>4. LastAdded \in 0 .. LastAdded /\ LastAdded > LastAdded - QLen
      BY <2>1
    <2>5. queue.inputs[LastAdded % QLen] = [frame |-> LastAdded,
                                            bits |-> log[LastAdded + 1]]
      BY <2>4 DEF RingHoldsNewestInputs
    <2> QED BY <1>2, <2>1, <2>3, <2>5 DEF Newest
  <1> QED BY <1>1, <1>2

\* The length of a non-empty log and the window of inputs not discarded.
LEMMA Window ==
    ASSUME TypeOK, RingHoldsNewestInputs, RollbackInputsKept, WithinTheBarrier
    PROVE  /\ OldestKept \in Nat
           /\ Len(log) \in Nat
           /\ queue.length = Len(log) - OldestKept
           /\ queue.length \in 0 .. QLen
           /\ queue.tail = OldestKept % QLen
           /\ queue.tail \in Slots
           /\ log # <<>> => OldestKept <= LastAdded /\ LastAdded \in Nat
           /\ log # <<>> => OldestKept > LastAdded - QLen
           /\ log = <<>> => OldestKept = 0
  <1>1. OldestKept \in Nat /\ Len(log) \in Nat
    BY DEF TypeOK, OldestKept, Frame, NoFrame, FrameNum
  <1>2. queue.length \in 0 .. QLen /\ queue.tail \in Slots
    BY DEF TypeOK, Queues
  <1>3. queue.length = Len(log) - OldestKept
    BY <1>1, <1>2 DEF RollbackInputsKept
  <1>4. queue.tail = OldestKept % QLen
    BY <1>1, <1>3 DEF RingHoldsNewestInputs
  <1>5. ASSUME log # <<>>
        PROVE  OldestKept <= LastAdded /\ LastAdded \in Nat
    <2>1. LastAdded \in Nat
      BY <1>5 DEF TypeOK, LastAdded
    <2> QED BY <2>1 DEF WithinTheBarrier, OldestKept, TypeOK, Frame, NoFrame, FrameNum
  <1>6. ASSUME log = <<>>
        PROVE  OldestKept = 0
    <2>1. Len(log) = 0
      BY <1>6
    <2> QED BY <2>1, <1>1, <1>2, <1>3
  <1> QED BY <1>1, <1>2, <1>3, <1>4, <1>5, <1>6 DEF LastAdded

\* The tail slot holds the oldest input that is not discarded.
LEMMA OldestInput ==
    ASSUME TypeOK, RingHoldsNewestInputs, RollbackInputsKept, WithinTheBarrier
    PROVE  /\ log = <<>> => Oldest(queue) = NewInput
           /\ log # <<>> => Oldest(queue).frame = OldestKept
  <1>1. ASSUME log = <<>>
        PROVE  Oldest(queue) = NewInput
    <2>1. queue.tail \in Slots /\ queue.tail \in Nat /\ LastAdded = -1
      BY <1>1, Window DEF LastAdded, Slots
    <2> QED BY <2>1 DEF Oldest, RingHoldsNewestInputs
  <1>2. ASSUME log # <<>>
        PROVE  Oldest(queue).frame = OldestKept
    <2>1. OldestKept \in 0 .. LastAdded /\ OldestKept > LastAdded - QLen
      BY <1>2, Window
    <2>2. queue.inputs[OldestKept % QLen] = [frame |-> OldestKept,
                                             bits |-> log[OldestKept + 1]]
      BY <2>1 DEF RingHoldsNewestInputs
    <2> QED BY <2>2, Window DEF Oldest
  <1> QED BY <1>1, <1>2
-----------------------------------------------------------------------------
(* What get_input answers.                                                 *)

\* The queue answers from a slot exactly the frames that have arrived, and
\* from the slot of that frame.
LEMMA AnsweredFromTheRing ==
    ASSUME IInv, Running, ~FrameAnswered, queue.first_incorrect_frame = NoFrame
    PROVE  /\ Oldest(queue).frame <= frame_count
           /\ Answered(queue, frame_count) <=> frame_count < Len(log)
           /\ frame_count < Len(log) =>
                SlotOf(queue, frame_count) = [frame |-> frame_count,
                                              bits |-> log[frame_count + 1]]
  <1> USE DEF IInv
  <1>1. frame_count \in Nat /\ frame_count = Len(answers) /\ Len(log) \in Nat
    BY DEF TypeOK, WithinTheBarrier, FrameAnswered, FrameNum
  <1>2. Predicting(queue) <=> frame_count > Len(log)
    BY <1>1 DEF PredictsWhenItShould
  <1>3. CASE log = <<>>
    <2>1. Oldest(queue).frame = NoFrame /\ Len(log) = 0
      BY <1>3, OldestInput DEF NewInput
    <2> QED BY <2>1, <1>1 DEF Answered, Holds, NoFrame
  <1>4. CASE log # <<>>
    <2>1. /\ Oldest(queue).frame = OldestKept /\ OldestKept \in Nat
          /\ OldestKept <= frame_count
      BY <1>4, OldestInput, Window DEF RollbackInputsKept
    <2>2. Holds(queue, frame_count) <=> frame_count < Len(log)
      BY <1>1, <1>2, <2>1, Window DEF Holds, NoFrame
    <2>3. ASSUME frame_count < Len(log)
          PROVE  SlotOf(queue, frame_count) = [frame |-> frame_count,
                                               bits |-> log[frame_count + 1]]
      <3> DEFINE d == frame_count - OldestKept
      <3>1. d \in Nat /\ d + OldestKept = frame_count
        BY <1>1, <2>1
      <3>2. ((OldestKept % QLen) + d) % QLen = (OldestKept + d) % QLen
        BY <2>1, <3>1, ModAdd
      <3>3. (d + queue.tail) % QLen = frame_count % QLen
        BY <3>1, <3>2, <2>1, Window
      <3>4. frame_count \in 0 .. LastAdded /\ frame_count > LastAdded - QLen
        BY <1>1, <1>4, <2>1, <2>3, Window DEF LastAdded
      <3> QED BY <2>1, <3>3, <3>4 DEF SlotOf, RingHoldsNewestInputs
    <2> QED BY <1>1, <2>1, <2>2, <2>3 DEF Answered, NoFrame
  <1> QED BY <1>3, <1>4

\* A frame that has not arrived is answered with the prediction that is held,
\* or with a new one that repeats the newest input; with nothing ever added
\* there is no prediction.
LEMMA PredictedFromTheNewest ==
    ASSUME IInv, Running, ~FrameAnswered, queue.first_incorrect_frame = NoFrame,
           frame_count >= Len(log)
    PROVE  /\ log = <<>> => NextPrediction(queue, frame_count).frame = NoFrame
           /\ log # <<>> => NextPrediction(queue, frame_count) =
                [frame |-> Len(log),
                 bits |-> IF frame_count > Len(log) THEN queue.prediction.bits
                                                    ELSE log[Len(log)]]
  <1> USE DEF IInv
  <1>1. frame_count \in Nat /\ frame_count = Len(answers) /\ Len(log) \in Nat
    BY DEF TypeOK, WithinTheBarrier, FrameAnswered, FrameNum
  <1>2. /\ Predicting(queue) <=> frame_count > Len(log)
        /\ Predicting(queue) => queue.prediction.frame = Len(log) /\ log # <<>>
    BY <1>1 DEF PredictsWhenItShould
  <1>3. queue.prediction \in GameInputs
    BY DEF TypeOK, Queues
  <1>4. CASE log = <<>>
    BY <1>2, <1>4, OldestInput DEF NextPrediction, NewInput, Predicting
  <1>5. CASE log # <<>>
    <2>1. Oldest(queue).frame # NoFrame
      BY <1>5, OldestInput, Window DEF NoFrame
    <2>2. CASE Predicting(queue)
      <3>1. NextPrediction(queue, frame_count) = queue.prediction
        BY <2>2 DEF NextPrediction
      <3>2. queue.prediction = [frame |-> queue.prediction.frame,
                                bits |-> queue.prediction.bits]
        BY <1>3 DEF GameInputs
      <3> QED BY <1>2, <1>5, <2>2, <3>1, <3>2
    <2>3. CASE ~Predicting(queue)
      <3>1. frame_count = Len(log) /\ frame_count # 0 /\ LastAdded # NoFrame
            /\ LastAdded + 1 = Len(log)
        BY <1>1, <1>2, <1>5, <2>3 DEF LastAdded, NoFrame, TypeOK
      <3>2. queue.last_added_frame # NoFrame
        BY <3>1 DEF RingHoldsNewestInputs
      <3>3. Newest(queue) = [frame |-> LastAdded, bits |-> log[Len(log)]]
        BY <1>5, NewestInput
      <3>4. NextPrediction(queue, frame_count) =
                [Newest(queue) EXCEPT !.frame = @ + 1]
        BY <2>1, <2>3, <3>1, <3>2, <3>3 DEF NextPrediction
      <3> QED BY <1>5, <3>1, <3>3, <3>4
    <2> QED BY <2>2, <2>3
  <1> QED BY <1>4, <1>5

\* What a call of get_input for the current frame does.
LEMMA GetInputOutcome ==
    ASSUME IInv, Running, ~FrameAnswered, queue.first_incorrect_frame = NoFrame,
           NEW got, got = GetInput(queue, frame_count)
    PROVE  /\ got.panic = IF log = <<>> THEN "nothing to predict from"
                                        ELSE NoPanic
           /\ got.confirmed \in BOOLEAN
           /\ got.confirmed <=> frame_count < Len(log)
           /\ frame_count < Len(log) =>
                /\ got.bits = log[frame_count + 1]
                /\ got.queue = [queue EXCEPT !.last_frame_requested = frame_count]
           /\ ~(frame_count < Len(log)) /\ log # <<>> =>
                /\ got.queue = [queue EXCEPT
                        !.last_frame_requested = frame_count,
                        !.prediction = [frame |-> Len(log),
                                        bits |-> IF frame_count > Len(log)
                                                 THEN queue.prediction.bits
                                                 ELSE log[Len(log)]]]
                /\ got.bits = IF frame_count > Len(log)
                              THEN queue.prediction.bits ELSE log[Len(log)]
  <1>1. /\ frame_count \in Nat /\ Len(log) \in Nat
        /\ queue \in Queues /\ (log = <<>> <=> Len(log) = 0)
    BY DEF IInv, TypeOK, FrameNum
  <1>2. /\ Oldest(queue).frame <= frame_count
        /\ ~(Oldest(queue).frame > frame_count)
        /\ Answered(queue, frame_count) <=> frame_count < Len(log)
    <2>1. Oldest(queue).frame <= frame_count
          /\ (Answered(queue, frame_count) <=> frame_count < Len(log))
      BY AnsweredFromTheRing
    <2>2. Oldest(queue).frame \in Int
      BY OldestInput, Window DEF IInv, NewInput, NoFrame
    <2> QED BY <1>1, <2>1, <2>2
  <1>3. /\ got.queue = [queue EXCEPT
                !.last_frame_requested = frame_count,
                !.prediction = IF Answered(queue, frame_count)
                               THEN queue.prediction
                               ELSE NextPrediction(queue, frame_count)]
        /\ got.panic = GetInputPanic(queue, frame_count)
        /\ got.confirmed = Answered(queue, frame_count)
        /\ got.bits = IF Answered(queue, frame_count)
                      THEN SlotOf(queue, frame_count).bits
                      ELSE IF Answered(queue, frame_count)
                           THEN queue.prediction.bits
                           ELSE NextPrediction(queue, frame_count).bits
    BY Zenon DEF GetInput
  <1>4. got.confirmed \in BOOLEAN /\ (got.confirmed <=> frame_count < Len(log))
    <2>1. Answered(queue, frame_count) \in BOOLEAN
      BY DEF Answered
    <2> QED BY <1>2, <1>3, <2>1
  <1>5. CASE frame_count < Len(log)
    <2>1. SlotOf(queue, frame_count) = [frame |-> frame_count,
                                        bits |-> log[frame_count + 1]]
      BY <1>5, AnsweredFromTheRing
    <2>2. Answered(queue, frame_count)
      BY <1>2, <1>5
    <2>3. GetInputPanic(queue, frame_count) = NoPanic
      <3>1. SlotOf(queue, frame_count).frame = frame_count
        BY <2>1
      <3> QED BY <1>2, <2>2, <3>1, Zenon DEF GetInputPanic
    <2>4. got.queue = [queue EXCEPT !.last_frame_requested = frame_count]
      <3>1. got.queue = [queue EXCEPT !.last_frame_requested = frame_count,
                                      !.prediction = queue.prediction]
        BY <1>3, <2>2, Zenon
      <3> QED BY <1>1, <3>1 DEF Queues
    <2>5. got.bits = log[frame_count + 1]
      BY <1>3, <2>1, <2>2
    <2>6. log # <<>>
      BY <1>1, <1>5
    <2> QED BY <1>1, <1>3, <1>4, <1>5, <2>3, <2>4, <2>5, <2>6
  <1>6. CASE frame_count >= Len(log)
    <2>1. ~Answered(queue, frame_count) /\ ~(frame_count < Len(log))
      BY <1>1, <1>2, <1>6
    <2>2. GetInputPanic(queue, frame_count) =
            IF NextPrediction(queue, frame_count).frame = NoFrame
            THEN "nothing to predict from" ELSE NoPanic
      BY <1>2, <2>1 DEF GetInputPanic
    <2>3. got.panic = IF log = <<>> THEN "nothing to predict from" ELSE NoPanic
      <3>1. CASE log = <<>>
        BY <1>3, <1>6, <3>1, <2>2, PredictedFromTheNewest
      <3>2. CASE log # <<>>
        <4>1. NextPrediction(queue, frame_count).frame = Len(log)
          BY <1>6, <3>2, PredictedFromTheNewest
        <4> QED BY <1>1, <1>3, <3>2, <2>2, <4>1 DEF NoFrame
      <3> QED BY <3>1, <3>2
    <2>4. /\ got.queue = [queue EXCEPT !.last_frame_requested = frame_count,
                            !.prediction = NextPrediction(queue, frame_count)]
          /\ got.bits = NextPrediction(queue, frame_count).bits
      BY <1>3, <2>1, Zenon
    <2>5. log # <<>> => NextPrediction(queue, frame_count) =
                [frame |-> Len(log),
                 bits |-> IF frame_count > Len(log) THEN queue.prediction.bits
                                                    ELSE log[Len(log)]]
      BY <1>6, PredictedFromTheNewest
    <2>6. log # <<>> =>
            /\ got.queue = [queue EXCEPT
                    !.last_frame_requested = frame_count,
                    !.prediction = [frame |-> Len(log),
                                    bits |-> IF frame_count > Len(log)
                                             THEN queue.prediction.bits
                                             ELSE log[Len(log)]]]
            /\ got.bits = IF frame_count > Len(log) THEN queue.prediction.bits
                                                    ELSE log[Len(log)]
      <3> DEFINE bits == IF frame_count > Len(log) THEN queue.prediction.bits
                                                   ELSE log[Len(log)]
      <3>1. log # <<>> => NextPrediction(queue, frame_count) =
                [frame |-> Len(log), bits |-> bits]
        BY <2>5
      <3> HIDE DEF bits
      <3>2. log # <<>> => got.bits = bits
        BY <2>4, <3>1
      <3>3. log # <<>> => got.queue = [queue EXCEPT
                    !.last_frame_requested = frame_count,
                    !.prediction = [frame |-> Len(log), bits |-> bits]]
        BY <2>4, <3>1, Zenon
      <3> QED BY <3>2, <3>3, Zenon DEF bits
    <2> QED BY <1>4, <2>1, <2>3, <2>6, Zenon
  <1>7. frame_count < Len(log) \/ frame_count >= Len(log)
    BY <1>1
  <1> QED BY <1>5, <1>6, <1>7, Zenon

-----------------------------------------------------------------------------
(* Each step preserves the invariant.                                      *)

\* When only the panic changes, everything but the last conjunct is kept.
LEMMA PanicPreserves ==
    ASSUME IInv, panic' \in Panics, OnlyTwoAssertionsFail',
           UNCHANGED <<queue, callerVars, log, answers>>
    PROVE  IInv'
  <1>1. TypeOK'
    BY DEF IInv, TypeOK, callerVars
  <1>2. /\ RingHoldsNewestInputs' /\ RollbackInputsKept' /\ WithinTheBarrier'
        /\ QueueKnowsTheHistory' /\ PredictsWhenItShould'
    BY DEF IInv, callerVars, RingHoldsNewestInputs, RollbackInputsKept,
           WithinTheBarrier, QueueKnowsTheHistory, PredictsWhenItShould,
           OldestKept, LastAdded, Predicting
  <1>3. /\ PredictionIsWhatTheGameWasGiven' /\ EveryPredictionIsJudged'
        /\ ConfirmedAnswersMatchTheLog'
    BY DEF IInv, callerVars, PredictionIsWhatTheGameWasGiven, LastAdded,
           EveryPredictionIsJudged, ConfirmedAnswersMatchTheLog, Predicting,
           History!PredictedFrame, History!Accepted
  <1> QED BY <1>1, <1>2, <1>3 DEF IInv

\* What stays true of the ring when a step leaves it and the log alone.
LEMMA RingUnchanged ==
    ASSUME RingHoldsNewestInputs, UNCHANGED log,
           queue'.head = queue.head, queue'.tail = queue.tail,
           queue'.length = queue.length, queue'.inputs = queue.inputs,
           queue'.last_added_frame = queue.last_added_frame
    PROVE  RingHoldsNewestInputs'
  BY DEF RingHoldsNewestInputs, LastAdded

\* Asking the queue for the next frame, or failing to, keeps the invariant.
LEMMA SynchronizeInputPreserves ==
    ASSUME IInv, SynchronizeInput
    PROVE  IInv'
  <1> DEFINE got == GetInput(queue, frame_count)
  <1>1. /\ Running /\ ~FrameAnswered
        /\ queue.first_incorrect_frame = NoFrame
        /\ RollingBack \/ BarrierOpen
        /\ panic' = got.panic
        /\ UNCHANGED <<callerVars, log>>
        /\ got.panic = NoPanic =>
                /\ queue' = got.queue
                /\ answers' = Append(answers, [bits |-> got.bits,
                                               confirmed |-> got.confirmed])
        /\ got.panic # NoPanic => UNCHANGED <<queue, answers>>
    BY DEF SynchronizeInput
  <1>2. /\ got.panic = IF log = <<>> THEN "nothing to predict from" ELSE NoPanic
        /\ got.confirmed \in BOOLEAN
        /\ got.confirmed <=> frame_count < Len(log)
        /\ frame_count < Len(log) =>
                /\ got.bits = log[frame_count + 1]
                /\ got.queue = [queue EXCEPT !.last_frame_requested = frame_count]
        /\ ~(frame_count < Len(log)) /\ log # <<>> =>
                /\ got.queue = [queue EXCEPT
                        !.last_frame_requested = frame_count,
                        !.prediction = [frame |-> Len(log),
                                        bits |-> IF frame_count > Len(log)
                                                 THEN queue.prediction.bits
                                                 ELSE log[Len(log)]]]
                /\ got.bits = IF frame_count > Len(log)
                              THEN queue.prediction.bits ELSE log[Len(log)]
    BY <1>1, GetInputOutcome
  <1> HIDE DEF got
  <1>3. CASE log = <<>>
    <2>1. got.panic # NoPanic /\ panic' = "nothing to predict from"
      BY <1>1, <1>2, <1>3 DEF NoPanic
    <2>2. OnlyTwoAssertionsFail'
      BY <1>1, <1>3, <2>1 DEF OnlyTwoAssertionsFail
    <2>3. panic' \in Panics /\ UNCHANGED <<queue, callerVars, log, answers>>
      BY <1>1, <2>1 DEF Panics
    <2> QED BY <2>2, <2>3, PanicPreserves
  <1>4. CASE log # <<>>
    <2>1. /\ panic' = NoPanic /\ queue' = got.queue
          /\ answers' = Append(answers, [bits |-> got.bits,
                                         confirmed |-> got.confirmed])
      BY <1>1, <1>2, <1>4
    <2>2. /\ frame_count \in Nat /\ Len(log) \in Nat \ {0}
          /\ frame_count = Len(answers) /\ queue \in Queues
          /\ queue.prediction \in GameInputs /\ log[Len(log)] \in Bits
          /\ frame_count < Len(log) => log[frame_count + 1] \in Bits
      BY <1>1, <1>4 DEF IInv, TypeOK, WithinTheBarrier, FrameAnswered, FrameNum,
                        Queues
    <2>3. got.bits \in Bits
      BY <1>2, <1>4, <2>2 DEF GameInputs
    <2>4. /\ answers' \in Seq(History!Answer)
          /\ Len(answers') = frame_count + 1
          /\ \A i \in 1 .. frame_count : answers'[i] = answers[i]
          /\ answers'[frame_count + 1].bits = got.bits
          /\ answers'[frame_count + 1].confirmed <=> frame_count < Len(log)
      <3> DEFINE answer == [bits |-> got.bits, confirmed |-> got.confirmed]
      <3>1. answer \in History!Answer /\ answers \in Seq(History!Answer)
        BY <1>2, <2>3 DEF IInv, TypeOK, History!Answer
      <3>2. answer.bits = got.bits /\ answer.confirmed = got.confirmed
        OBVIOUS
      <3> HIDE DEF answer
      <3>3. answers' = Append(answers, answer)
        BY <2>1 DEF answer
      <3>4. /\ answers' \in Seq(History!Answer)
            /\ Len(answers') = frame_count + 1
            /\ \A i \in 1 .. frame_count : answers'[i] = answers[i]
            /\ answers'[frame_count + 1] = answer
        BY <2>2, <3>1, <3>3
      <3> QED BY <1>2, <3>2, <3>4
    <2>5. /\ Predicting(queue) <=> frame_count > Len(log)
          /\ Predicting(queue) => queue.prediction.frame = Len(log)
      BY <1>1, <2>2 DEF IInv, PredictsWhenItShould
    <2>6. /\ queue'.head = queue.head /\ queue'.tail = queue.tail
          /\ queue'.length = queue.length /\ queue'.inputs = queue.inputs
          /\ queue'.first_frame = queue.first_frame
          /\ queue'.last_user_added_frame = queue.last_user_added_frame
          /\ queue'.last_added_frame = queue.last_added_frame
          /\ queue'.first_incorrect_frame = NoFrame
          /\ queue'.last_frame_requested = frame_count
          /\ frame_count < Len(log) => queue'.prediction = queue.prediction
          /\ ~(frame_count < Len(log)) =>
                queue'.prediction = [frame |-> Len(log), bits |-> got.bits]
          /\ queue' \in Queues
      <3>1. CASE frame_count < Len(log)
        <4>1. queue' = [queue EXCEPT !.last_frame_requested = frame_count]
          BY <1>2, <2>1, <3>1
        <4> QED BY <1>1, <2>2, <3>1, <4>1 DEF Queues, Frame, FrameNum
      <3>2. CASE ~(frame_count < Len(log))
        <4>1. queue' = [queue EXCEPT
                           !.last_frame_requested = frame_count,
                           !.prediction = [frame |-> Len(log), bits |-> got.bits]]
          BY <1>2, <1>4, <2>1, <3>2, Zenon
        <4>2. [frame |-> Len(log), bits |-> got.bits] \in GameInputs
          BY <2>2, <2>3 DEF GameInputs, Frame, FrameNum
        <4> QED BY <1>1, <2>2, <3>2, <4>1, <4>2 DEF Queues, Frame, FrameNum
      <3> QED BY <3>1, <3>2
    <2>7. TypeOK'
      <3>1. panic' \in Panics
        BY <2>1 DEF Panics
      <3> QED BY <1>1, <2>4, <2>6, <3>1 DEF IInv, TypeOK, callerVars
    <2>8. RingHoldsNewestInputs'
      BY <1>1, <2>6, RingUnchanged DEF IInv
    <2>9. RollbackInputsKept'
      BY <1>1, <2>6 DEF IInv, RollbackInputsKept, OldestKept, callerVars
    <2>10. WithinTheBarrier'
      <3>1. frame_count + 1 <= OldestKept + MaxPrediction
        <4>1. CASE RollingBack
          BY <4>1, <2>2 DEF IInv, WithinTheBarrier, RollingBack, TypeOK, OldestKept,
                            Frame, FrameNum, NoFrame
        <4>2. CASE BarrierOpen
          BY <4>2, <2>2 DEF IInv, BarrierOpen, FramesBehind, TypeOK, OldestKept,
                            Frame, FrameNum, NoFrame
        <4> QED BY <1>1, <4>1, <4>2
      <3> QED BY <1>1, <2>2, <2>4, <3>1
              DEF IInv, WithinTheBarrier, OldestKept, LastAdded, callerVars
    <2>11. QueueKnowsTheHistory'
      BY <1>1, <2>2, <2>4, <2>6 DEF IInv, QueueKnowsTheHistory, LastAdded, NoFrame
    <2>12. PredictsWhenItShould'
      BY <1>1, <1>4, <2>2, <2>4, <2>5, <2>6
         DEF PredictsWhenItShould, Predicting, NoFrame
    <2>13. PredictionIsWhatTheGameWasGiven'
      <3> SUFFICES ASSUME NEW f \in Len(log) .. frame_count
                   PROVE  /\ ~answers'[f + 1].confirmed
                          /\ Predicting(queue')
                          /\ queue'.prediction.frame = Len(log)
                          /\ queue'.prediction.bits = answers'[f + 1].bits
        BY <1>1, <2>2, <2>4 DEF PredictionIsWhatTheGameWasGiven
      <3>1. ~(frame_count < Len(log)) /\ f \in Nat
        BY <2>2
      <3>2. /\ Predicting(queue') /\ queue'.prediction.frame = Len(log)
            /\ queue'.prediction.bits = got.bits
        BY <2>2, <2>6, <3>1 DEF Predicting, NoFrame
      <3>3. CASE f = frame_count
        BY <1>2, <2>4, <3>1, <3>2, <3>3
      <3>4. CASE f # frame_count
        <4>1. f \in Len(log) .. Len(answers) - 1 /\ frame_count > Len(log)
              /\ f + 1 \in 1 .. frame_count
          BY <2>2, <3>4
        <4>2. /\ ~answers[f + 1].confirmed
              /\ queue.prediction.bits = answers[f + 1].bits
          BY <4>1 DEF IInv, PredictionIsWhatTheGameWasGiven
        <4>3. got.bits = queue.prediction.bits
          BY <1>2, <1>4, <3>1, <4>1
        <4> QED BY <2>4, <3>2, <4>1, <4>2, <4>3
      <3> QED BY <3>3, <3>4
    <2>14. EveryPredictionIsJudged'
      <3> SUFFICES ASSUME NEW f \in 0 .. LastAdded, History!PredictedFrame(f)'
                   PROVE  /\ History!Accepted(f, log[f + 1])'
                          /\ f # queue'.first_incorrect_frame
        BY <1>1, <2>6 DEF EveryPredictionIsJudged, LastAdded
      <3>1. f < Len(log) /\ f \in Nat
        BY <2>2 DEF LastAdded
      <3>2. f # frame_count
        BY <1>2, <2>4, <3>1 DEF History!PredictedFrame
      <3>3. f < frame_count /\ f + 1 \in 1 .. frame_count
        BY <2>2, <2>4, <3>1, <3>2 DEF History!PredictedFrame
      <3>4. answers'[f + 1] = answers[f + 1]
        BY <2>4, <3>3
      <3>5. History!PredictedFrame(f)
        BY <2>2, <3>3, <3>4 DEF History!PredictedFrame
      <3>6. History!Accepted(f, log[f + 1])
        BY <1>1, <3>5 DEF IInv, EveryPredictionIsJudged
      <3> QED BY <1>1, <2>6, <3>1, <3>4, <3>6
              DEF History!Accepted, History!Equal, NoFrame
    <2>15. ConfirmedAnswersMatchTheLog'
      <3> SUFFICES ASSUME NEW f \in 0 .. frame_count, answers'[f + 1].confirmed
                   PROVE  f <= LastAdded /\ answers'[f + 1].bits = log[f + 1]
        BY <1>1, <2>2, <2>4 DEF ConfirmedAnswersMatchTheLog, LastAdded
      <3>1. CASE f = frame_count
        BY <1>2, <2>2, <2>4, <3>1 DEF LastAdded
      <3>2. CASE f # frame_count
        <4>1. f \in 0 .. Len(answers) - 1 /\ answers'[f + 1] = answers[f + 1]
          BY <2>2, <2>4, <3>2
        <4> QED BY <4>1 DEF IInv, ConfirmedAnswersMatchTheLog
      <3> QED BY <3>1, <3>2
    <2>16. OnlyTwoAssertionsFail'
      BY <2>1 DEF OnlyTwoAssertionsFail, Running
    <2> QED BY <2>7, <2>8, <2>9, <2>10, <2>11, <2>12, <2>13, <2>14, <2>15, <2>16
            DEF IInv
  <1> QED BY <1>3, <1>4

\* Advancing the frame counter leaves the queue alone and keeps the invariant.
LEMMA IncrementFramePreserves ==
    ASSUME IInv, IncrementFrame
    PROVE  IInv'
  <1>1. /\ Running /\ Len(answers) = frame_count + 1
        /\ frame_count' = frame_count + 1
        /\ replay_to' = IF replay_to = frame_count + 1 THEN NoFrame ELSE replay_to
        /\ UNCHANGED <<queue, last_confirmed_frame, panic, log, answers>>
    BY DEF IncrementFrame, FrameAnswered
  <1>2. /\ frame_count \in Nat /\ Len(log) \in Nat /\ OldestKept \in Nat
        /\ last_confirmed_frame \in Int /\ OldestKept' = OldestKept
    BY <1>1, Window DEF IInv, TypeOK, FrameNum, Frame, NoFrame, OldestKept
  <1>3. replay_to' = NoFrame \/ replay_to' = replay_to
    BY <1>1
  <1>4. TypeOK'
    BY <1>1, <1>2, <1>3 DEF IInv, TypeOK, FrameNum, Frame
  <1>5. RingHoldsNewestInputs'
    BY <1>1, RingUnchanged DEF IInv
  <1>6. RollbackInputsKept'
    BY <1>1, <1>2 DEF IInv, RollbackInputsKept
  <1>7. WithinTheBarrier'
    <2>1. replay_to' # NoFrame =>
            frame_count' < replay_to' /\ replay_to' <= OldestKept' + MaxPrediction
      BY <1>1, <1>2 DEF IInv, WithinTheBarrier, TypeOK, Frame, FrameNum, NoFrame
    <2> QED BY <1>1, <1>2, <2>1 DEF IInv, WithinTheBarrier, LastAdded
  <1>8. QueueKnowsTheHistory' /\ PredictsWhenItShould'
    BY <1>1, <1>3 DEF IInv, QueueKnowsTheHistory, PredictsWhenItShould, LastAdded,
                      Predicting
  <1>9. /\ PredictionIsWhatTheGameWasGiven' /\ EveryPredictionIsJudged'
        /\ ConfirmedAnswersMatchTheLog' /\ OnlyTwoAssertionsFail'
    BY <1>1 DEF IInv, PredictionIsWhatTheGameWasGiven, LastAdded,
           EveryPredictionIsJudged, ConfirmedAnswersMatchTheLog, Predicting,
           History!PredictedFrame, History!Accepted, OnlyTwoAssertionsFail, Running
  <1> QED BY <1>4, <1>5, <1>6, <1>7, <1>8, <1>9 DEF IInv

\* What a call of discard_confirmed_frames does for a newly confirmed frame:
\* it leaves that frame as the oldest kept, and only a debug build that is
\* asked again for the frame confirmed last stops instead.
LEMMA DiscardOutcome ==
    ASSUME IInv, Polling, queue.first_incorrect_frame = NoFrame,
           NEW frame \in Nat, frame > 0, frame >= last_confirmed_frame,
           frame <= LastAdded, frame <= frame_count,
           NEW discarded, discarded = DiscardConfirmedFrames(queue, frame - 1)
    PROVE  \/ /\ discarded.panic = "discard before the tail"
              /\ OverflowChecks /\ frame = last_confirmed_frame
           \/ /\ discarded.panic = NoPanic
              /\ discarded.queue = [queue EXCEPT !.tail = frame % QLen,
                                                 !.length = Len(log) - frame]
              /\ Len(log) - frame \in 0 .. QLen /\ frame % QLen \in Slots
  <1>1. /\ frame_count = Len(answers) /\ frame_count \in Nat
        /\ LastAdded \in Nat /\ LastAdded = Len(log) - 1 /\ Len(log) \in Nat
        /\ log # <<>>
    BY DEF IInv, TypeOK, WithinTheBarrier, Polling, FrameAnswered, FrameNum,
           LastAdded
  <1>2. /\ OldestKept \in Nat /\ OldestKept <= frame
        /\ (frame = OldestKept => frame = last_confirmed_frame)
        /\ queue.length = Len(log) - OldestKept
        /\ queue.length \in 0 .. QLen /\ queue.tail = OldestKept % QLen
        /\ queue \in Queues
    BY <1>1, Window DEF IInv, OldestKept, TypeOK, Frame, NoFrame, FrameNum
  <1>3. DiscardUpTo(queue, frame - 1) = frame - 1
    BY <1>1 DEF DiscardUpTo, IInv, QueueKnowsTheHistory, NoFrame
  <1>4. /\ queue.last_added_frame # NoFrame
        /\ ~(frame - 1 >= queue.last_added_frame)
        /\ Oldest(queue).frame = OldestKept
        /\ Oldest(queue).frame # NoFrame
    BY <1>1, <1>2, OldestInput DEF IInv, RingHoldsNewestInputs, NoFrame
  <1>5. discarded = DiscardOldest(queue, frame - 1)
    BY <1>3, <1>4, Zenon DEF DiscardConfirmedFrames
  <1> DEFINE distance == frame - 1 - OldestKept
             offset == (distance + 1) % FrameMod
  <1>6. distance \in Int /\ distance + 1 = frame - OldestKept
    BY <1>2
  <1>7. offset = frame - OldestKept /\ offset \in 0 .. queue.length
    <2>1. /\ frame - OldestKept \in Nat /\ frame - OldestKept <= queue.length
          /\ frame - OldestKept < FrameMod
      BY <1>1, <1>2
    <2>2. (frame - OldestKept) % FrameMod = frame - OldestKept
      BY <2>1, ModSmall
    <2> QED BY <1>2, <1>6, <2>1, <2>2
  <1>8. discarded =
            IF OverflowChecks /\ distance < 0
            THEN Outcome(queue, "discard before the tail")
            ELSE IF OverflowChecks /\ offset > queue.length
            THEN Outcome(queue, "discard past the length")
            ELSE Outcome([queue EXCEPT
                            !.tail = (queue.tail + offset) % QLen,
                            !.length = (queue.length - offset) % UsizeMod],
                         NoPanic)
    BY <1>4, <1>5, Zenon DEF DiscardOldest
  <1> HIDE DEF distance, offset
  <1>9. CASE OverflowChecks /\ distance < 0
    <2>1. frame = OldestKept
      BY <1>2, <1>6, <1>9
    <2>2. discarded = Outcome(queue, "discard before the tail")
      BY <1>8, <1>9, Zenon
    <2>3. discarded.panic = "discard before the tail"
      BY <2>2, OutcomeFields
    <2> QED BY <1>2, <1>9, <2>1, <2>3
  <1>10. CASE ~(OverflowChecks /\ distance < 0)
    <2>1. ~(offset > queue.length)
      BY <1>2, <1>7
    <2>2. discarded = Outcome([queue EXCEPT
                            !.tail = (queue.tail + offset) % QLen,
                            !.length = (queue.length - offset) % UsizeMod],
                         NoPanic)
      BY <1>8, <1>10, <2>1, Zenon
    <2>3. (queue.tail + offset) % QLen = frame % QLen
      <3>1. ((OldestKept % QLen) + offset) % QLen = (OldestKept + offset) % QLen
        <4>1. offset \in Nat
          BY <1>2, <1>7
        <4> QED BY <1>2, <4>1, ModAdd
      <3>2. OldestKept + offset = frame
        BY <1>2, <1>7
      <3> QED BY <1>2, <3>1, <3>2
    <2>4. (queue.length - offset) % UsizeMod = Len(log) - frame
          /\ Len(log) - frame \in 0 .. QLen
      <3>1. queue.length - offset = Len(log) - frame
        BY <1>1, <1>2, <1>7
      <3>2. queue.length - offset \in 0 .. QLen
        BY <1>2, <1>7
      <3>3. (queue.length - offset) % UsizeMod = queue.length - offset
        BY <3>2, ModSmall
      <3> QED BY <3>1, <3>2, <3>3
    <2>5. frame % QLen \in Slots
      BY ModRange DEF Slots
    <2>6. /\ discarded.panic = NoPanic
          /\ discarded.queue = [queue EXCEPT !.tail = frame % QLen,
                                             !.length = Len(log) - frame]
      <3> DEFINE kept == [queue EXCEPT !.tail = frame % QLen,
                                       !.length = Len(log) - frame]
      <3>1. discarded = Outcome(kept, NoPanic)
        BY <2>2, <2>3, <2>4, Zenon
      <3> HIDE DEF kept
      <3>2. discarded.queue = kept /\ discarded.panic = NoPanic
        BY <3>1, OutcomeFields
      <3> QED BY <3>2 DEF kept
    <2> QED BY <2>4, <2>5, <2>6
  <1> QED BY <1>9, <1>10

\* Discarding up to a confirmed frame keeps the invariant: offset inputs leave
\* the ring, the confirmed one stays.
LEMMA SetLastConfirmedFramePreserves ==
    ASSUME IInv, NEW frame \in 0 .. LastAdded, SetLastConfirmedFrame(frame)
    PROVE  IInv'
  <1> DEFINE discarded == IF frame > 0
                          THEN DiscardConfirmedFrames(queue, frame - 1)
                          ELSE Outcome(queue, NoPanic)
  <1>1. /\ Polling /\ queue.first_incorrect_frame = NoFrame
        /\ frame >= last_confirmed_frame /\ frame <= LastAdded
        /\ frame <= frame_count
        /\ last_confirmed_frame' = frame
        /\ panic' = discarded.panic
        /\ queue' = IF discarded.panic = NoPanic THEN discarded.queue ELSE queue
        /\ UNCHANGED <<frame_count, replay_to, log, answers>>
    BY DEF SetLastConfirmedFrame
  <1>2. /\ frame \in Nat /\ frame_count \in Nat /\ Len(log) \in Nat
        /\ LastAdded \in Nat /\ LastAdded = Len(log) - 1 /\ log # <<>>
        /\ last_confirmed_frame \in Int /\ OldestKept \in Nat
        /\ frame_count = Len(answers) /\ queue \in Queues
        /\ replay_to = NoFrame
    BY <1>1, Window DEF IInv, TypeOK, FrameNum, Frame, NoFrame, LastAdded, Polling,
           FrameAnswered, WithinTheBarrier, RollingBack
  <1>3. OldestKept' = frame /\ OldestKept <= frame
    BY <1>1, <1>2 DEF OldestKept
  <1>4. \/ /\ panic' = "discard before the tail" /\ panic' # NoPanic
           /\ OverflowChecks /\ frame = last_confirmed_frame /\ queue' = queue
        \/ /\ panic' = NoPanic
           /\ queue' = [queue EXCEPT !.tail = frame % QLen,
                                     !.length = Len(log) - frame]
           /\ Len(log) - frame \in 0 .. QLen /\ frame % QLen \in Slots
    <2>1. CASE frame > 0
      <3>1. discarded = DiscardConfirmedFrames(queue, frame - 1)
        BY <2>1
      <3> HIDE DEF discarded
      <3>2. \/ /\ discarded.panic = "discard before the tail"
               /\ OverflowChecks /\ frame = last_confirmed_frame
            \/ /\ discarded.panic = NoPanic
               /\ discarded.queue = [queue EXCEPT !.tail = frame % QLen,
                                                  !.length = Len(log) - frame]
               /\ Len(log) - frame \in 0 .. QLen /\ frame % QLen \in Slots
        BY <1>1, <1>2, <2>1, <3>1, DiscardOutcome
      <3>3. "discard before the tail" # NoPanic
        BY DEF NoPanic
      <3> QED BY <1>1, <3>2, <3>3, Zenon
    <2>2. CASE frame = 0
      <3>1. OldestKept = 0 /\ 0 % QLen = 0
        BY <1>2, <1>3, <2>2, ModSmall
      <3>2. /\ queue.tail = frame % QLen /\ queue.length = Len(log) - frame
            /\ queue.length \in 0 .. QLen /\ queue.tail \in Slots
        BY <2>2, <3>1, Window DEF IInv
      <3>3. discarded = Outcome(queue, NoPanic)
        BY <2>2
      <3>4. panic' = NoPanic /\ queue' = queue
        BY <1>1, <3>3 DEF Outcome
      <3>5. queue = [queue EXCEPT !.tail = queue.tail, !.length = queue.length]
        BY <1>2 DEF Queues
      <3> QED BY <3>2, <3>4, <3>5
    <2>3. frame > 0 \/ frame = 0
      BY <1>2
    <2> QED BY <2>1, <2>2, <2>3, Zenon
  <1> HIDE DEF discarded
  <1>5. /\ queue' \in Queues
        /\ queue'.head = queue.head /\ queue'.inputs = queue.inputs
        /\ queue'.first_frame = queue.first_frame
        /\ queue'.last_user_added_frame = queue.last_user_added_frame
        /\ queue'.last_added_frame = queue.last_added_frame
        /\ queue'.first_incorrect_frame = queue.first_incorrect_frame
        /\ queue'.last_frame_requested = queue.last_frame_requested
        /\ queue'.prediction = queue.prediction
        /\ queue'.tail = frame % QLen
        /\ queue'.length = Len(log) - frame
    <2>1. CASE queue' = queue /\ frame = last_confirmed_frame
      <3>1. OldestKept = frame
        BY <1>2, <2>1 DEF OldestKept
      <3> QED BY <1>2, <2>1, <3>1, Window DEF IInv
    <2>2. CASE /\ queue' = [queue EXCEPT !.tail = frame % QLen,
                                         !.length = Len(log) - frame]
               /\ Len(log) - frame \in 0 .. QLen /\ frame % QLen \in Slots
      BY <1>2, <2>2 DEF Queues
    <2> QED BY <1>4, <2>1, <2>2
  <1>6. TypeOK'
    <2>1. panic' \in Panics
      BY <1>4 DEF Panics
    <2> QED BY <1>1, <1>2, <1>5, <2>1 DEF IInv, TypeOK, Frame, FrameNum
  <1>7. RingHoldsNewestInputs'
    <2>1. Len(log) - queue'.length = frame
      BY <1>2, <1>5
    <2> QED BY <1>1, <1>5, <2>1 DEF IInv, RingHoldsNewestInputs, LastAdded
  <1>8. RollbackInputsKept'
    BY <1>1, <1>2, <1>3, <1>5 DEF RollbackInputsKept
  <1>9. WithinTheBarrier'
    BY <1>1, <1>2, <1>3 DEF IInv, WithinTheBarrier, LastAdded
  <1>10. QueueKnowsTheHistory' /\ PredictsWhenItShould'
    BY <1>1, <1>5 DEF IInv, QueueKnowsTheHistory, PredictsWhenItShould, LastAdded,
                      Predicting
  <1>11. /\ PredictionIsWhatTheGameWasGiven' /\ EveryPredictionIsJudged'
         /\ ConfirmedAnswersMatchTheLog'
    BY <1>1, <1>5 DEF IInv, PredictionIsWhatTheGameWasGiven, LastAdded,
           EveryPredictionIsJudged, ConfirmedAnswersMatchTheLog, Predicting,
           History!PredictedFrame, History!Accepted
  <1>12. OnlyTwoAssertionsFail'
    BY <1>4 DEF OnlyTwoAssertionsFail, Running
  <1> QED BY <1>6, <1>7, <1>8, <1>9, <1>10, <1>11, <1>12 DEF IInv

\* A rollback to a frame no later than the reported error keeps the invariant.
LEMMA AdjustSimulationPreserves ==
    ASSUME IInv, NEW seek_to \in 0 .. frame_count, AdjustSimulation(seek_to)
    PROVE  IInv'
  <1> DEFINE reset == ResetPrediction(queue, seek_to)
  <1>1. /\ Polling /\ seek_to < frame_count /\ seek_to <= LastAdded
        /\ seek_to >= last_confirmed_frame
        /\ queue.first_incorrect_frame # NoFrame
                => seek_to <= queue.first_incorrect_frame
        /\ panic' = reset.panic
        /\ queue' = IF reset.panic = NoPanic THEN reset.queue ELSE queue
        /\ frame_count' = seek_to /\ replay_to' = frame_count
        /\ answers' = SubSeq(answers, 1, seek_to)
        /\ UNCHANGED <<last_confirmed_frame, log>>
    BY DEF AdjustSimulation
  <1>2. /\ seek_to \in Nat /\ frame_count \in Nat /\ Len(log) \in Nat
        /\ LastAdded = Len(log) - 1 /\ log # <<>>
        /\ last_confirmed_frame \in Int /\ OldestKept \in Nat
        /\ OldestKept <= seek_to /\ OldestKept' = OldestKept
        /\ frame_count = Len(answers) /\ queue \in Queues
        /\ queue.first_incorrect_frame \in Int
    BY <1>1, Window DEF IInv, TypeOK, FrameNum, Frame, NoFrame, LastAdded, Polling,
           FrameAnswered, WithinTheBarrier, OldestKept, Queues
  <1>3. /\ panic' = NoPanic
        /\ queue' = [queue EXCEPT !.prediction.frame = NoFrame,
                                  !.first_incorrect_frame = NoFrame,
                                  !.last_frame_requested = NoFrame]
    <2>1. ~(/\ queue.first_incorrect_frame # NoFrame
            /\ seek_to > queue.first_incorrect_frame)
      BY <1>1, <1>2
    <2>2. reset = Outcome([queue EXCEPT !.prediction.frame = NoFrame,
                                        !.first_incorrect_frame = NoFrame,
                                        !.last_frame_requested = NoFrame],
                          NoPanic)
      BY <2>1, Zenon DEF ResetPrediction
    <2> HIDE DEF reset
    <2>3. /\ reset.panic = NoPanic
          /\ reset.queue = [queue EXCEPT !.prediction.frame = NoFrame,
                                         !.first_incorrect_frame = NoFrame,
                                         !.last_frame_requested = NoFrame]
      BY <2>2, Zenon DEF Outcome
    <2> QED BY <1>1, <2>3
  <1> HIDE DEF reset
  <1>4. /\ queue' \in Queues
        /\ queue'.head = queue.head /\ queue'.inputs = queue.inputs
        /\ queue'.tail = queue.tail /\ queue'.length = queue.length
        /\ queue'.first_frame = queue.first_frame
        /\ queue'.last_user_added_frame = queue.last_user_added_frame
        /\ queue'.last_added_frame = queue.last_added_frame
        /\ queue'.first_incorrect_frame = NoFrame
        /\ queue'.last_frame_requested = NoFrame
        /\ queue'.prediction.frame = NoFrame
    BY <1>2, <1>3 DEF Queues, GameInputs, Frame
  <1>5. /\ answers' \in Seq(History!Answer) /\ Len(answers') = seek_to
        /\ \A i \in 1 .. seek_to : answers'[i] = answers[i]
    BY <1>1, <1>2 DEF IInv, TypeOK
  <1>6. TypeOK'
    <2>1. panic' \in Panics
      BY <1>3 DEF Panics
    <2> QED BY <1>1, <1>2, <1>4, <1>5, <2>1 DEF IInv, TypeOK, Frame, FrameNum
  <1>7. RingHoldsNewestInputs'
    BY <1>1, <1>4, RingUnchanged DEF IInv
  <1>8. RollbackInputsKept'
    BY <1>1, <1>2, <1>4 DEF IInv, RollbackInputsKept
  <1>9. WithinTheBarrier'
    BY <1>1, <1>2, <1>5 DEF IInv, WithinTheBarrier, LastAdded, NoFrame
  <1>10. QueueKnowsTheHistory' /\ PredictsWhenItShould'
    BY <1>1, <1>2, <1>4, <1>5
       DEF IInv, QueueKnowsTheHistory, PredictsWhenItShould, LastAdded, Predicting
  <1>11. PredictionIsWhatTheGameWasGiven'
    BY <1>1, <1>2, <1>5 DEF PredictionIsWhatTheGameWasGiven
  <1>12. EveryPredictionIsJudged'
    <2> SUFFICES ASSUME NEW f \in 0 .. LastAdded, History!PredictedFrame(f)'
                 PROVE  /\ History!Accepted(f, log[f + 1])'
                        /\ f # queue'.first_incorrect_frame
      BY <1>1, <1>4 DEF EveryPredictionIsJudged, LastAdded
    <2>1. f < seek_to /\ f \in Nat /\ f + 1 \in 1 .. seek_to
      BY <1>2, <1>5 DEF History!PredictedFrame
    <2>2. answers'[f + 1] = answers[f + 1]
      BY <1>5, <2>1
    <2>3. History!PredictedFrame(f)
      BY <1>2, <1>1, <1>5, <2>1, <2>2 DEF History!PredictedFrame
    <2>4. \/ queue.first_incorrect_frame = NoFrame
          \/ f < queue.first_incorrect_frame
      BY <1>1, <1>2, <2>1
    <2>5. History!Accepted(f, log[f + 1])
      BY <2>3, <2>4 DEF IInv, EveryPredictionIsJudged
    <2> QED BY <1>1, <1>4, <2>1, <2>2, <2>5
            DEF History!Accepted, History!Equal, NoFrame
  <1>13. ConfirmedAnswersMatchTheLog'
    <2> SUFFICES ASSUME NEW f \in 0 .. seek_to - 1, answers'[f + 1].confirmed
                 PROVE  f <= LastAdded /\ answers'[f + 1].bits = log[f + 1]
      BY <1>1, <1>5 DEF ConfirmedAnswersMatchTheLog, LastAdded
    <2>1. f \in 0 .. Len(answers) - 1 /\ answers'[f + 1] = answers[f + 1]
      BY <1>1, <1>2, <1>5
    <2> QED BY <2>1 DEF IInv, ConfirmedAnswersMatchTheLog
  <1>14. OnlyTwoAssertionsFail'
    BY <1>3 DEF OnlyTwoAssertionsFail, Running
  <1> QED BY <1>6, <1>7, <1>8, <1>9, <1>10, <1>11, <1>12, <1>13, <1>14 DEF IInv

\* The queue add_delayed_input_to_queue leaves: an input in the head slot, and
\* new values for the fields it assigns.
Updated(q, input, head, length, frame, incorrect, pf) ==
    [q EXCEPT !.inputs[q.head] = input,
              !.head = head,
              !.length = length,
              !.first_frame = FALSE,
              !.last_added_frame = frame,
              !.first_incorrect_frame = incorrect,
              !.prediction.frame = pf]

\* What a call of add_input for the next frame does: no assertion fails, the
\* input goes into its slot, and a prediction in progress is judged.
LEMMA AddInputOutcome ==
    ASSUME IInv, Polling, Len(log) <= frame_count + MaxLead,
           NEW input \in GameInputs, input.frame = Len(log),
           NEW added, added = AddInput(queue, input),
           NEW incorrect,
           incorrect = FirstIncorrectAfter(queue, input, Len(log))
    PROVE  /\ added.panic = NoPanic
           /\ added.queue.inputs = [queue.inputs EXCEPT ![queue.head] = input]
           /\ added.queue.head = (queue.head + 1) % QLen
           /\ added.queue.tail = queue.tail
           /\ added.queue.length = queue.length + 1
           /\ added.queue.first_frame = FALSE
           /\ added.queue.last_user_added_frame = Len(log)
           /\ added.queue.last_added_frame = Len(log)
           /\ added.queue.last_frame_requested = queue.last_frame_requested
           /\ added.queue.first_incorrect_frame = incorrect
           /\ added.queue.prediction.bits = queue.prediction.bits
           /\ added.queue.prediction.frame =
                    IF incorrect = NoFrame /\ Len(answers) <= Len(log) + 1
                    THEN NoFrame ELSE Len(log) + 1
           /\ added.queue \in Queues
  <1> DEFINE q == [queue EXCEPT !.last_user_added_frame = Len(log)]
  <1>1. /\ frame_count \in Nat /\ Len(log) \in Nat /\ queue \in Queues
        /\ LastAdded = Len(log) - 1 /\ (log = <<>> <=> Len(log) = 0)
        /\ frame_count = Len(answers)
        /\ input \in GameInputs /\ input.frame = Len(log)
        /\ input = [input EXCEPT !.frame = Len(log)]
        /\ queue.head \in Slots /\ (queue.head + 1) % QLen \in Slots
        /\ queue.prediction \in GameInputs
    <2>1. (queue.head + 1) % QLen \in Slots
      <3>1. queue.head + 1 \in Nat
        BY DEF IInv, TypeOK, Queues, Slots
      <3> QED BY <3>1, ModRange DEF Slots
    <2> QED BY <2>1 DEF IInv, TypeOK, WithinTheBarrier, Polling, FrameAnswered,
               FrameNum, LastAdded, Queues, GameInputs, Frame
  <1>17. queue.length \in Nat /\ queue.length + 1 <= QLen
    <2>1. /\ queue.length \in 0 .. QLen
          /\ OldestKept \in Nat /\ queue.length = Len(log) - OldestKept
      BY Window DEF IInv
    <2>2. frame_count <= OldestKept + MaxPrediction
      BY DEF IInv, WithinTheBarrier
    <2> QED BY <1>1, <2>1, <2>2
  <1>2. /\ q \in Queues
        /\ q.head = queue.head /\ q.tail = queue.tail
        /\ q.length = queue.length /\ q.inputs = queue.inputs
        /\ q.first_frame = queue.first_frame
        /\ q.last_added_frame = queue.last_added_frame
        /\ q.first_incorrect_frame = queue.first_incorrect_frame
        /\ q.last_frame_requested = queue.last_frame_requested
        /\ q.prediction = queue.prediction
        /\ q.last_user_added_frame = Len(log)
    BY <1>1 DEF Queues, Frame, FrameNum
  <1>3. Newest(q) = Newest(queue) /\ (Predicting(q) <=> Predicting(queue))
    BY <1>2 DEF Newest, Predicting
  <1>4. q = [queue EXCEPT !.last_user_added_frame = input.frame]
    BY <1>1, Zenon
  <1> HIDE DEF q
  <1>5. /\ Newest(q).frame = LastAdded
        /\ LastAdded = NoFrame <=> Len(log) = 0
    <2>1. CASE log = <<>>
      BY <1>1, <1>3, <2>1, NewestInput DEF IInv, NewInput, NoFrame
    <2>2. CASE log # <<>>
      BY <1>1, <1>3, <2>2, NewestInput DEF IInv, NoFrame
    <2> QED BY <2>1, <2>2
  <1>6. AdvanceQueueHead(q, Len(log)) = "add"
    <2>1. Newest(q).frame = NoFrame \/ Len(log) = Newest(q).frame + 1
      BY <1>1, <1>5
    <2>2. Newest(q).frame = NoFrame \/ ExpectedFrame(q) = Len(log)
      <3>1. Len(log) # 0 => ~q.first_frame
        BY <1>1, <1>2 DEF IInv, QueueKnowsTheHistory
      <3> QED BY <1>1, <1>5, <2>1, <3>1 DEF ExpectedFrame
    <2> QED BY <2>1, <2>2, Zenon DEF AdvanceQueueHead
  <1>7. ~(/\ queue.last_user_added_frame # NoFrame
          /\ input.frame # queue.last_user_added_frame + 1)
    BY <1>1 DEF IInv, QueueKnowsTheHistory
  <1>8. added = AddDelayedInputToQueue(q, input, Len(log))
    <2>1. AddInput(queue, input) = AddDelayedInputToQueue(q, input, input.frame)
      BY <1>1, <1>4, <1>6, <1>7, Zenon DEF AddInput
    <2> QED BY <1>1, <2>1
  <1>9. AddDelayedPanic(q, Len(log)) = NoPanic
    <2>1. ~(q.last_added_frame # NoFrame /\ Len(log) # q.last_added_frame + 1)
      BY <1>1, <1>2 DEF IInv, RingHoldsNewestInputs
    <2>2. ~(/\ Len(log) # 0
            /\ Newest(q).frame = NoFrame \/ Newest(q).frame # Len(log) - 1)
      BY <1>1, <1>5
    <2>3. ~(Predicting(q) /\ q.prediction.frame # Len(log))
      BY <1>2, <1>3 DEF IInv, PredictsWhenItShould
    <2>4. ~(q.length + 1 > QLen)
      BY <1>2, <1>17
    <2> QED BY <2>1, <2>2, <2>3, <2>4, Zenon DEF AddDelayedPanic
  <1>10. /\ queue.first_incorrect_frame = NoFrame =>
                (Predicting(q) <=> Len(answers) > Len(log))
         /\ queue.first_incorrect_frame # NoFrame => Predicting(q)
         /\ Predicting(q) => q.prediction.frame = Len(log)
    BY <1>2, <1>3 DEF IInv, PredictsWhenItShould
  <1>11. /\ FirstIncorrectAfter(q, input, Len(log)) = incorrect
         /\ \/ incorrect = Len(log) /\ Predicting(q)
            \/ incorrect = queue.first_incorrect_frame
    BY <1>2, <1>3, Zenon DEF FirstIncorrectAfter
  <1>12. PredictionFrameAfter(q, incorrect) =
            IF incorrect = NoFrame /\ Len(answers) <= Len(log) + 1
            THEN NoFrame ELSE Len(log) + 1
    <2>1. incorrect = NoFrame => queue.first_incorrect_frame = NoFrame
      BY <1>1, <1>11 DEF NoFrame
    <2>2. CASE incorrect = NoFrame
      <3>1. Len(answers) > Len(log) => q.last_frame_requested = Len(answers) - 1
        BY <1>1, <1>2 DEF IInv, QueueKnowsTheHistory, TypeOK
      <3>2. /\ Predicting(q) <=> Len(answers) > Len(log)
            /\ Len(answers) > Len(log) => q.prediction.frame = Len(log)
        BY <1>10, <2>1, <2>2
      <3> HIDE DEF Predicting
      <3>3. CASE Len(answers) > Len(log) + 1
        <4>1. Len(answers) > Len(log) /\ ~(Len(answers) <= Len(log) + 1)
          BY <1>1, <3>3
        <4>2. /\ q.prediction.frame = Len(log)
              /\ q.last_frame_requested = Len(answers) - 1
          BY <3>1, <3>2, <4>1
        <4>4. Len(log) # Len(answers) - 1
          BY <1>1, <3>3
        <4>5. /\ q.prediction.frame + 1 = Len(log) + 1
              /\ q.prediction.frame # q.last_frame_requested
          BY <4>2, <4>4, Zenon
        <4>3. Predicting(q)
          BY <3>2, <4>1, Zenon
        <4> QED BY <4>1, <4>3, <4>5, Zenon DEF PredictionFrameAfter
      <3>4. CASE Len(answers) = Len(log) + 1
        <4>1. Len(answers) > Len(log) /\ Len(answers) <= Len(log) + 1
          BY <1>1, <3>4
        <4>2. q.prediction.frame = q.last_frame_requested
          BY <1>1, <3>1, <3>2, <3>4, <4>1
        <4> QED BY <2>2, <4>1, <4>2, Zenon DEF PredictionFrameAfter
      <3>5. CASE Len(answers) <= Len(log)
        <4>1. ~Predicting(q) /\ Len(answers) <= Len(log) + 1
          BY <1>1, <3>2, <3>5
        <4> QED BY <2>2, <4>1, Zenon DEF PredictionFrameAfter
      <3>6. \/ Len(answers) > Len(log) + 1 \/ Len(answers) = Len(log) + 1
            \/ Len(answers) <= Len(log)
        BY <1>1
      <3> QED BY <3>3, <3>4, <3>5, <3>6, Zenon
    <2>3. CASE incorrect # NoFrame
      <3>1. Predicting(q)
        BY <1>10, <1>11, <2>3, Zenon
      <3>2. q.prediction.frame + 1 = Len(log) + 1
        BY <1>10, <3>1
      <3> QED BY <2>3, <3>1, <3>2, Zenon DEF PredictionFrameAfter
    <2> QED BY <2>2, <2>3
  <1> DEFINE pf == IF incorrect = NoFrame /\ Len(answers) <= Len(log) + 1
                   THEN NoFrame ELSE Len(log) + 1
  <1>13. /\ added.panic = NoPanic
         /\ added.queue = Updated(q, input, (q.head + 1) % QLen, q.length + 1,
                                  Len(log), incorrect, pf)
    <2>1. AddDelayedInputToQueue(q, input, Len(log)) =
            Outcome([q EXCEPT !.inputs[q.head] = [input EXCEPT !.frame = Len(log)],
                              !.head = (q.head + 1) % QLen,
                              !.length = q.length + 1,
                              !.first_frame = FALSE,
                              !.last_added_frame = Len(log),
                              !.first_incorrect_frame = incorrect,
                              !.prediction.frame = pf],
                    NoPanic)
      BY <1>9, <1>11, <1>12, Zenon DEF AddDelayedInputToQueue
    <2>2. [input EXCEPT !.frame = Len(log)] = input
      BY <1>1
    <2> DEFINE updated == Updated(q, input, (q.head + 1) % QLen, q.length + 1,
                                  Len(log), incorrect, pf)
    <2>3. added = Outcome(updated, NoPanic)
      BY <1>8, <2>1, <2>2, Zenon DEF Updated
    <2> HIDE DEF updated
    <2>4. added.queue = updated /\ added.panic = NoPanic
      BY <2>3, OutcomeFields
    <2> QED BY <2>4, Zenon DEF updated
  <1>14. /\ pf \in Frame /\ incorrect \in Frame /\ Len(log) \in Frame
         /\ q.length + 1 \in 0 .. QLen /\ (q.head + 1) % QLen \in Slots
    <2>1. /\ pf = NoFrame \/ pf \in FrameNum
          /\ incorrect \in FrameNum \/ incorrect = queue.first_incorrect_frame
      BY <1>1, <1>11 DEF FrameNum
    <2>2. queue.first_incorrect_frame \in Frame
      BY <1>1 DEF Queues
    <2>3. pf \in Frame /\ incorrect \in Frame
      BY <2>1, <2>2, Zenon DEF Frame
    <2>4. Len(log) \in Frame
      BY <1>1 DEF Frame, FrameNum
    <2>6. q.length + 1 \in 0 .. QLen
      BY <1>2, <1>17
    <2>5. (q.head + 1) % QLen \in Slots
      BY <1>1, <1>2
    <2> QED BY <2>3, <2>4, <2>5, <2>6
  <1> HIDE DEF pf
  <1>15. /\ added.queue.inputs = [q.inputs EXCEPT ![q.head] = input]
         /\ added.queue.head = (q.head + 1) % QLen
         /\ added.queue.tail = q.tail
         /\ added.queue.length = q.length + 1
         /\ added.queue.first_frame = FALSE
         /\ added.queue.last_user_added_frame = q.last_user_added_frame
         /\ added.queue.last_added_frame = Len(log)
         /\ added.queue.last_frame_requested = q.last_frame_requested
         /\ added.queue.first_incorrect_frame = incorrect
         /\ added.queue.prediction.frame = pf
         /\ added.queue.prediction.bits = q.prediction.bits
         /\ added.queue \in Queues
    <2>1. input \in GameInputs /\ q \in Queues
      BY <1>1, <1>2
    <2> DEFINE head == (q.head + 1) % QLen
               length == q.length + 1
               frame == Len(log)
               r == added.queue
    <2>2. /\ head \in Slots /\ length \in 0 .. QLen /\ frame \in Frame
          /\ incorrect \in Frame /\ pf \in Frame
          /\ r = Updated(q, input, head, length, frame, incorrect, pf)
      BY <1>13, <1>14
    <2> HIDE DEF head, length, frame, r
    <2> DEFINE inputs == [q.inputs EXCEPT ![q.head] = input]
               prediction == [q.prediction EXCEPT !.frame = pf]
    <2>3. r = [q EXCEPT !.inputs = inputs, !.head = head, !.length = length,
                        !.first_frame = FALSE, !.last_added_frame = frame,
                        !.first_incorrect_frame = incorrect,
                        !.prediction = prediction]
      BY <2>2, Zenon DEF Updated
    <2>4. /\ inputs \in [Slots -> GameInputs] /\ prediction \in GameInputs
          /\ prediction.frame = pf /\ prediction.bits = q.prediction.bits
      BY <2>1, <2>2 DEF Queues, GameInputs
    <2> HIDE DEF inputs, prediction
    <2>5. /\ r.inputs = inputs /\ r.head = head /\ r.tail = q.tail
          /\ r.length = length /\ r.first_frame = FALSE
          /\ r.last_user_added_frame = q.last_user_added_frame
          /\ r.last_added_frame = frame
          /\ r.last_frame_requested = q.last_frame_requested
          /\ r.first_incorrect_frame = incorrect
          /\ r.prediction = prediction
      BY <2>1, <2>3 DEF Queues
    <2>6. r \in Queues
      BY <2>1, <2>2, <2>3, <2>4 DEF Queues
    <2> QED BY <2>4, <2>5, <2>6, Zenon DEF head, length, frame, r, inputs
  <1> QED BY <1>2, <1>13, <1>15 DEF pf
\* Receiving an input: the ring takes it, and the prediction is judged.
LEMMA AddNextInputPreserves ==
    ASSUME IInv, NEW bits \in Bits, AddNextInput(bits)
    PROVE  IInv'
  <1> DEFINE n == Len(log)
             input == [frame |-> n, bits |-> bits]
             added == AddInput(queue, input)
             incorrect == FirstIncorrectAfter(queue, input, n)
  <1>1. /\ Polling /\ n <= frame_count + MaxLead
        /\ panic' = added.panic
        /\ IF added.panic = NoPanic
           THEN queue' = added.queue /\ log' = Append(log, bits)
           ELSE UNCHANGED <<queue, log>>
        /\ UNCHANGED <<callerVars, answers>>
    BY DEF AddNextInput
  <1>2. n \in Nat /\ input \in GameInputs /\ input.frame = n /\ input.bits = bits
    BY DEF IInv, TypeOK, GameInputs, Frame, FrameNum
  <1> HIDE DEF input, added, incorrect
  <1>3. /\ added.panic = NoPanic
        /\ added.queue.inputs = [queue.inputs EXCEPT ![queue.head] = input]
        /\ added.queue.head = (queue.head + 1) % QLen
        /\ added.queue.tail = queue.tail
        /\ added.queue.length = queue.length + 1
        /\ added.queue.first_frame = FALSE
        /\ added.queue.last_user_added_frame = n
        /\ added.queue.last_added_frame = n
        /\ added.queue.last_frame_requested = queue.last_frame_requested
        /\ added.queue.first_incorrect_frame = incorrect
        /\ added.queue.prediction.bits = queue.prediction.bits
        /\ added.queue.prediction.frame =
                IF incorrect = NoFrame /\ Len(answers) <= n + 1
                THEN NoFrame ELSE n + 1
        /\ added.queue \in Queues
    BY <1>1, <1>2, AddInputOutcome DEF added, incorrect
  <1>4. /\ panic' = NoPanic /\ queue' = added.queue /\ log' = Append(log, bits)
        /\ UNCHANGED <<frame_count, last_confirmed_frame, replay_to, answers>>
    BY <1>1, <1>3 DEF callerVars
  <1>5. /\ frame_count \in Nat /\ frame_count = Len(answers)
        /\ LastAdded = n - 1 /\ LastAdded' = n /\ replay_to = NoFrame
        /\ log' \in Seq(Bits) /\ Len(log') = n + 1 /\ log' # <<>>
        /\ log'[n + 1] = bits
        /\ \A i \in 1 .. n : log'[i] = log[i]
        /\ OldestKept' = OldestKept /\ OldestKept \in Nat
        /\ queue.length = n - OldestKept /\ queue.length \in Nat
        /\ queue \in Queues
    <2>1. /\ frame_count \in Nat /\ frame_count = Len(answers)
          /\ LastAdded = n - 1 /\ replay_to = NoFrame /\ log \in Seq(Bits)
          /\ queue \in Queues
      BY <1>1 DEF IInv, TypeOK, FrameNum, LastAdded, Polling, FrameAnswered,
                  RollingBack, WithinTheBarrier
    <2>2. /\ log' \in Seq(Bits) /\ Len(log') = n + 1 /\ log' # <<>>
          /\ log'[n + 1] = bits /\ \A i \in 1 .. n : log'[i] = log[i]
      BY <1>4, <2>1
    <2>3. OldestKept' = OldestKept
      BY <1>4 DEF OldestKept
    <2>4. /\ OldestKept \in Nat
          /\ queue.length = n - OldestKept /\ queue.length \in Nat
      BY Window DEF IInv
    <2> QED BY <1>2, <2>1, <2>2, <2>3, <2>4 DEF LastAdded
  <1>21. /\ Len(log') = n + 1 /\ LastAdded' = n /\ OldestKept' = OldestKept
         /\ queue'.length = queue.length + 1 /\ queue'.length \in Nat
    <2>1. queue'.length = queue.length + 1
      BY <1>3, <1>4
    <2> QED BY <1>5, <2>1
  <1>6. incorrect = IF /\ Predicting(queue)
                       /\ queue.first_incorrect_frame = NoFrame
                       /\ ~(queue.prediction.bits # bits)
                    THEN n ELSE queue.first_incorrect_frame
    BY <1>2, Zenon DEF incorrect, FirstIncorrectAfter, Equal
  <1>7. /\ incorrect = n \/ incorrect = queue.first_incorrect_frame
        /\ queue.first_incorrect_frame # NoFrame =>
                incorrect = queue.first_incorrect_frame
        /\ incorrect # NoFrame => incorrect \in Nat
    <2>1. incorrect = n \/ incorrect = queue.first_incorrect_frame
      BY <1>6, Zenon
    <2>2. queue.first_incorrect_frame # NoFrame =>
                incorrect = queue.first_incorrect_frame
      BY <1>6, Zenon
    <2>3. queue.first_incorrect_frame # NoFrame =>
                queue.first_incorrect_frame \in Nat
      BY <1>5 DEF Queues, Frame, FrameNum
    <2> QED BY <1>2, <2>1, <2>2, <2>3

  <1>8. TypeOK'
    <2>1. panic' \in Panics
      BY <1>4 DEF Panics
    <2> QED BY <1>3, <1>4, <1>5, <2>1 DEF IInv, TypeOK
  <1>9. RingHoldsNewestInputs'
    <2>1. queue.head = n % QLen /\ queue.head \in Slots
      BY <1>5 DEF IInv, RingHoldsNewestInputs, Queues
    <2>2. queue'.head = (n + 1) % QLen
      <3>1. queue'.head = (queue.head + 1) % QLen
        BY <1>3, <1>4
      <3>2. ((n % QLen) + 1) % QLen = (n + 1) % QLen
        <4>1. \A b \in Nat : ((n % QLen) + b) % QLen = (n + b) % QLen
          BY <1>2, ModAdd
        <4> QED BY <4>1
      <3> QED BY <2>1, <3>1, <3>2
    <2>3. queue'.tail = (Len(log') - queue'.length) % QLen
      <3>1. Len(log') - queue'.length = n - queue.length
        BY <1>2, <1>5, <1>21
      <3> QED BY <1>3, <1>4, <3>1 DEF IInv, RingHoldsNewestInputs
    <2>4. queue'.inputs = [queue.inputs EXCEPT ![queue.head] = input]
      BY <1>3, <1>4
    <2>5. queue.inputs \in [Slots -> GameInputs]
      BY <1>5 DEF Queues
    <2>6. ASSUME NEW f \in 0 .. n, f > n - QLen
          PROVE  queue'.inputs[f % QLen] = [frame |-> f, bits |-> log'[f + 1]]
      <3>1. CASE f = n
        <4>1. queue'.inputs[f % QLen] = input
          BY <2>1, <2>4, <2>5, <3>1
        <4> QED BY <1>5, <3>1, <4>1 DEF input
      <3>2. CASE f # n
        <4>1. f \in Nat /\ f < n /\ n < f + QLen /\ f \in 0 .. LastAdded
              /\ f > LastAdded - QLen /\ f + 1 \in 1 .. n
          BY <1>2, <1>5, <2>6, <3>2
        <4>2. f % QLen # n % QLen
          BY <1>2, <4>1, ModDistinct
        <4>3. f % QLen \in Slots
          BY <4>1, ModRange DEF Slots
        <4>4. queue.inputs[f % QLen] = [frame |-> f, bits |-> log[f + 1]]
          BY <4>1 DEF IInv, RingHoldsNewestInputs
        <4>5. queue'.inputs[f % QLen] = queue.inputs[f % QLen]
          BY <2>1, <2>4, <2>5, <4>2, <4>3
        <4> QED BY <1>5, <4>1, <4>4, <4>5
      <3> QED BY <3>1, <3>2
    <2>7. ASSUME NEW slot \in Slots, slot > n
          PROVE  queue'.inputs[slot] = NewInput
      <3>1. n % QLen = n
        BY <1>2, <2>7, ModSmall DEF Slots
      <3>2. slot # queue.head /\ slot > LastAdded
        BY <1>2, <1>5, <2>1, <2>7, <3>1 DEF Slots
      <3>3. queue.inputs[slot] = NewInput
        BY <3>2 DEF IInv, RingHoldsNewestInputs
      <3> QED BY <2>4, <2>5, <3>2, <3>3
    <2>8. queue'.last_added_frame = n
      BY <1>3, <1>4
    <2>9. \A f \in 0 .. LastAdded' : f > LastAdded' - QLen =>
            queue'.inputs[f % QLen] = [frame |-> f, bits |-> log'[f + 1]]
      BY <1>5, <2>6
    <2>10. \A slot \in Slots : slot > LastAdded' => queue'.inputs[slot] = NewInput
      BY <1>5, <2>7
    <2>11. queue'.head = Len(log') % QLen /\ queue'.last_added_frame = LastAdded'
      BY <1>21, <2>2, <2>8
    <2> QED BY <2>3, <2>9, <2>10, <2>11 DEF RingHoldsNewestInputs
  <1>10. RollbackInputsKept'
    <2>1. n + 1 - queue'.length = OldestKept
      <3>1. queue'.length = queue.length + 1
        BY <1>3, <1>4
      <3> QED BY <1>2, <1>5, <3>1
    <2>2. queue'.first_incorrect_frame = incorrect
      BY <1>3, <1>4
    <2>3. incorrect # NoFrame => OldestKept <= incorrect
      BY <1>2, <1>5, <1>7 DEF IInv, RollbackInputsKept
    <2>4. OldestKept <= frame_count /\ frame_count' = frame_count
      BY <1>4 DEF IInv, RollbackInputsKept
    <2>5. Len(log') - queue'.length = OldestKept'
      BY <1>2, <1>21, <2>1
    <2>6. OldestKept' <= frame_count'
      BY <1>5, <2>4
    <2>7. queue'.first_incorrect_frame # NoFrame =>
                OldestKept' <= queue'.first_incorrect_frame
      BY <1>5, <2>2, <2>3
    <2> QED BY <2>5, <2>6, <2>7 DEF RollbackInputsKept
  <1>11. WithinTheBarrier'
    <2>1. last_confirmed_frame \in Int
      BY DEF IInv, TypeOK, Frame, NoFrame, FrameNum
    <2> QED BY <1>1, <1>2, <1>4, <1>5, <2>1 DEF IInv, WithinTheBarrier
  <1>12. QueueKnowsTheHistory'
    <2>1. /\ queue'.first_frame = FALSE /\ queue'.last_user_added_frame = n
          /\ queue'.last_frame_requested = queue.last_frame_requested
      BY <1>3, <1>4
    <2>2. (log' = <<>>) = FALSE
      BY <1>5
    <2>3. queue.last_frame_requested # NoFrame =>
                queue.last_frame_requested = Len(answers) - 1
      BY DEF IInv, QueueKnowsTheHistory
    <2>4. queue.last_frame_requested = NoFrame => Len(answers) <= n + 1
      BY <1>2, <1>5 DEF IInv, QueueKnowsTheHistory
    <2>5. answers' = answers
      BY <1>4
    <2> HIDE DEF n
    <2> QED BY <1>5, <2>1, <2>2, <2>3, <2>4, <2>5 DEF QueueKnowsTheHistory
  <1>13. /\ queue'.first_incorrect_frame = incorrect
         /\ queue'.prediction.bits = queue.prediction.bits
         /\ incorrect # NoFrame \/ Len(answers) > n + 1 =>
                queue'.prediction.frame = n + 1
         /\ incorrect = NoFrame /\ Len(answers) <= n + 1 =>
                queue'.prediction.frame = NoFrame
    <2>1. ~(Len(answers) > n + 1 /\ Len(answers) <= n + 1)
      BY <1>2, <1>5
    <2> QED BY <1>3, <1>4, <2>1, Zenon
  <1>14. Predicting(queue)' <=> incorrect # NoFrame \/ Len(answers) > n + 1
    BY <1>2, <1>5, <1>13 DEF Predicting, NoFrame
  <1>15. incorrect = n \/ incorrect \in 0 .. n - 1 \/ incorrect = NoFrame
    BY <1>2, <1>5, <1>7 DEF IInv, PredictsWhenItShould
  <1>16. PredictsWhenItShould'
    <2>1. Predicting(queue)' => /\ queue'.prediction.frame = n + 1
                                /\ log' # <<>>
      BY <1>5, <1>13, <1>14
    <2>2. ASSUME incorrect # NoFrame
          PROVE  incorrect <= n /\ incorrect < Len(answers)
      <3>1. CASE queue.first_incorrect_frame # NoFrame
        BY <1>2, <1>5, <1>7, <3>1 DEF IInv, PredictsWhenItShould
      <3>2. CASE queue.first_incorrect_frame = NoFrame
        <4>1. incorrect = n /\ Predicting(queue)
          BY <1>6, <2>2, <3>2, Zenon
        <4> QED BY <1>2, <1>5, <3>2, <4>1 DEF IInv, PredictsWhenItShould
      <3> QED BY <3>1, <3>2
    <2> QED BY <1>4, <1>5, <1>13, <1>14, <2>1, <2>2 DEF PredictsWhenItShould
  <1>17. PredictionIsWhatTheGameWasGiven'
    <2> SUFFICES ASSUME NEW f \in n + 1 .. Len(answers) - 1
                 PROVE  /\ ~answers[f + 1].confirmed
                        /\ Predicting(queue)'
                        /\ queue'.prediction.frame = n + 1
                        /\ queue'.prediction.bits = answers[f + 1].bits
      BY <1>4, <1>5 DEF PredictionIsWhatTheGameWasGiven
    <2>1. f \in n .. Len(answers) - 1 /\ Len(answers) > n + 1
      BY <1>2, <1>5
    <2> QED BY <1>13, <1>14, <2>1 DEF IInv, PredictionIsWhatTheGameWasGiven
  <1>18. EveryPredictionIsJudged'
    <2> SUFFICES ASSUME NEW f \in 0 .. n, History!PredictedFrame(f)'
                 PROVE  /\ incorrect = NoFrame \/ f < incorrect =>
                                History!Accepted(f, log[f + 1])'
                        /\ f = incorrect => ~History!Accepted(f, log[f + 1])'
      BY <1>5, <1>13 DEF EveryPredictionIsJudged
    <2>1. History!PredictedFrame(f)
      BY <1>4 DEF History!PredictedFrame
    <2>2. CASE f = n
      <3>1. f \in n .. Len(answers) - 1
        BY <1>2, <1>5, <2>1, <2>2 DEF History!PredictedFrame
      <3>2. Predicting(queue) /\ queue.prediction.bits = answers[n + 1].bits
        BY <2>2, <3>1 DEF IInv, PredictionIsWhatTheGameWasGiven
      <3>3. History!Accepted(f, log[f + 1])' <=> answers[n + 1].bits # bits
        BY <1>4, <1>5, <2>2 DEF History!Accepted, History!Equal
      <3>4. incorrect = NoFrame \/ f < incorrect => incorrect = NoFrame
        BY <1>2, <1>15, <2>2
      <3>5. incorrect = NoFrame => queue.prediction.bits # bits
        <4>1. n # NoFrame
          BY <1>2 DEF NoFrame
        <4> QED BY <1>6, <3>2, <4>1, Zenon
      <3>6. f = incorrect => ~(queue.prediction.bits # bits)
        <4>1. queue.first_incorrect_frame # n
          BY <1>2, <1>5 DEF IInv, PredictsWhenItShould, NoFrame
        <4> QED BY <1>6, <2>2, <4>1, Zenon
      <3> QED BY <3>2, <3>3, <3>4, <3>5, <3>6
    <2>3. CASE f # n
      <3>1. f \in 0 .. LastAdded /\ f + 1 \in 1 .. n
        BY <1>2, <1>5, <2>3
      <3>2. History!Accepted(f, log[f + 1])' <=> History!Accepted(f, log[f + 1])
        BY <1>4, <1>5, <3>1 DEF History!Accepted, History!Equal
      <3>3. incorrect = NoFrame \/ f < incorrect =>
                \/ queue.first_incorrect_frame = NoFrame
                \/ f < queue.first_incorrect_frame
        BY <1>7
      <3>4. f = incorrect => f = queue.first_incorrect_frame
        BY <1>7, <2>3
      <3> QED BY <2>1, <3>1, <3>2, <3>3, <3>4 DEF IInv, EveryPredictionIsJudged
    <2> QED BY <2>2, <2>3
  <1>19. ConfirmedAnswersMatchTheLog'
    <2> SUFFICES ASSUME NEW f \in 0 .. Len(answers) - 1, answers[f + 1].confirmed
                 PROVE  f <= n /\ answers[f + 1].bits = log'[f + 1]
      BY <1>4, <1>5 DEF ConfirmedAnswersMatchTheLog
    <2>1. f <= LastAdded /\ answers[f + 1].bits = log[f + 1]
      BY DEF IInv, ConfirmedAnswersMatchTheLog
    <2>2. f + 1 \in 1 .. n /\ f <= n
      BY <1>2, <1>5, <2>1
    <2> QED BY <1>5, <2>1, <2>2
  <1>20. OnlyTwoAssertionsFail'
    BY <1>4 DEF OnlyTwoAssertionsFail, Running
  <1> QED BY <1>8, <1>9, <1>10, <1>11, <1>12, <1>16, <1>17, <1>18, <1>19, <1>20
          DEF IInv

-----------------------------------------------------------------------------
(* The theorems.                                                           *)

\* A new queue, before any frame, satisfies the invariant.
LEMMA InitEstablishes ==
    ASSUME Init
    PROVE  IInv
  <1>1. /\ queue = NewQueue /\ frame_count = 0 /\ last_confirmed_frame = NoFrame
        /\ replay_to = NoFrame /\ panic = NoPanic /\ log = <<>> /\ answers = <<>>
        /\ Len(log) = 0 /\ Len(answers) = 0 /\ LastAdded = -1
    BY DEF Init, LastAdded
  <1>2. NewInput \in GameInputs /\ NewInput.frame = NoFrame
    BY DEF NewInput, GameInputs, Frame
  <1> HIDE DEF NewInput
  <1>3. /\ NewQueue.head = 0 /\ NewQueue.tail = 0 /\ NewQueue.length = 0
        /\ NewQueue.first_frame = TRUE
        /\ NewQueue.last_user_added_frame = NoFrame
        /\ NewQueue.last_added_frame = NoFrame
        /\ NewQueue.first_incorrect_frame = NoFrame
        /\ NewQueue.last_frame_requested = NoFrame
        /\ NewQueue.inputs = [slot \in Slots |-> NewInput]
        /\ NewQueue.prediction = NewInput
    BY DEF NewQueue
  <1>4. 0 \in Slots /\ 0 % QLen = 0
    BY ModSmall DEF Slots
  <1>5. TypeOK
    <2>1. NewQueue \in Queues
      BY <1>2, <1>4 DEF NewQueue, Queues, Frame
    <2> QED BY <1>1, <2>1 DEF TypeOK, Frame, FrameNum, Panics
  <1>6. OldestKept = 0
    BY <1>1 DEF OldestKept, NoFrame
  <1>7. RingHoldsNewestInputs
    BY <1>1, <1>3, <1>4 DEF RingHoldsNewestInputs, NoFrame
  <1>8. RollbackInputsKept
    BY <1>1, <1>3, <1>6 DEF RollbackInputsKept
  <1>9. WithinTheBarrier
    BY <1>1, <1>6 DEF WithinTheBarrier, NoFrame
  <1>10. QueueKnowsTheHistory
    <2>1. (log = <<>>) = TRUE
      BY <1>1
    <2>2. queue.first_frame = (log = <<>>)
      BY <1>1, <1>3, <2>1, Zenon
    <2>3. /\ queue.last_user_added_frame = LastAdded
          /\ queue.last_frame_requested = NoFrame
          /\ Len(answers) <= Len(log)
      BY <1>1, <1>3 DEF NoFrame
    <2> QED BY <2>2, <2>3 DEF QueueKnowsTheHistory
  <1>11. PredictsWhenItShould
    BY <1>1, <1>2, <1>3 DEF PredictsWhenItShould, Predicting
  <1>12. /\ PredictionIsWhatTheGameWasGiven /\ EveryPredictionIsJudged
         /\ ConfirmedAnswersMatchTheLog
    BY <1>1 DEF PredictionIsWhatTheGameWasGiven, EveryPredictionIsJudged,
                ConfirmedAnswersMatchTheLog
  <1>13. OnlyTwoAssertionsFail
    BY <1>1 DEF OnlyTwoAssertionsFail, Running
  <1> QED BY <1>5, <1>7, <1>8, <1>9, <1>10, <1>11, <1>12, <1>13 DEF IInv

\* A step that changes nothing keeps the invariant.
LEMMA StutteringPreserves ==
    ASSUME IInv, UNCHANGED vars
    PROVE  IInv'
  <1>1. /\ queue' = queue /\ frame_count' = frame_count
        /\ last_confirmed_frame' = last_confirmed_frame
        /\ replay_to' = replay_to /\ panic' = panic
        /\ log' = log /\ answers' = answers
    BY DEF vars, callerVars
  <1> QED
    BY <1>1 DEF IInv, TypeOK, RingHoldsNewestInputs, RollbackInputsKept,
                WithinTheBarrier, QueueKnowsTheHistory, PredictsWhenItShould,
                PredictionIsWhatTheGameWasGiven, EveryPredictionIsJudged,
                ConfirmedAnswersMatchTheLog, OnlyTwoAssertionsFail, OldestKept,
                LastAdded, Running, Predicting, History!PredictedFrame,
                History!Accepted, History!Equal

\* The inductive invariant holds in every reachable state, whatever the length
\* of the ring, the barrier, the lead and the kind of build.
THEOREM Invariant == Spec => []IInv
  <1>1. IInv /\ [Next]_vars => IInv'
    <2> SUFFICES ASSUME IInv, [Next]_vars
                 PROVE  IInv'
      OBVIOUS
    <2>1. ASSUME NEW bits \in Bits, AddNextInput(bits)
          PROVE  IInv'
      BY <2>1, AddNextInputPreserves
    <2>2. CASE SynchronizeInput
      BY <2>2, SynchronizeInputPreserves
    <2>3. CASE IncrementFrame
      BY <2>3, IncrementFramePreserves
    <2>4. ASSUME NEW frame \in 0 .. LastAdded, SetLastConfirmedFrame(frame)
          PROVE  IInv'
      BY <2>4, SetLastConfirmedFramePreserves
    <2>5. ASSUME NEW frame \in 0 .. frame_count, AdjustSimulation(frame)
          PROVE  IInv'
      BY <2>5, AdjustSimulationPreserves
    <2>6. CASE UNCHANGED vars
      BY <2>6, StutteringPreserves
    <2> QED BY <2>1, <2>2, <2>3, <2>4, <2>5, <2>6 DEF Next
  <1> QED BY <1>1, InitEstablishes, PTL DEF Spec

\* No method of the queue leaves it outside its type: head and tail stay in the
\* ring, the length within its capacity, whatever is added and discarded.
THEOREM TypeCorrect == Spec => []TypeOK
  BY Invariant, PTL DEF IInv
\* Wrapping indices never lose track of the inputs: the ring is the end of the
\* log, each input in the slot get_confirmed_input looks into.
THEOREM RingIsTheEndOfTheLog == Spec => []RingHoldsNewestInputs
  BY Invariant, PTL DEF IInv

\* Discarding confirmed inputs never takes one a rollback may ask for.
THEOREM RollbacksFindTheirInputs == Spec => []RollbackInputsKept
  BY Invariant, PTL DEF IInv

\* The game has been shown the held prediction, and no other, for every frame
\* still to be judged.
THEOREM PredictionsAreKept == Spec => []PredictionIsWhatTheGameWasGiven
  BY Invariant, PTL DEF IInv

\* No prediction escapes its verdict, and the frame reported is the first one
\* rejected.
THEOREM PredictionsAreJudged == Spec => []EveryPredictionIsJudged
  BY Invariant, PTL DEF IInv

\* What the game was told is confirmed is what the player sent.
THEOREM ConfirmedAnswersAreReceived == Spec => []ConfirmedAnswersMatchTheLog
  BY Invariant, PTL DEF IInv

\* Every assertion of the queue holds but the two named.
THEOREM AssertionsHold == Spec => []OnlyTwoAssertionsFail
  BY Invariant, PTL DEF IInv

-----------------------------------------------------------------------------
(* get_confirmed_input.                                                    *)

\* A slot holds an input of the window, or was never written.
LEMMA SlotContents ==
    ASSUME IInv, NEW slot \in Slots
    PROVE  \/ queue.inputs[slot] = NewInput
           \/ \E g \in 0 .. LastAdded :
                /\ g > LastAdded - QLen
                /\ g % QLen = slot
                /\ queue.inputs[slot] = [frame |-> g, bits |-> log[g + 1]]
  <1>1. LastAdded \in Int /\ slot \in Nat /\ slot < QLen
    BY DEF IInv, TypeOK, LastAdded, Slots
  <1>2. CASE slot > LastAdded
    BY <1>2 DEF IInv, RingHoldsNewestInputs
  <1>3. CASE slot <= LastAdded
    <2> DEFINE gap == LastAdded - slot
               turns == gap \div QLen
               g == slot + QLen * turns
    <2>1. gap \in Nat /\ gap + slot = LastAdded
      BY <1>1, <1>3
    <2> HIDE DEF gap
    <2>2. /\ gap = QLen * turns + (gap % QLen) /\ turns \in Nat
          /\ gap % QLen \in 0 .. QLen - 1
      BY <2>1, DivMod
    <2> DEFINE taken == QLen * turns
    <2>3. taken \in Nat /\ taken <= gap /\ gap < taken + QLen
      BY <2>1, <2>2
    <2>4. g = slot + taken
      OBVIOUS
    <2> HIDE DEF turns, taken
    <2>5. g \in 0 .. LastAdded /\ g > LastAdded - QLen /\ g \in Nat
      BY <1>1, <2>1, <2>3, <2>4
    <2>6. g = QLen * turns + slot
      BY <1>1, <2>2
    <2> HIDE DEF g
    <2>7. g % QLen = slot
      <3>1. slot \in 0 .. QLen - 1 /\ turns \in Int /\ QLen \in Nat \ {0}
        BY <1>1, <2>2
      <3> QED BY <2>5, <2>6, <3>1, RemainderIs, Zenon
    <2>8. queue.inputs[g % QLen] = [frame |-> g, bits |-> log[g + 1]]
      BY <2>5 DEF IInv, RingHoldsNewestInputs
    <2> QED BY <2>5, <2>7, <2>8
  <1> QED BY <1>1, <1>2, <1>3

\* get_confirmed_input returns the input received, given what the ring holds.
LEMMA ConfirmedInputFollows ==
    ASSUME IInv
    PROVE  ConfirmedInputIsTheOneReceived
  <1>1. frame_count + MaxLead + QLen \in Nat /\ Len(log) \in Nat
        /\ LastAdded = Len(log) - 1
    BY DEF IInv, TypeOK, FrameNum, LastAdded
  <1> SUFFICES ASSUME NEW f \in 0 .. frame_count + MaxLead + QLen
               PROVE  /\ GetConfirmedInput(queue, f).found =>
                            /\ f <= LastAdded
                            /\ GetConfirmedInput(queue, f).bits = log[f + 1]
                      /\ f <= LastAdded /\ f >= Len(log) - queue.length =>
                            GetConfirmedInput(queue, f).found
    BY Zenon DEF ConfirmedInputIsTheOneReceived
  <1>2. f \in Nat /\ f # NoFrame /\ f % QLen \in Slots
    BY <1>1, ModRange DEF Slots, NoFrame
  <1>3. /\ GetConfirmedInput(queue, f).found <=> queue.inputs[f % QLen].frame = f
        /\ GetConfirmedInput(queue, f).bits = queue.inputs[f % QLen].bits
    BY <1>2 DEF GetConfirmedInput
  <1>4. ASSUME queue.inputs[f % QLen].frame = f
        PROVE  f <= LastAdded /\ queue.inputs[f % QLen].bits = log[f + 1]
    <2>1. queue.inputs[f % QLen] # NewInput
      BY <1>2, <1>4 DEF NewInput
    <2>2. PICK g \in 0 .. LastAdded :
                queue.inputs[f % QLen] = [frame |-> g, bits |-> log[g + 1]]
      BY <1>2, <2>1, SlotContents
    <2>3. g = f
      BY <1>4, <2>2
    <2> QED BY <1>1, <2>2, <2>3
  <1>5. ASSUME f <= LastAdded, f >= Len(log) - queue.length
        PROVE  queue.inputs[f % QLen].frame = f
    <2>1. log # <<>>
      BY <1>1, <1>2, <1>5
    <2>2. f > LastAdded - QLen /\ f \in 0 .. LastAdded
      BY <1>1, <1>2, <1>5, <2>1, Window DEF IInv
    <2>3. queue.inputs[f % QLen] = [frame |-> f, bits |-> log[f + 1]]
      BY <2>2 DEF IInv, RingHoldsNewestInputs
    <2> QED BY <2>3
  <1> QED BY <1>3, <1>4, <1>5

\* get_confirmed_input, which reads one slot and compares its frame number,
\* returns exactly the inputs received: never another frame's, never a
\* discarded slot's old content under a new number.
THEOREM ConfirmedInputsAreReceived == Spec => []ConfirmedInputIsTheOneReceived
  <1>1. IInv => ConfirmedInputIsTheOneReceived
    BY ConfirmedInputFollows
  <1> QED BY <1>1, Invariant, PTL
-----------------------------------------------------------------------------
(* The queue implements InputHistory: each step maps to a step of the      *)
(* history, or to none.                                                    *)

\* Adding an input is a Receive step of the history, or a panic that it cannot see.
LEMMA AddNextInputIsReceive ==
    ASSUME IInv, NEW bits \in Bits, AddNextInput(bits)
    PROVE  History!Receive(bits)
  <1> DEFINE n == Len(log)
             input == [frame |-> n, bits |-> bits]
             added == AddInput(queue, input)
             incorrect == FirstIncorrectAfter(queue, input, n)
  <1>1. /\ Polling /\ n <= frame_count + MaxLead
        /\ IF added.panic = NoPanic
           THEN queue' = added.queue /\ log' = Append(log, bits)
           ELSE UNCHANGED <<queue, log>>
        /\ answers' = answers
    BY DEF AddNextInput
  <1>2. /\ n \in Nat /\ input \in GameInputs /\ input.frame = n
        /\ input.bits = bits /\ Len(answers) \in Nat
    BY DEF IInv, TypeOK, GameInputs, Frame, FrameNum
  <1> HIDE DEF input, added, incorrect
  <1>3. /\ added.panic = NoPanic
        /\ added.queue.inputs = [queue.inputs EXCEPT ![queue.head] = input]
        /\ added.queue.head = (queue.head + 1) % QLen
        /\ added.queue.tail = queue.tail
        /\ added.queue.length = queue.length + 1
        /\ added.queue.first_frame = FALSE
        /\ added.queue.last_user_added_frame = n
        /\ added.queue.last_added_frame = n
        /\ added.queue.last_frame_requested = queue.last_frame_requested
        /\ added.queue.first_incorrect_frame = incorrect
        /\ added.queue.prediction.bits = queue.prediction.bits
        /\ added.queue.prediction.frame =
                IF incorrect = NoFrame /\ Len(answers) <= n + 1
                THEN NoFrame ELSE n + 1
        /\ added.queue \in Queues
    BY <1>1, <1>2, AddInputOutcome DEF added, incorrect
  <1>4. log' = Append(log, bits) /\ queue'.first_incorrect_frame = incorrect
    BY <1>1, <1>3
  <1>5. incorrect = IF /\ Predicting(queue)
                       /\ queue.first_incorrect_frame = NoFrame
                       /\ ~(queue.prediction.bits # bits)
                    THEN n ELSE queue.first_incorrect_frame
    BY <1>2, Zenon DEF incorrect, FirstIncorrectAfter, Equal
  <1>6. ASSUME queue.first_incorrect_frame = NoFrame
        PROVE  (Predicting(queue) /\ ~(queue.prediction.bits # bits))
                 <=> (History!PredictedFrame(n) /\ ~History!Accepted(n, bits))
    <2>1. Predicting(queue) <=> Len(answers) > n
      BY <1>6 DEF IInv, PredictsWhenItShould
    <2>2. CASE Len(answers) > n
      <3>1. n \in n .. Len(answers) - 1
        BY <1>2, <2>2
      <3>2. ~answers[n + 1].confirmed /\ queue.prediction.bits = answers[n + 1].bits
        BY <3>1 DEF IInv, PredictionIsWhatTheGameWasGiven
      <3>3. History!PredictedFrame(n)
        BY <1>2, <2>2, <3>2 DEF History!PredictedFrame
      <3>4. History!Accepted(n, bits) <=> answers[n + 1].bits # bits
        BY DEF History!Accepted, History!Equal
      <3> QED BY <2>1, <2>2, <3>2, <3>3, <3>4, Zenon
    <2>3. CASE ~(Len(answers) > n)
      <3>1. ~History!PredictedFrame(n)
        BY <1>2, <2>3 DEF History!PredictedFrame
      <3> QED BY <2>1, <2>3, <3>1, Zenon
    <2> QED BY <2>2, <2>3
  <1>7. incorrect = IF /\ queue.first_incorrect_frame = NoFrame
                       /\ History!PredictedFrame(n)
                       /\ ~History!Accepted(n, bits)
                    THEN n ELSE queue.first_incorrect_frame
    BY <1>5, <1>6, Zenon
  <1>8. History!NoFrame = NoFrame
    BY DEF NoFrame, History!NoFrame
  <1> QED BY <1>1, <1>4, <1>7, <1>8, Zenon DEF History!Receive

\* An answered get_input is AskReceived or AskMissing, a panic is invisible.
LEMMA SynchronizeInputIsAnAnswer ==
    ASSUME IInv, SynchronizeInput
    PROVE  \/ History!AskReceived
           \/ History!AskMissing
           \/ UNCHANGED <<log, answers, queue.first_incorrect_frame>>
  <1> DEFINE got == GetInput(queue, frame_count)
             reported == queue.first_incorrect_frame
  <1>1. /\ Running /\ ~FrameAnswered /\ reported = NoFrame
        /\ IF got.panic = NoPanic
           THEN /\ queue' = got.queue
                /\ answers' = Append(answers, [bits |-> got.bits,
                                               confirmed |-> got.confirmed])
           ELSE UNCHANGED <<queue, answers>>
        /\ log' = log
    BY DEF SynchronizeInput
  <1> HIDE DEF got
  <1>2. /\ got.panic = IF log = <<>> THEN "nothing to predict from" ELSE NoPanic
        /\ got.confirmed \in BOOLEAN
        /\ got.confirmed <=> frame_count < Len(log)
        /\ frame_count < Len(log) =>
             /\ got.bits = log[frame_count + 1]
             /\ got.queue = [queue EXCEPT !.last_frame_requested = frame_count]
        /\ ~(frame_count < Len(log)) /\ log # <<>> =>
             /\ got.queue = [queue EXCEPT
                     !.last_frame_requested = frame_count,
                     !.prediction = [frame |-> Len(log),
                                     bits |-> IF frame_count > Len(log)
                                              THEN queue.prediction.bits
                                              ELSE log[Len(log)]]]
             /\ got.bits = IF frame_count > Len(log)
                           THEN queue.prediction.bits ELSE log[Len(log)]
    BY <1>1, GetInputOutcome DEF got
  <1>3. /\ frame_count = Len(answers) /\ Len(answers) \in Nat /\ Len(log) \in Nat
        /\ queue \in Queues /\ (log = <<>> <=> Len(log) = 0)
    BY <1>1 DEF IInv, TypeOK, FrameNum, WithinTheBarrier, FrameAnswered
  <1>7. History!NoFrame = NoFrame
    BY DEF NoFrame, History!NoFrame
  <1>4. CASE log = <<>>
    <2>1. got.panic # NoPanic
      BY <1>2, <1>4 DEF NoPanic
    <2> QED BY <1>1, <2>1
  <1>5. CASE log # <<>> /\ frame_count < Len(log)
    <2>1. /\ queue' = [queue EXCEPT !.last_frame_requested = frame_count]
          /\ answers' = Append(answers, [bits |-> got.bits,
                                         confirmed |-> got.confirmed])
      BY <1>1, <1>2, <1>5
    <2>2. queue'.first_incorrect_frame = queue.first_incorrect_frame
      BY <1>3, <2>1 DEF Queues
    <2>3. got.bits = log[Len(answers) + 1] /\ got.confirmed = TRUE
      BY <1>2, <1>3, <1>5
    <2>4. Len(answers) < Len(log)
      BY <1>3, <1>5
    <2> QED BY <1>1, <1>7, <2>1, <2>2, <2>3, <2>4 DEF History!AskReceived
  <1>6. CASE log # <<>> /\ ~(frame_count < Len(log))
    <2> DEFINE bits == IF frame_count > Len(log)
                       THEN queue.prediction.bits ELSE log[Len(log)]
               prediction == [frame |-> Len(log), bits |-> bits]
    <2>1. /\ queue' = [queue EXCEPT !.last_frame_requested = frame_count,
                                    !.prediction = prediction]
          /\ answers' = Append(answers, [bits |-> got.bits,
                                         confirmed |-> got.confirmed])
          /\ got.bits = bits
      BY <1>1, <1>2, <1>6, Zenon
    <2>2. queue'.first_incorrect_frame = queue.first_incorrect_frame
      <3> HIDE DEF prediction
      <3> QED BY <1>3, <2>1 DEF Queues
    <2>3. got.confirmed = FALSE
      BY <1>2, <1>6
    <2>4. bits = History!Guess
      <3>1. CASE frame_count > Len(log)
        <4> DEFINE last == Len(answers) - 1
        <4>1. last \in Len(log) .. Len(answers) - 1 /\ last + 1 = Len(answers)
              /\ Len(answers) > Len(log) /\ last < Len(answers)
          BY <1>3, <3>1
        <4>2. /\ ~answers[last + 1].confirmed
              /\ queue.prediction.bits = answers[last + 1].bits
          BY <4>1 DEF IInv, PredictionIsWhatTheGameWasGiven
        <4>3. History!Holding
          BY <4>1, <4>2 DEF History!Holding, History!PredictedFrame
        <4> QED BY <3>1, <4>1, <4>2, <4>3 DEF History!Guess
      <3>2. CASE ~(frame_count > Len(log))
        <4>1. ~History!Holding
          BY <1>3, <3>2 DEF History!Holding
        <4> QED BY <3>2, <4>1 DEF History!Guess
      <3> QED BY <3>1, <3>2
    <2>5. Len(answers) >= Len(log)
      BY <1>3, <1>6
    <2> HIDE DEF bits
    <2> QED BY <1>1, <1>6, <1>7, <2>1, <2>2, <2>3, <2>4, <2>5 DEF History!AskMissing
  <1> QED BY <1>4, <1>5, <1>6
\* Discarding inputs changes nothing the history sees.
LEMMA SetLastConfirmedFrameIsSilent ==
    ASSUME IInv, NEW frame \in 0 .. LastAdded, SetLastConfirmedFrame(frame)
    PROVE  UNCHANGED <<log, answers, queue.first_incorrect_frame>>
  <1> DEFINE discarded == IF frame > 0
                          THEN DiscardConfirmedFrames(queue, frame - 1)
                          ELSE Outcome(queue, NoPanic)
  <1>1. /\ Polling /\ queue.first_incorrect_frame = NoFrame
        /\ frame >= last_confirmed_frame /\ frame <= LastAdded
        /\ frame <= frame_count
        /\ queue' = IF discarded.panic = NoPanic THEN discarded.queue ELSE queue
        /\ log' = log /\ answers' = answers
    BY DEF SetLastConfirmedFrame
  <1>2. frame \in Nat /\ queue \in Queues
    BY DEF IInv, TypeOK, LastAdded
  <1>3. CASE frame > 0
    <2>1. discarded = DiscardConfirmedFrames(queue, frame - 1)
      BY <1>3, Zenon
    <2> HIDE DEF discarded
    <2>2. \/ discarded.panic = "discard before the tail"
          \/ /\ discarded.panic = NoPanic
             /\ discarded.queue = [queue EXCEPT !.tail = frame % QLen,
                                                !.length = Len(log) - frame]
      BY <1>1, <1>2, <1>3, <2>1, DiscardOutcome
    <2>3. CASE discarded.panic = "discard before the tail"
      <3>1. discarded.panic # NoPanic
        BY <2>3 DEF NoPanic
      <3> QED BY <1>1, <3>1
    <2>4. CASE /\ discarded.panic = NoPanic
               /\ discarded.queue = [queue EXCEPT !.tail = frame % QLen,
                                                  !.length = Len(log) - frame]
      <3>1. discarded.queue.first_incorrect_frame = queue.first_incorrect_frame
        BY <1>2, <2>4 DEF Queues
      <3> QED BY <1>1, <2>4, <3>1
    <2> QED BY <2>2, <2>3, <2>4
  <1>4. CASE ~(frame > 0)
    <2>1. discarded = Outcome(queue, NoPanic)
      BY <1>4, Zenon
    <2> HIDE DEF discarded
    <2>2. discarded.queue = queue
      BY <2>1, OutcomeFields
    <2> QED BY <1>1, <2>2
  <1> QED BY <1>3, <1>4

\* A rollback is a Rewind of the history.
LEMMA AdjustSimulationIsRewind ==
    ASSUME IInv, NEW seek_to \in 0 .. frame_count, AdjustSimulation(seek_to)
    PROVE  History!Rewind(seek_to) /\ seek_to \in 0 .. Len(answers)
  <1> DEFINE reset == ResetPrediction(queue, seek_to)
  <1>1. /\ Polling /\ seek_to <= LastAdded
        /\ queue.first_incorrect_frame # NoFrame
                => seek_to <= queue.first_incorrect_frame
        /\ queue' = IF reset.panic = NoPanic THEN reset.queue ELSE queue
        /\ answers' = SubSeq(answers, 1, seek_to)
        /\ log' = log
    BY DEF AdjustSimulation
  <1>2. /\ seek_to \in Nat /\ frame_count = Len(answers) /\ queue \in Queues
        /\ queue.first_incorrect_frame \in Int /\ LastAdded = Len(log) - 1
    BY <1>1 DEF IInv, TypeOK, FrameNum, Frame, NoFrame, LastAdded, Polling,
           FrameAnswered, WithinTheBarrier, Queues
  <1>3. queue'.first_incorrect_frame = NoFrame
    <2> DEFINE q == [queue EXCEPT !.prediction.frame = NoFrame,
                                  !.first_incorrect_frame = NoFrame,
                                  !.last_frame_requested = NoFrame]
    <2>1. ~(/\ queue.first_incorrect_frame # NoFrame
            /\ seek_to > queue.first_incorrect_frame)
      BY <1>1, <1>2
    <2>2. reset = Outcome(q, NoPanic)
      BY <2>1, Zenon DEF ResetPrediction
    <2>3. q.first_incorrect_frame = NoFrame
      BY <1>2 DEF Queues
    <2> HIDE DEF q, reset
    <2>4. reset.queue = q /\ reset.panic = NoPanic
      BY <2>2, OutcomeFields
    <2> QED BY <1>1, <2>3, <2>4
  <1>4. History!NoFrame = NoFrame /\ History!LastLogged = LastAdded
    BY DEF NoFrame, History!NoFrame, LastAdded, History!LastLogged
  <1> QED BY <1>1, <1>2, <1>3, <1>4 DEF History!Rewind

\* Seen through the log, the answers and the reported frame, the ring, its
\* indices and the calls that manage it are the input history: for every length
\* of the ring the queue answers, predicts, judges and rewinds as InputHistory
\* says.
THEOREM QueueImplementsHistory == Spec => ImplementsHistory
  <1>1. Init => History!Init
    <2> SUFFICES ASSUME Init
                 PROVE  History!Init
      OBVIOUS
    <2>1. queue.first_incorrect_frame = NoFrame
      <3> HIDE DEF NewInput
      <3> QED BY DEF Init, NewQueue
    <2> QED BY <2>1 DEF Init, History!Init, NoFrame, History!NoFrame
  <1>2. IInv /\ [Next]_vars => [History!Next]_(History!vars)
    <2> SUFFICES ASSUME IInv, [Next]_vars
                 PROVE  History!Next \/ UNCHANGED History!vars
      OBVIOUS
    <2>1. ASSUME NEW bits \in Bits, AddNextInput(bits)
          PROVE  History!Next
      BY <2>1, AddNextInputIsReceive DEF History!Next
    <2>2. CASE SynchronizeInput
      BY <2>2, SynchronizeInputIsAnAnswer DEF History!Next, History!vars
    <2>3. CASE IncrementFrame
      BY <2>3 DEF IncrementFrame, History!vars
    <2>4. ASSUME NEW frame \in 0 .. LastAdded, SetLastConfirmedFrame(frame)
          PROVE  UNCHANGED History!vars
      BY <2>4, SetLastConfirmedFrameIsSilent DEF History!vars
    <2>5. ASSUME NEW frame \in 0 .. frame_count, AdjustSimulation(frame)
          PROVE  History!Next
      BY <2>5, AdjustSimulationIsRewind DEF History!Next
    <2>6. CASE UNCHANGED vars
      BY <2>6 DEF vars, History!vars
    <2> QED BY <2>1, <2>2, <2>3, <2>4, <2>5, <2>6 DEF Next
  <1> QED BY <1>1, <1>2, Invariant, PTL DEF Spec, ImplementsHistory, History!Spec
=============================================================================
