-------------------------- MODULE UdpProto_proofs --------------------------
(***************************************************************************)
(* Proofs about UdpProtoSpec, for every choice of the protocol's intervals *)
(* and limits, both kinds of build and every bound of the model.           *)
(***************************************************************************)
EXTENDS UdpProtoSpec, RingArithmetic, NaturalNumbers, FiniteSetTheorems,
        SequenceTheorems

USE UdpAssumption, PeersAssumption

Allowed == {NoPanic, "too many compressed bits"} \cup BuildFailures

(***************************************************************************)
(* Why no keep-alive message is sent: while an endpoint runs, the time     *)
(* since it last sent anything is not longer than that since it last       *)
(* resent its input, until the latter is due again.                        *)
(***************************************************************************)
Retries(e) ==
    e.panic = NoPanic /\ e.state = "Running" =>
        e.idle <= e.unresent \/ e.unresent > RunningRetryInterval

\* The messages that log_msg can name.
Nameable == {msg \in Messages : msg.body.type # "KeepAlive"}

\* The input that waits, when the game sends input for frame nf next.
Output(e, nf) ==
    LET pending == e.pending_output IN
    /\ FollowsAcked(e)
    /\ \A i \in 1 .. Len(pending) : pending[i].frame = pending[1].frame + i - 1
    /\ e.state \in {"Starting", "Syncing"} =>
            pending = <<>> /\ e.last_acked_input.frame = NoFrame
    /\ e.state = "Running" =>
            IF pending = <<>>
            THEN e.last_acked_input.frame \in {NoFrame, nf - 1}
            ELSE pending[Len(pending)].frame = nf - 1

\* Only what lies before DefaultAckFrame was acknowledged, and while no
\* assertion failed what is pending fits into a message, one bit an input.
Fits(e) ==
    /\ e.last_acked_input.frame < DefaultAckFrame
    /\ e.panic = NoPanic => Len(e.pending_output) < MaxCompressedBits

\* An endpoint does not run before its round trips are made, and none ever is
\* but the last.
Handshake(e) ==
    /\ e.state = "Syncing" => e.roundtrips_remaining = NumSyncPackets
    /\ NumSyncPackets > 1 => e.state # "Running"

\* The backend is notified only by an endpoint that runs, after a silence.
Silence(e) ==
    e.disconnect_notify_sent =>
        /\ e.state \in {"Running", "Disconnected"}
        /\ e.state = "Running" => e.silent > DisconnectNotifyStart

\* No backend will be told that a handshake of several round trips ended.
Untold(e) ==
    NumSyncPackets > 1 =>
        \A i \in 1 .. Len(e.event_queue) : e.event_queue[i] # "Synchronized"

\* What holds of an endpoint whose game sends input for frame nf next.
Good(e, nf) ==
    /\ e \in Endpoints
    /\ e.panic \in Allowed
    /\ e.outbox \in Seq(Nameable)
    /\ Handshake(e)
    /\ Retries(e)
    /\ Output(e, nf)
    /\ Fits(e)
    /\ Silence(e)
    /\ Untold(e)

IInv ==
    /\ endpoint \in [Peers -> Endpoints]
    /\ next_frame \in [Peers -> Nat]
    /\ \A mail \in network : mail.to \in Peers /\ mail.msg \in Nameable
    /\ \A p \in Peers :
        endpoint[p].outbox = <<>> /\ Good(endpoint[p], next_frame[p])

-----------------------------------------------------------------------------
(* The methods.  e is the endpoint before one, t the endpoint after it.    *)

\* What most methods do with the parts of the endpoint that Good is about.
Keeps(e, t) ==
    /\ t \in Endpoints
    /\ t.pending_output = e.pending_output
    /\ t.last_acked_input = e.last_acked_input
    /\ t.state = e.state
    /\ t.roundtrips_remaining = e.roundtrips_remaining
    /\ e.panic \in Allowed => t.panic \in Allowed
    /\ t.panic = NoPanic => e.panic = NoPanic
    /\ e.outbox \in Seq(Nameable) => t.outbox \in Seq(Nameable)
    /\ Retries(e) => Retries(t)
    /\ Silence(e) => Silence(t)
    /\ Untold(e) => Untold(t)

\* What the methods do that tell the backend nothing.
Quiet(e, t) ==
    /\ t.event_queue = e.event_queue
    /\ t.silent = e.silent
    /\ t.disconnect_notify_sent = e.disconnect_notify_sent
    /\ t.disconnect_event_sent = e.disconnect_event_sent

\* A method that keeps these parts keeps what is good about an endpoint.
LEMMA KeepsGood ==
    ASSUME NEW e, NEW t, NEW nf, Good(e, nf), Keeps(e, t)
    PROVE  Good(t, nf)
  <1>1. Output(t, nf)
    BY DEF Good, Keeps, Output, FollowsAcked
  <1>2. Handshake(t) /\ Fits(t)
    BY DEF Good, Keeps, Handshake, Fits
  <1> QED BY <1>1, <1>2 DEF Good, Keeps

\* One method after another.
LEMMA KeepsTransitive ==
    ASSUME NEW e, NEW t, NEW u, Keeps(e, t), Keeps(t, u)
    PROVE  Keeps(e, u)
  BY DEF Keeps

\* The same of quiet methods.
LEMMA QuietTransitive ==
    ASSUME NEW e, NEW t, NEW u, Quiet(e, t), Quiet(t, u)
    PROVE  Quiet(e, u)
  BY DEF Quiet

\* A method that does nothing.
LEMMA KeepsSame ==
    ASSUME NEW e \in Endpoints
    PROVE  Keeps(e, e) /\ Quiet(e, e)
  BY DEF Keeps, Quiet

\* An assertion that may fail.
LEMMA FailKeeps ==
    ASSUME NEW e \in Endpoints, NEW assertion \in Allowed \cap Panics,
           assertion # NoPanic
    PROVE  Keeps(e, Fail(e, assertion)) /\ Quiet(e, Fail(e, assertion))
           /\ Fail(e, assertion).panic # NoPanic
  <1> DEFINE t == [e EXCEPT !.panic = assertion]
  <1>1. CASE e.panic # NoPanic
    BY <1>1, KeepsSame DEF Fail
  <1>2. CASE e.panic = NoPanic
    <2>1. t \in Endpoints
      BY DEF Endpoints
    <2>2. t.panic = assertion
      BY DEF Endpoints
    <2>3. Keeps(e, t) /\ Quiet(e, t)
      BY <2>1, <2>2 DEF Keeps, Quiet, Retries, Silence, Untold,
        Endpoints
    <2> QED BY <1>2, <2>2, <2>3 DEF Fail
  <1> QED BY <1>1, <1>2

\* An event for the backend.
LEMMA QueueEventTyped ==
    ASSUME NEW e \in Endpoints, NEW event \in Events
    PROVE  QueueEvent(e, event) \in Endpoints
  <1> DEFINE queue == Append(e.event_queue, event)
  <1>1. e.event_queue \in Seq(Events)
    BY DEF Endpoints
  <1>2. queue \in Seq(Events)
    BY <1>1
  <1>3. QueueEvent(e, event) = [e EXCEPT !.event_queue = queue]
    BY DEF QueueEvent
  <1> HIDE DEF queue
  <1> QED BY <1>2, <1>3 DEF Endpoints

\* It is not Synchronized, when the handshake takes several round trips.
LEMMA QueueEventKeeps ==
    ASSUME NEW e \in Endpoints, NEW event \in Events,
           event # "Synchronized" \/ NumSyncPackets = 1
    PROVE  Keeps(e, QueueEvent(e, event))
  <1> DEFINE t == [e EXCEPT !.event_queue = Append(@, event)]
  <1>1. e.event_queue \in Seq(Events)
    BY DEF Endpoints
  <1>2. t \in Endpoints
    BY QueueEventTyped DEF QueueEvent
  <1>3. Untold(e) => Untold(t)
    <2>1. /\ Len(e.event_queue) \in Nat
          /\ Len(t.event_queue) = Len(e.event_queue) + 1
          /\ \A i \in 1 .. Len(e.event_queue) :
                t.event_queue[i] = e.event_queue[i]
          /\ t.event_queue[Len(e.event_queue) + 1] = event
      <3>1. t.event_queue = Append(e.event_queue, event)
        BY DEF Endpoints
      <3> QED BY <1>1, <3>1
    <2> HIDE DEF t
    <2>2. ASSUME Untold(e), NumSyncPackets > 1,
                 NEW i \in 1 .. Len(t.event_queue)
          PROVE  t.event_queue[i] # "Synchronized"
      <3>1. CASE i = Len(e.event_queue) + 1
        BY <2>1, <2>2, <3>1
      <3>2. CASE i # Len(e.event_queue) + 1
        <4>1. i \in 1 .. Len(e.event_queue)
          BY <2>1, <3>2
        <4> QED BY <2>1, <2>2, <4>1 DEF Untold
      <3> QED BY <3>1, <3>2
    <2> QED BY <2>2 DEF Untold
  <1> QED
    BY <1>2, <1>3 DEF QueueEvent, Keeps, Retries, Silence, Endpoints

\* A message, other than a keep-alive message, is sent.
LEMMA SendMsgKeeps ==
    ASSUME NEW e \in Endpoints, NEW body \in Bodies, body.type # "KeepAlive"
    PROVE  LET t == SendMsg(e, body) IN
           Keeps(e, t) /\ Quiet(e, t) /\ (t.panic = NoPanic => t.idle = 0)
  <1> DEFINE seq == (e.next_send_seq + 1) % SeqMod
             m == [magic |-> e.magic_number, seq |-> seq, body |-> body]
             t == [e EXCEPT !.next_send_seq = seq, !.idle = 0,
                            !.outbox = Append(@, m)]
  <1>1. CASE OverflowChecks /\ e.next_send_seq + 1 = SeqMod
    <2>1. "send sequence overflow" \in Allowed \cap Panics
          /\ "send sequence overflow" # NoPanic
      BY <1>1 DEF Allowed, Panics, BuildFailures, NoPanic
    <2> QED BY <1>1, <2>1, FailKeeps DEF SendMsg
  <1>2. CASE ~(OverflowChecks /\ e.next_send_seq + 1 = SeqMod)
    <2>1. /\ e.next_send_seq \in 0 .. SeqMod - 1 /\ e.magic_number \in Nat
          /\ e.outbox \in Seq(Messages)
      BY DEF Endpoints
    <2>2. seq \in 0 .. SeqMod - 1
      <3>1. SeqMod \in Nat \ {0} /\ e.next_send_seq + 1 \in Nat
        BY <2>1
      <3> QED BY <3>1, ModRange
    <2> HIDE DEF seq
    <2>3. m \in Nameable
      BY <2>1, <2>2 DEF Messages, Nameable
    <2> HIDE DEF m
    <2>4. /\ Append(e.outbox, m) \in Seq(Messages)
          /\ e.outbox \in Seq(Nameable) =>
                Append(e.outbox, m) \in Seq(Nameable)
      BY <2>1, <2>3 DEF Nameable
    <2>5. 0 \in IdleAges
      BY DEF IdleAges
    <2>6. t \in Endpoints
      BY <2>2, <2>4, <2>5 DEF Endpoints
    <2>7. t.idle = 0 /\ t.outbox = Append(e.outbox, m) /\ e.unresent \in Nat
      BY DEF Endpoints, UnresentAges
    <2>8. Keeps(e, t) /\ Quiet(e, t)
      BY <2>4, <2>6, <2>7 DEF Keeps, Quiet, Retries, Silence, Untold,
        Endpoints
    <2>9. SendMsg(e, body) = t
      BY <1>2 DEF SendMsg, seq, m
    <2> QED BY <2>7, <2>8, <2>9
  <1> QED BY <1>1, <1>2

\* The encoding takes at least a bit for every pending input.
LEMMA EncodedAtLeast ==
    ASSUME NEW e \in Endpoints
    PROVE  EncodedBits(e) \in Int /\ EncodedBits(e) >= Len(e.pending_output)
  <1> DEFINE inputs == <<e.last_acked_input>> \o e.pending_output
             Change(n) == IF inputs[n].bits = inputs[n - 1].bits
                          THEN 0 ELSE ChangedInputBits
             Body(g) == [n \in Nat |->
                            IF n <= 1 THEN 0 ELSE g[n - 1] + 1 + Change(n)]
             upTo == CHOOSE g : g = Body(g)
             step == [n \in Nat |-> IF n = 0 THEN 0 ELSE 1 + Change(n + 1)]
             len == Len(e.pending_output)
  <1>1. len \in Nat /\ Len(inputs) = len + 1
    BY DEF Endpoints
  <1>2. EncodedBits(e) = upTo[Len(inputs)]
    BY DEF EncodedBits
  <1>3. \A n \in Nat : Change(n) \in Nat
    OBVIOUS
  <1> HIDE DEF inputs, Change, len
  <1>4. step \in [Nat -> Int] /\ \A n \in Nat \ {0} : step[n] >= 1
    BY <1>3
  <1>5. PICK s \in [Nat -> Int] :
            s[0] = 0 /\ \A n \in Nat : s[n + 1] = s[n] + step[n]
    BY <1>4, SumsExist
  <1>6. s = Body(s)
    <2>1. ASSUME NEW n \in Nat PROVE s[n] = Body(s)[n]
      <3>1. CASE n = 0
        BY <1>5, <3>1
      <3>2. CASE n = 1
        <4>1. s[0 + 1] = s[0] + step[0]
          BY <1>5
        <4> QED BY <1>5, <3>2, <4>1
      <3>3. CASE n > 1
        <4>1. n - 1 \in Nat /\ n - 1 # 0 /\ n - 1 + 1 = n
          BY <3>3
        <4>2. s[n] = s[n - 1] + step[n - 1]
          BY <1>5, <4>1
        <4>3. step[n - 1] = 1 + Change(n)
          BY <4>1
        <4>4. s[n - 1] \in Int /\ Change(n) \in Int
          BY <1>3, <1>5, <4>1
        <4>5. s[n] = s[n - 1] + 1 + Change(n)
          BY <4>2, <4>3, <4>4
        <4> QED BY <3>3, <4>5
      <3> QED BY <3>1, <3>2, <3>3
    <2> QED BY <1>5, <2>1
  <1>7. upTo = Body(upTo)
    <2> HIDE DEF Body
    <2> QED BY <1>6
  <1> HIDE DEF upTo
  <1> DEFINE T == {n \in Nat : upTo[n + 1] \in Int /\ upTo[n + 1] >= n}
  <1>8. 0 \in T
    BY <1>7
  <1>9. ASSUME NEW n \in Nat, n \in T PROVE n + 1 \in T
    <2>1. n + 1 + 1 \in Nat /\ ~(n + 1 + 1 <= 1) /\ n + 1 + 1 - 1 = n + 1
      OBVIOUS
    <2>2. upTo[n + 1 + 1] = upTo[n + 1] + 1 + Change(n + 1 + 1)
      BY <1>7, <2>1
    <2>3. Change(n + 1 + 1) \in Nat
      BY <1>3, <2>1
    <2> QED BY <1>9, <2>2, <2>3
  <1> HIDE DEF T
  <1>10. len \in T
    BY <1>1, <1>8, <1>9, Induction
  <1> QED BY <1>1, <1>2, <1>10 DEF T, len

\* The pending output is sent, if it fits into a message.
LEMMA SendPendingOutputKeeps ==
    ASSUME NEW e \in Endpoints, FollowsAcked(e)
    PROVE  LET t == SendPendingOutput(e) IN
           /\ Keeps(e, t) /\ Quiet(e, t)
           /\ t.panic = NoPanic =>
                t.idle = 0 /\ Len(e.pending_output) < MaxCompressedBits
  <1>1. CASE EncodedBits(e) >= MaxCompressedBits
    <2>1. "too many compressed bits" \in Allowed \cap Panics
          /\ "too many compressed bits" # NoPanic
      BY DEF Allowed, Panics, NoPanic
    <2> QED BY <1>1, <2>1, FailKeeps DEF SendPendingOutput
  <1>2. CASE ~(EncodedBits(e) >= MaxCompressedBits)
    <2> DEFINE input == [type |-> "Input"]
    <2>1. input \in Bodies /\ input.type # "KeepAlive"
      BY DEF Bodies
    <2>2. SendPendingOutput(e) = SendMsg(e, input)
      BY <1>2 DEF SendPendingOutput
    <2> HIDE DEF input
    <2>3. Len(e.pending_output) < MaxCompressedBits
      <3>1. Len(e.pending_output) \in Nat
        BY DEF Endpoints
      <3> QED BY <1>2, <3>1, EncodedAtLeast
    <2> QED BY <2>1, <2>2, <2>3, SendMsgKeeps
  <1> QED BY <1>1, <1>2

\* Input for the next frame is added to the pending output, and sent: the
\* pending inputs still are those of consecutive frames.
LEMMA SendInputGood ==
    ASSUME NEW e, NEW nf \in Nat, Good(e, nf),
           NEW bits \in Bits, NEW input, input = [frame |-> nf, bits |-> bits]
    PROVE  /\ Good(SendInput(e, input), nf + 1)
           /\ Quiet(e, SendInput(e, input))
  <1>1. e \in Endpoints
    BY DEF Good
  <1>2. CASE e.state = "Running"
    <2> DEFINE pending == e.pending_output
               added == Append(pending, input)
               t == [e EXCEPT !.pending_output = added]
    <2>1. pending \in Seq(PendingInputs) /\ input \in PendingInputs
      BY <1>1 DEF Endpoints, PendingInputs
    <2>2. /\ added \in Seq(PendingInputs)
          /\ Len(added) = Len(pending) + 1
          /\ added # <<>>
          /\ \A i \in 1 .. Len(pending) : added[i] = pending[i]
          /\ added[Len(pending) + 1] = input
      BY <2>1
    <2>3. t \in Endpoints /\ t.pending_output = added
      BY <1>1, <2>2 DEF Endpoints
    <2>4. /\ t.last_acked_input = e.last_acked_input /\ t.state = e.state
          /\ t.roundtrips_remaining = e.roundtrips_remaining
          /\ t.panic = e.panic /\ t.idle = e.idle /\ t.unresent = e.unresent
          /\ t.outbox = e.outbox
      BY <1>1 DEF Endpoints
    <2>5. Quiet(e, t)
      BY <1>1 DEF Endpoints, Quiet
    <2>6. /\ \A i \in 1 .. Len(pending) :
                pending[i].frame = pending[1].frame + i - 1
          /\ IF pending = <<>>
             THEN e.last_acked_input.frame \in {NoFrame, nf - 1}
             ELSE pending[Len(pending)].frame = nf - 1
          /\ FollowsAcked(e)
      BY <1>2 DEF Good, Output
    <2>7. input.frame = nf
      OBVIOUS
    <2> HIDE DEF added, t
    <2>8. /\ \A i \in 1 .. Len(added) : added[i].frame = added[1].frame + i - 1
          /\ added[Len(added)].frame = nf
          /\ \/ e.last_acked_input.frame = NoFrame
             \/ added[1].frame = e.last_acked_input.frame + 1
      <3>1. CASE pending = <<>>
        <4>1. Len(pending) = 0 /\ Len(added) = 1 /\ added[1] = input
          BY <2>2, <3>1
        <4>2. e.last_acked_input.frame \in {NoFrame, nf - 1}
          BY <2>6, <3>1
        <4> QED BY <2>7, <4>1, <4>2
      <3>2. CASE pending # <<>>
        <4>1. Len(pending) \in Nat \ {0}
          BY <2>1, <3>2
        <4>2. pending[Len(pending)].frame = nf - 1
          BY <2>6, <3>2
        <4>3. pending[1].frame \in Nat
          <5>1. pending[1] \in PendingInputs
            BY <2>1, <4>1
          <5> QED BY <5>1 DEF PendingInputs
        <4>4. nf - 1 = pending[1].frame + Len(pending) - 1
          BY <2>6, <4>1, <4>2
        <4>5. added[1] = pending[1]
          BY <2>2, <4>1
        <4>6. ASSUME NEW i \in 1 .. Len(added)
              PROVE  added[i].frame = added[1].frame + i - 1
          <5>1. CASE i = Len(pending) + 1
            <6>1. nf = pending[1].frame + (Len(pending) + 1) - 1
              <7> DEFINE k == Len(pending)
                         h == pending[1].frame
              <7>1. k \in Nat /\ h \in Nat /\ nf - 1 = h + k - 1
                BY <4>1, <4>3, <4>4
              <7> HIDE DEF k, h
              <7>2. nf = h + (k + 1) - 1
                BY <7>1
              <7> QED BY <7>2 DEF k, h
            <6>2. added[i].frame = nf
              BY <2>2, <2>7, <5>1
            <6> QED BY <4>5, <5>1, <6>1, <6>2
          <5>2. CASE i # Len(pending) + 1
            <6>1. i \in 1 .. Len(pending)
              BY <2>2, <4>1, <5>2
            <6> QED BY <2>2, <2>6, <4>5, <6>1
          <5> QED BY <5>1, <5>2
        <4>7. \/ e.last_acked_input.frame = NoFrame
              \/ pending[1].frame = e.last_acked_input.frame + 1
          BY <2>6, <3>2 DEF FollowsAcked
        <4> QED BY <2>2, <2>7, <4>1, <4>5, <4>6, <4>7
      <3> QED BY <3>1, <3>2
    <2>9. FollowsAcked(t)
      BY <2>3, <2>4, <2>8 DEF FollowsAcked
    <2>10. Output(t, nf + 1)
      <3>1. nf + 1 - 1 = nf
        OBVIOUS
      <3> QED BY <1>2, <2>2, <2>3, <2>4, <2>8, <2>9, <3>1 DEF Output
    <2>11. /\ t.panic \in Allowed /\ t.outbox \in Seq(Nameable)
           /\ Handshake(t) /\ Retries(t) /\ Silence(t) /\ Untold(t)
           /\ t.last_acked_input.frame < DefaultAckFrame
      BY <2>4, <2>5
      DEF Good, Handshake, Retries, Silence, Untold, Quiet, Fits
    <2> DEFINE u == SendPendingOutput(t)
    <2>12. SendInput(e, input) = u
      BY <1>2 DEF SendInput, t, added
    <2>13. /\ Keeps(t, u) /\ Quiet(t, u)
           /\ u.panic = NoPanic => Len(t.pending_output) < MaxCompressedBits
      BY <2>3, <2>9, SendPendingOutputKeeps
    <2> HIDE DEF u
    <2>14. Good(u, nf + 1)
      <3>1. Output(u, nf + 1)
        BY <2>10, <2>13 DEF Keeps, Output, FollowsAcked
      <3>2. Handshake(u) /\ Fits(u)
        BY <2>11, <2>13 DEF Keeps, Handshake, Fits
      <3> QED BY <2>11, <2>13, <3>1, <3>2 DEF Keeps, Good
    <2>15. Quiet(e, u)
      BY <2>5, <2>13, QuietTransitive
    <2> QED BY <2>12, <2>14, <2>15
  <1>3. CASE e.state # "Running"
    <2>1. SendInput(e, input) = SendPendingOutput(e) /\ FollowsAcked(e)
      BY <1>3 DEF SendInput, Good, Output
    <2>2. Good(e, nf + 1)
      BY <1>3 DEF Good, Output
    <2>3. Keeps(e, SendPendingOutput(e)) /\ Quiet(e, SendPendingOutput(e))
      BY <1>1, <2>1, SendPendingOutputKeeps
    <2>4. Good(SendPendingOutput(e), nf + 1)
      BY <2>2, <2>3, KeepsGood
    <2> QED BY <2>1, <2>3, <2>4
  <1> QED BY <1>2, <1>3

\* The parts that Good is not about may change in any way.
LEMMA UpdatesKeep ==
    ASSUME NEW e \in Endpoints
    PROVE  /\ Keeps(e, [e EXCEPT !.connected = TRUE])
           /\ Quiet(e, [e EXCEPT !.connected = TRUE])
           /\ Keeps(e, [e EXCEPT !.udp = TRUE])
           /\ Quiet(e, [e EXCEPT !.udp = TRUE])
           /\ Keeps(e, [e EXCEPT !.disconnect_event_sent = TRUE])
           /\ e.state = "Running" /\ e.silent > DisconnectNotifyStart =>
                Keeps(e, [e EXCEPT !.disconnect_notify_sent = TRUE])
           /\ ~(e.state = "Running" /\ e.disconnect_notify_sent) =>
                Keeps(e, [e EXCEPT !.silent = 0])
           /\ Keeps(e, [e EXCEPT !.silent = 0, !.disconnect_notify_sent = FALSE])
  <1>1. 0 \in SilentAges
    BY DEF SilentAges
  <1>2. Keeps(e, [e EXCEPT !.connected = TRUE])
        /\ Quiet(e, [e EXCEPT !.connected = TRUE])
    BY DEF Keeps, Quiet, Retries, Silence, Untold,
        Endpoints
  <1>3. Keeps(e, [e EXCEPT !.udp = TRUE])
        /\ Quiet(e, [e EXCEPT !.udp = TRUE])
    BY DEF Keeps, Quiet, Retries, Silence, Untold,
        Endpoints
  <1>4. Keeps(e, [e EXCEPT !.disconnect_event_sent = TRUE])
    BY DEF Keeps, Retries, Silence, Untold, Endpoints
  <1>5. e.state = "Running" /\ e.silent > DisconnectNotifyStart =>
            Keeps(e, [e EXCEPT !.disconnect_notify_sent = TRUE])
    BY DEF Keeps, Retries, Silence, Untold, Endpoints
  <1>6. ~(e.state = "Running" /\ e.disconnect_notify_sent) =>
            Keeps(e, [e EXCEPT !.silent = 0])
    BY <1>1 DEF Keeps, Retries, Silence, Untold, Endpoints
  <1>7. Keeps(e, [e EXCEPT !.silent = 0, !.disconnect_notify_sent = FALSE])
    BY <1>1 DEF Keeps, Retries, Silence, Untold, Endpoints
  <1> QED BY <1>2, <1>3, <1>4, <1>5, <1>6, <1>7

\* A sync request is sent while the endpoint synchronizes.
LEMMA SendSyncRequestKeeps ==
    ASSUME NEW e \in Endpoints, NEW random \in Randoms
    PROVE  /\ Keeps(e, SendSyncRequest(e, random))
           /\ Quiet(e, SendSyncRequest(e, random))
  <1> DEFINE drawn == [e EXCEPT !.random = random]
             request == [type |-> "SyncRequest", random |-> random]
  <1>1. Keeps(e, drawn) /\ Quiet(e, drawn) /\ drawn \in Endpoints
    BY DEF Keeps, Quiet, Retries, Silence, Untold,
        Endpoints
  <1>2. request \in Bodies /\ request.type # "KeepAlive"
    BY DEF Bodies
  <1>3. SendSyncRequest(e, random) =
            IF e.state = "Syncing" THEN SendMsg(drawn, request) ELSE e
    BY DEF SendSyncRequest
  <1> HIDE DEF drawn, request
  <1>4. Keeps(drawn, SendMsg(drawn, request))
        /\ Quiet(drawn, SendMsg(drawn, request))
    BY <1>1, <1>2, SendMsgKeeps
  <1>5. Keeps(e, SendMsg(drawn, request)) /\ Quiet(e, SendMsg(drawn, request))
    BY <1>1, <1>4, KeepsTransitive, QuietTransitive
  <1> QED BY <1>3, <1>5, KeepsSame

(***************************************************************************)
(* What may come of a message before the endpoint notes that it heard its  *)
(* peer: `got` is the endpoint and whether the message was handled.        *)
(***************************************************************************)
Answers(e, got, nf) ==
    LET t == got.endpoint IN
    /\ Good(t, nf)
    /\ t.disconnect_event_sent # e.disconnect_event_sent => got.handled
    /\ e.state = "Disconnected" =>
            t.state = "Disconnected" /\ t.event_queue = e.event_queue

\* A quiet method answers.
LEMMA QuietAnswers ==
    ASSUME NEW e, NEW t, NEW nf, NEW handled,
           Good(e, nf), Keeps(e, t), Quiet(e, t)
    PROVE  Answers(e, [endpoint |-> t, handled |-> handled], nf)
  <1>1. Good(t, nf)
    BY KeepsGood
  <1> QED BY <1>1 DEF Answers, Keeps, Quiet

\* A request for synchronization is answered.
LEMMA OnSyncRequestAnswers ==
    ASSUME NEW e, NEW nf, Good(e, nf),
           NEW msg \in Messages, msg.body.type = "SyncRequest"
    PROVE  Answers(e, OnSyncRequest(e, msg), nf)
  <1> DEFINE reply == [type |-> "SyncReply", random |-> msg.body.random]
  <1>1. msg.body \in Bodies
    BY DEF Messages
  <1>2. msg.body.random \in Randoms
    BY <1>1 DEF Bodies
  <1>3. reply \in Bodies /\ reply.type # "KeepAlive"
    BY <1>2 DEF Bodies
  <1>4. OnSyncRequest(e, msg) \in {Ignored(e), Handled(SendMsg(e, reply))}
    BY DEF OnSyncRequest
  <1> HIDE DEF reply
  <1>5. e \in Endpoints
    BY DEF Good
  <1>6. Keeps(e, SendMsg(e, reply)) /\ Quiet(e, SendMsg(e, reply))
    BY <1>3, <1>5, SendMsgKeeps
  <1>7. Answers(e, Handled(SendMsg(e, reply)), nf)
    BY <1>6, QuietAnswers DEF Handled
  <1>8. Answers(e, Ignored(e), nf)
    BY <1>5, KeepsSame, QuietAnswers DEF Ignored
  <1> QED BY <1>4, <1>7, <1>8

\* A reply to a request for synchronization: round trips go on, or the
\* endpoint runs, with no input sent yet and its first resending due.
LEMMA OnSyncReplyAnswers ==
    ASSUME NEW e, NEW nf, Good(e, nf), NEW msg \in Messages,
           NEW random \in Randoms
    PROVE  Answers(e, OnSyncReply(e, msg, random), nf)
  <1> DEFINE c == NoteConnected(e)
             running == [c EXCEPT !.state = "Running", !.unresent = LongAgo,
                                  !.remote_magic_number = msg.magic]
             done == QueueEvent(running, "Synchronized")
             counted == QueueEvent(c, "Synchronizing")
             more == SendSyncRequest(counted, random)
  <1>1. e \in Endpoints
    BY DEF Good
  <1>2. ASSUME NEW handled
        PROVE  Answers(e, [endpoint |-> e, handled |-> handled], nf)
    BY <1>1, KeepsSame, QuietAnswers
  <1>3. CASE e.state # "Syncing" \/ msg.body.random # e.random
    BY <1>2, <1>3 DEF OnSyncReply, Ignored
  <1>4. CASE e.state = "Syncing" /\ msg.body.random = e.random
    <2>1. "Connected" \in Events /\ "Synchronizing" \in Events
          /\ "Synchronized" \in Events
      BY DEF Events
    <2>2. Keeps(e, c) /\ c.disconnect_event_sent = e.disconnect_event_sent
      <3> DEFINE f == [e EXCEPT !.connected = TRUE]
      <3>1. Keeps(e, f) /\ f \in Endpoints
        BY <1>1, UpdatesKeep DEF Keeps
      <3>2. Keeps(e, QueueEvent(f, "Connected"))
        BY <2>1, <3>1, QueueEventKeeps, KeepsTransitive
      <3>3. QueueEvent(f, "Connected").disconnect_event_sent
                = e.disconnect_event_sent
        BY <1>1 DEF QueueEvent, Endpoints
      <3> QED BY <1>1, <3>2, <3>3, KeepsSame DEF NoteConnected
    <2>3. /\ c \in Endpoints /\ Good(c, nf) /\ c.state = "Syncing"
          /\ e.roundtrips_remaining = NumSyncPackets
      BY <1>4, <2>2, KeepsGood DEF Keeps, Good, Handshake
    <2>4. OnSyncReply(e, msg, random) =
            IF NumSyncPackets = 1 THEN Handled(done) ELSE Handled(more)
      BY <1>4, <2>3 DEF OnSyncReply
    <2> HIDE DEF c
    <2>5. ASSUME NumSyncPackets = 1
          PROVE  Answers(e, Handled(done), nf)
      <3>1. msg.magic \in Nat /\ LongAgo \in UnresentAges
            /\ LongAgo > RunningRetryInterval
        BY DEF Messages, LongAgo, UnresentAges
      <3>2. running \in Endpoints
        BY <2>3, <3>1 DEF Endpoints, States
      <3>3. /\ running.state = "Running" /\ running.unresent = LongAgo
            /\ running.pending_output = c.pending_output
            /\ running.last_acked_input = c.last_acked_input
            /\ running.panic = c.panic /\ running.outbox = c.outbox
            /\ running.disconnect_event_sent = c.disconnect_event_sent
            /\ running.disconnect_notify_sent = c.disconnect_notify_sent
            /\ running.event_queue = c.event_queue
        BY <2>3 DEF Endpoints
      <3> HIDE DEF running
      <3>4. Retries(running)
        BY <3>1, <3>3 DEF Retries
      <3>5. Output(running, nf)
        BY <2>3, <3>3 DEF Good, Output, FollowsAcked
      <3>6. /\ Handshake(running) /\ Fits(running)
            /\ Silence(running) /\ Untold(running)
        BY <2>3, <2>5, <3>3 DEF Good, Handshake, Fits, Silence, Untold
      <3>7. Good(running, nf)
        BY <2>3, <3>2, <3>3, <3>4, <3>5, <3>6 DEF Good
      <3>8. Keeps(running, done)
            /\ done.disconnect_event_sent = running.disconnect_event_sent
        BY <2>1, <2>5, <3>2, QueueEventKeeps DEF QueueEvent, Endpoints
      <3>9. Good(done, nf)
        BY <3>7, <3>8, KeepsGood
      <3> HIDE DEF done
      <3> QED BY <1>4, <2>2, <3>3, <3>8, <3>9 DEF Answers, Handled
    <2>6. Answers(e, Handled(more), nf)
      <3>1. Keeps(c, counted)
            /\ counted.disconnect_event_sent = c.disconnect_event_sent
        BY <2>1, <2>3, QueueEventKeeps DEF QueueEvent, Endpoints
      <3>2. counted \in Endpoints
        BY <3>1 DEF Keeps
      <3> HIDE DEF counted
      <3>3. Keeps(counted, more) /\ Quiet(counted, more)
        BY <3>2, SendSyncRequestKeeps
      <3> HIDE DEF more
      <3>4. Good(more, nf)
        BY <2>3, <3>1, <3>3, KeepsGood, KeepsTransitive
      <3> QED BY <1>4, <2>2, <3>1, <3>3, <3>4 DEF Answers, Handled, Quiet
    <2> QED BY <2>4, <2>5, <2>6
  <1> QED BY <1>3, <1>4

\* There is a first pending input that the acknowledgement does not cover.
LEMMA AcknowledgedCount ==
    ASSUME NEW pending \in Seq(PendingInputs), NEW ack \in Nat
    PROVE  LET n == Acknowledged(pending, ack) IN
           n \in 0 .. Len(pending) /\ \A i \in 1 .. n : pending[i].frame < ack
  <1> DEFINE T == {n \in 0 .. Len(pending) :
                    n < Len(pending) => pending[n + 1].frame >= ack}
             Is(n) == /\ \A i \in 1 .. n : pending[i].frame < ack
                      /\ n < Len(pending) => pending[n + 1].frame >= ack
  <1>1. Len(pending) \in Nat
    OBVIOUS
  <1>2. Len(pending) \in T /\ T \subseteq Nat
    BY <1>1
  <1>3. PICK n \in T : \A m \in T : n <= m
    BY <1>2, LeastNatural
  <1>4. n \in 0 .. Len(pending)
    OBVIOUS
  <1>5. ASSUME NEW i \in 1 .. n PROVE pending[i].frame < ack
    <2>1. i - 1 \in 0 .. Len(pending) /\ i - 1 < Len(pending) /\ ~(n <= i - 1)
      BY <1>1, <1>4
    <2>2. i - 1 \notin T
      BY <1>3, <2>1
    <2>3. ~(pending[i - 1 + 1].frame >= ack)
      BY <2>1, <2>2
    <2>4. i - 1 + 1 = i /\ i \in 1 .. Len(pending)
      BY <1>1, <1>4
    <2>5. pending[i] \in PendingInputs
      BY <2>4
    <2>6. pending[i].frame \in Nat
      BY <2>5 DEF PendingInputs
    <2> QED BY <2>3, <2>4, <2>6
  <1>6. Is(n)
    BY <1>5
  <1>7. \E m \in 0 .. Len(pending) : Is(m)
    BY <1>4, <1>6
  <1> HIDE DEF Is
  <1> DEFINE chosen == CHOOSE m \in 0 .. Len(pending) : Is(m)
  <1>8. chosen \in 0 .. Len(pending) /\ Is(chosen)
    BY <1>7
  <1>9. Acknowledged(pending, ack) = chosen
    BY DEF Acknowledged, Is
  <1> HIDE DEF chosen
  <1> QED BY <1>8, <1>9 DEF Is

\* Inputs are dropped from the front only, so what is pending stays
\* contiguous with what is acknowledged.
LEMMA DropAckedGood ==
    ASSUME NEW e, NEW nf \in Nat, Good(e, nf),
           NEW ack \in Nat, ack <= DefaultAckFrame
    PROVE  Good(DropAcked(e, ack), nf) /\ Quiet(e, DropAcked(e, ack))
           /\ DropAcked(e, ack).state = e.state
  <1> DEFINE pending == e.pending_output
             n == Acknowledged(pending, ack)
             left == SubSeq(pending, n + 1, Len(pending))
             acked == IF n = 0 THEN e.last_acked_input ELSE pending[n]
             t == [e EXCEPT !.pending_output = left, !.last_acked_input = acked]
  <1>1. e \in Endpoints
    BY DEF Good
  <1>2. pending \in Seq(PendingInputs) /\ e.last_acked_input \in AckedInputs
    BY <1>1 DEF Endpoints
  <1>3. n \in 0 .. Len(pending) /\ \A i \in 1 .. n : pending[i].frame < ack
    BY <1>2, AcknowledgedCount
  <1>4. DropAcked(e, ack) = t
    BY DEF DropAcked
  <1> HIDE DEF n
  <1>5. Len(pending) \in Nat
    BY <1>2
  <1>6. /\ left \in Seq(PendingInputs)
        /\ Len(left) = Len(pending) - n
        /\ \A i \in 1 .. Len(pending) - n : left[i] = pending[n + i]
    BY <1>2, <1>3, <1>5
  <1>7. \A i \in 1 .. Len(pending) : pending[i] \in PendingInputs
    BY <1>2
  <1>8. acked \in AckedInputs
    BY <1>2, <1>3, <1>5, <1>7 DEF AckedInputs, PendingInputs
  <1>9. ASSUME NEW i \in 1 .. Len(pending)
        PROVE  /\ pending[i].frame \in Nat
               /\ pending[i].frame = pending[1].frame + i - 1
    <2>1. pending[i] \in PendingInputs
      BY <1>7
    <2> QED BY <2>1 DEF PendingInputs, Good, Output
  <1> HIDE DEF left, acked
  <1>10. /\ t \in Endpoints
         /\ t.pending_output = left /\ t.last_acked_input = acked
         /\ t.state = e.state /\ t.panic = e.panic
         /\ t.roundtrips_remaining = e.roundtrips_remaining
         /\ t.idle = e.idle /\ t.unresent = e.unresent
         /\ t.outbox = e.outbox
    BY <1>1, <1>6, <1>8 DEF Endpoints
  <1>11. Quiet(e, t)
    BY <1>1 DEF Quiet, Endpoints
  <1> HIDE DEF t
  <1>12. Fits(t)
    <2>1. e.panic = NoPanic => Len(left) < MaxCompressedBits
      BY <1>3, <1>5, <1>6 DEF Good, Fits
    <2>2. acked.frame < DefaultAckFrame
      <3>1. CASE n = 0
        BY <3>1 DEF Good, Fits, acked
      <3>2. CASE n # 0
        <4>1. n \in 1 .. n /\ n \in 1 .. Len(pending)
          BY <1>3, <1>5, <3>2
        <4>2. pending[n].frame < ack /\ pending[n].frame \in Nat
          BY <1>3, <1>9, <4>1
        <4> QED BY <3>2, <4>2 DEF acked
      <3> QED BY <3>1, <3>2
    <2> QED BY <1>10, <2>1, <2>2 DEF Fits
  <1>13. Handshake(t) /\ Retries(t) /\ Silence(t) /\ Untold(t)
    BY <1>10, <1>11 DEF Good, Handshake, Retries, Silence, Untold, Quiet
  <1>14. CASE n = 0
    <2>1. acked = e.last_acked_input /\ Len(left) = Len(pending)
      BY <1>5, <1>6, <1>14 DEF acked
    <2>2. \A i \in 1 .. Len(pending) : left[i] = pending[i]
      BY <1>5, <1>6, <1>14
    <2>3. left = pending
      BY <1>2, <1>6, <2>1, <2>2, SeqEqual
    <2>4. Output(t, nf)
      BY <1>10, <2>1, <2>3 DEF Good, Output, FollowsAcked
    <2> QED BY <1>4, <1>10, <1>11, <1>12, <1>13, <2>4 DEF Good
  <1>15. CASE n # 0
    <2>1. n \in 1 .. Len(pending) /\ acked = pending[n]
      BY <1>3, <1>5, <1>15 DEF acked
    <2>2. pending # <<>>
      BY <1>2, <2>1
    <2>3. e.state \notin {"Starting", "Syncing"}
      BY <2>2 DEF Good, Output
    <2>4. left = <<>> <=> n = Len(pending)
      BY <1>5, <1>6, <2>1
    <2>5. ASSUME NEW i \in 1 .. Len(left)
          PROVE  left[i].frame = pending[1].frame + n + i - 1
                 /\ left[i].frame \in Nat
      <3>1. n + i \in 1 .. Len(pending) /\ i \in 1 .. Len(pending) - n
        BY <1>5, <1>6, <2>1
      <3>2. pending[n + i].frame = pending[1].frame + (n + i) - 1
            /\ pending[n + i].frame \in Nat
        BY <1>9, <3>1
      <3>3. left[i] = pending[n + i]
        BY <1>6, <3>1
      <3>4. pending[1].frame \in Nat
        <4>1. 1 \in 1 .. Len(pending)
          BY <1>5, <2>1
        <4> QED BY <1>9, <4>1
      <3>5. pending[1].frame + (n + i) - 1 = pending[1].frame + n + i - 1
        <4> DEFINE h == pending[1].frame
        <4>1. h \in Nat /\ n \in Nat /\ i \in Nat
          BY <1>5, <2>1, <3>1, <3>4
        <4> HIDE DEF h
        <4>2. h + (n + i) - 1 = h + n + i - 1
          BY <4>1
        <4> QED BY <4>2 DEF h
      <3> QED BY <3>2, <3>3, <3>5
    <2>6. acked.frame = pending[1].frame + n - 1 /\ pending[1].frame \in Nat
      <3>1. 1 \in 1 .. Len(pending)
        BY <1>5, <2>1
      <3> QED BY <1>9, <2>1, <3>1
    <2>7. \A i \in 1 .. Len(left) : left[i].frame = left[1].frame + i - 1
      <3>1. SUFFICES ASSUME NEW i \in 1 .. Len(left)
                     PROVE  left[i].frame = left[1].frame + i - 1
        OBVIOUS
      <3>2. 1 \in 1 .. Len(left)
        BY <1>5, <1>6, <2>1
      <3>3. left[1].frame = pending[1].frame + n + 1 - 1
            /\ left[i].frame = pending[1].frame + n + i - 1
        BY <2>5, <3>2
      <3> QED BY <2>1, <2>6, <3>3
    <2>8. FollowsAcked(t)
      <3>1. CASE left = <<>>
        BY <1>10, <3>1 DEF FollowsAcked
      <3>2. CASE left # <<>>
        <4>1. 1 \in 1 .. Len(left)
          BY <1>6, <3>2
        <4>2. left[1].frame = pending[1].frame + n + 1 - 1
          BY <2>5, <4>1
        <4>3. left[1].frame = acked.frame + 1
          <5>1. n \in Nat
            BY <1>5, <2>1
          <5> DEFINE h == pending[1].frame
          <5>2. h \in Nat /\ left[1].frame = h + n + 1 - 1
                /\ acked.frame = h + n - 1
            BY <2>6, <4>2
          <5> HIDE DEF h
          <5> QED BY <5>1, <5>2
        <4> QED BY <1>10, <4>3 DEF FollowsAcked
      <3> QED BY <3>1, <3>2
    <2>9. ASSUME e.state = "Running"
          PROVE  IF left = <<>> THEN acked.frame \in {NoFrame, nf - 1}
                 ELSE left[Len(left)].frame = nf - 1
      <3>1. pending[Len(pending)].frame = nf - 1
        BY <2>2, <2>9 DEF Good, Output
      <3>2. CASE left = <<>>
        BY <2>1, <2>4, <3>1, <3>2
      <3>3. CASE left # <<>>
        <4>1. Len(left) \in 1 .. Len(pending) - n
              /\ n + Len(left) = Len(pending)
          BY <1>5, <1>6, <2>1, <2>4, <3>3
        <4> QED BY <1>6, <3>1, <3>3, <4>1
      <3> QED BY <3>2, <3>3
    <2>10. Output(t, nf)
      BY <1>10, <2>3, <2>7, <2>8, <2>9 DEF Output
    <2> QED BY <1>4, <1>10, <1>11, <1>12, <1>13, <2>10 DEF Good
  <1> QED BY <1>14, <1>15

\* An Input message requests a disconnect and acknowledges a frame.
LEMMA OnInputAnswers ==
    ASSUME NEW e, NEW nf \in Nat, Good(e, nf)
    PROVE  Answers(e, OnInput(e), nf)
  <1> DEFINE d == [e EXCEPT !.disconnect_event_sent = TRUE]
             r == RequestedDisconnect(e)
             t == DropAcked(r, DefaultAckFrame)
  <1>1. e \in Endpoints
    BY DEF Good
  <1>2. Keeps(e, r) /\ (e.state = "Disconnected" => r = e)
    <2>1. Keeps(e, d) /\ d \in Endpoints /\ "Disconnected" \in Events
      BY <1>1, UpdatesKeep DEF Keeps, Events
    <2>2. Keeps(e, QueueEvent(d, "Disconnected"))
      BY <2>1, QueueEventKeeps, KeepsTransitive
    <2> QED BY <1>1, <2>2, KeepsSame DEF RequestedDisconnect
  <1> HIDE DEF r
  <1>3. Good(r, nf) /\ r.state = e.state
    BY <1>2, KeepsGood DEF Keeps
  <1>4. Good(t, nf) /\ Quiet(r, t) /\ t.state = r.state
    BY <1>3, DropAckedGood
  <1>5. OnInput(e) = [endpoint |-> t, handled |-> TRUE]
    BY DEF OnInput, Handled, r
  <1> HIDE DEF t
  <1> QED BY <1>2, <1>3, <1>4, <1>5 DEF Answers, Quiet

\* Every message answers, whatever its type; a keep-alive message, which
\* fails an assertion, is not among them.
LEMMA DispatchAnswers ==
    ASSUME NEW e, NEW nf \in Nat, Good(e, nf), NEW random \in Randoms,
           NEW msg \in Messages, msg.body.type # "KeepAlive"
    PROVE  Answers(e, Dispatch(e, msg, random), nf)
  <1>1. msg.body.type \in {"SyncRequest", "SyncReply", "Input",
                           "QualityReport", "QualityReply"}
    BY DEF Messages, Bodies
  <1>2. e \in Endpoints
    BY DEF Good
  <1>3. CASE msg.body.type = "SyncRequest"
    BY <1>3, OnSyncRequestAnswers DEF Dispatch
  <1>4. CASE msg.body.type = "SyncReply"
    BY <1>4, OnSyncReplyAnswers DEF Dispatch
  <1>5. CASE msg.body.type = "Input"
    BY <1>5, OnInputAnswers DEF Dispatch
  <1>6. CASE msg.body.type = "QualityReport"
    <2> DEFINE reply == [type |-> "QualityReply"]
    <2>1. reply \in Bodies /\ reply.type # "KeepAlive"
      BY DEF Bodies
    <2>2. Dispatch(e, msg, random) = Handled(SendMsg(e, reply))
      BY <1>6 DEF Dispatch, OnQualityReport
    <2> HIDE DEF reply
    <2> QED BY <1>2, <2>1, <2>2, SendMsgKeeps, QuietAnswers DEF Handled
  <1>7. CASE msg.body.type = "QualityReply"
    <2>1. Dispatch(e, msg, random) = Handled(e)
      BY <1>7 DEF Dispatch
    <2> QED BY <1>2, <2>1, KeepsSame, QuietAnswers DEF Handled
  <1> QED BY <1>1, <1>3, <1>4, <1>5, <1>6, <1>7

(***************************************************************************)
(* What a step tells the backend: that the connection ended only after a   *)
(* message or after the notification, and nothing after disconnect.        *)
(***************************************************************************)
Tells(e, t) ==
    /\ t.disconnect_event_sent # e.disconnect_event_sent =>
            t.silent = 0 \/ t.disconnect_notify_sent
    /\ e.state = "Disconnected" => t.event_queue = e.event_queue

\* A quiet method tells nothing.
LEMMA QuietTells ==
    ASSUME NEW e, NEW t, Quiet(e, t)
    PROVE  Tells(e, t)
  BY DEF Quiet, Tells

\* A message, whatever it is and whenever it arrives.
LEMMA OnMsgGood ==
    ASSUME NEW e, NEW nf \in Nat, Good(e, nf),
           NEW msg \in Nameable, NEW random \in Randoms
    PROVE  Good(OnMsg(e, msg, random), nf) /\ Tells(e, OnMsg(e, msg, random))
  <1> DEFINE underflow == /\ OverflowChecks /\ ~IsSync(msg)
                          /\ msg.magic = e.remote_magic_number
                          /\ msg.seq < e.next_recv_seq
             failed == Fail(e, "receive sequence underflow")
             f == [e EXCEPT !.next_recv_seq = msg.seq]
             got == Dispatch(f, msg, random)
             t == got.endpoint
  <1>1. e \in Endpoints /\ msg \in Messages /\ msg.body.type # "KeepAlive"
    BY DEF Good, Nameable
  <1>2. msg.seq \in 0 .. SeqMod - 1
    BY <1>1 DEF Messages
  <1>3. Keeps(e, f) /\ Quiet(e, f) /\ f \in Endpoints
    BY <1>1, <1>2 DEF Keeps, Quiet, Retries, Silence, Untold,
        Endpoints
  <1>4. OnMsg(e, msg, random) \in
            {e} \cup (IF underflow THEN {failed} ELSE {})
            \cup {IF got.handled THEN NoteHeard(t) ELSE t}
    BY DEF OnMsg
  <1> HIDE DEF f
  <1>5. Good(f, nf)
    BY <1>3, KeepsGood
  <1>6. Answers(f, got, nf)
    BY <1>1, <1>5, DispatchAnswers
  <1>7. ASSUME underflow PROVE Good(failed, nf) /\ Tells(e, failed)
    <2>1. "receive sequence underflow" \in Allowed \cap Panics
          /\ "receive sequence underflow" # NoPanic
      BY <1>7 DEF Allowed, Panics, BuildFailures, NoPanic
    <2> QED BY <1>1, <2>1, FailKeeps, KeepsGood, QuietTells
  <1> HIDE DEF got
  <1>8. Good(NoteHeard(t), nf) /\ NoteHeard(t).silent = 0
        /\ (t.state = "Disconnected" =>
                NoteHeard(t).event_queue = t.event_queue)
    <2> DEFINE h == [t EXCEPT !.silent = 0]
               r == [t EXCEPT !.silent = 0, !.disconnect_notify_sent = FALSE]
    <2>1. t \in Endpoints /\ "Resumed" \in Events
      BY <1>6 DEF Answers, Good, Events
    <2>2. /\ ~(t.state = "Running" /\ t.disconnect_notify_sent) => Keeps(t, h)
          /\ Keeps(t, r) /\ h.silent = 0 /\ r.silent = 0
          /\ h.event_queue = t.event_queue /\ r \in Endpoints
      <3>1. /\ ~(t.state = "Running" /\ t.disconnect_notify_sent) =>
                    Keeps(t, h)
            /\ Keeps(t, r)
        BY <2>1, UpdatesKeep
      <3> QED BY <2>1, <3>1 DEF Endpoints, Keeps
    <2>3. NoteHeard(t) =
            IF t.state = "Running" /\ t.disconnect_notify_sent
            THEN QueueEvent(r, "Resumed") ELSE h
      BY DEF NoteHeard
    <2> HIDE DEF h, r
    <2>4. Keeps(r, QueueEvent(r, "Resumed"))
          /\ QueueEvent(r, "Resumed").silent = r.silent
      BY <2>1, <2>2, QueueEventKeeps DEF QueueEvent, Endpoints
    <2>5. Keeps(t, QueueEvent(r, "Resumed"))
      BY <2>2, <2>4, KeepsTransitive
    <2> QED BY <1>6, <2>2, <2>3, <2>4, <2>5, KeepsGood DEF Answers
  <1>9. Good(t, nf) /\ (~got.handled => Tells(e, t))
    BY <1>3, <1>6 DEF Answers, Quiet, Tells, Keeps
  <1>10. Tells(e, NoteHeard(t))
    BY <1>3, <1>6, <1>8 DEF Answers, Quiet, Tells, Keeps
  <1>11. Tells(e, e)
    BY DEF Tells
  <1> QED BY <1>4, <1>7, <1>8, <1>9, <1>10, <1>11

\* How recently an endpoint that resent its output sent anything.
SentLately(e) == e.panic = NoPanic => e.idle <= RunningRetryInterval

\* The resending of a running endpoint's output.
LEMMA ResendKeeps ==
    ASSUME NEW e \in Endpoints, FollowsAcked(e), e.state = "Running",
           Retries(e)
    PROVE  Keeps(e, Resend(e)) /\ Quiet(e, Resend(e)) /\ SentLately(Resend(e))
  <1>1. e.idle \in Nat /\ e.unresent \in Nat
    BY DEF Endpoints, IdleAges, UnresentAges
  <1>2. CASE e.unresent > RunningRetryInterval
    <2> DEFINE s == SendPendingOutput(e)
               t == [s EXCEPT !.unresent = 0]
    <2>1. Keeps(e, s) /\ Quiet(e, s) /\ (s.panic = NoPanic => s.idle = 0)
      BY SendPendingOutputKeeps
    <2>2. Resend(e) = t
      BY <1>2 DEF Resend
    <2> HIDE DEF s
    <2>3. s \in Endpoints /\ 0 \in UnresentAges
      BY <2>1 DEF Keeps, UnresentAges
    <2>4. t \in Endpoints /\ t.unresent = 0 /\ t.idle = s.idle
          /\ t.panic = s.panic /\ t.silent = s.silent /\ t.state = s.state
          /\ t.disconnect_notify_sent = s.disconnect_notify_sent
      BY <2>3 DEF Endpoints
    <2>5. Keeps(s, t) /\ Quiet(s, t)
      <3>1. /\ t.pending_output = s.pending_output /\ t.outbox = s.outbox
            /\ t.last_acked_input = s.last_acked_input
            /\ t.roundtrips_remaining = s.roundtrips_remaining
        BY <2>3 DEF Endpoints
      <3>2. Quiet(s, t)
        BY <2>3 DEF Quiet, Endpoints
      <3> HIDE DEF t
      <3>3. Retries(t) /\ (Silence(s) => Silence(t))
        BY <2>1, <2>4 DEF Retries, Silence
      <3>4. Untold(s) => Untold(t)
        BY <3>2 DEF Untold, Quiet
      <3> QED BY <2>4, <3>1, <3>2, <3>3, <3>4 DEF Keeps
    <2> HIDE DEF t
    <2> QED
      BY <2>1, <2>2, <2>4, <2>5, KeepsTransitive, QuietTransitive
      DEF SentLately
  <1>3. CASE ~(e.unresent > RunningRetryInterval)
    <2>1. Resend(e) = e
      BY <1>3 DEF Resend
    <2>2. SentLately(e)
      BY <1>1, <1>3 DEF Retries, SentLately
    <2> QED BY <2>1, <2>2, KeepsSame
  <1> QED BY <1>2, <1>3

\* The poll of a running endpoint: the keep-alive message, which would fail an
\* assertion, never gets its turn.
LEMMA PollRunningGood ==
    ASSUME NEW e, NEW nf, Good(e, nf), e.state = "Running", NEW due
    PROVE  Good(PollRunning(e, due), nf) /\ Tells(e, PollRunning(e, due))
  <1> DEFINE r == Resend(e)
             q == ReportQuality(r, due)
             s == UpdateNetworkStats(q, due)
             k == KeepAlive(s)
             n == Notify(k)
             t == TimeOut(n)
  <1>1. e \in Endpoints
    BY DEF Good
  <1>2. Keeps(e, r) /\ Quiet(e, r) /\ SentLately(r) /\ r \in Endpoints
    BY <1>1, ResendKeeps DEF Good, Output, Keeps
  <1> HIDE DEF r
  <1>3. Keeps(r, q) /\ Quiet(r, q) /\ SentLately(q) /\ q \in Endpoints
    <2> DEFINE report == [type |-> "QualityReport"]
    <2>1. report \in Bodies /\ report.type # "KeepAlive"
      BY DEF Bodies
    <2>2. q \in {r, SendMsg(r, report)}
      BY DEF ReportQuality
    <2> HIDE DEF report, q
    <2>3. /\ Keeps(r, SendMsg(r, report)) /\ Quiet(r, SendMsg(r, report))
          /\ SentLately(SendMsg(r, report))
      BY <1>2, <2>1, SendMsgKeeps DEF SentLately
    <2>4. Keeps(r, q) /\ Quiet(r, q) /\ SentLately(q)
      BY <1>2, <2>2, <2>3, KeepsSame
    <2> QED BY <2>4 DEF Keeps
  <1> HIDE DEF q
  <1>4. Keeps(q, s) /\ Quiet(q, s) /\ SentLately(s) /\ s \in Endpoints
    <2>1. CASE "stats" \in due /\ InfoLogging
      <3> DEFINE f == Fail(q, "statistics over no time")
      <3>1. "statistics over no time" \in Allowed \cap Panics
            /\ "statistics over no time" # NoPanic
        BY <2>1 DEF Allowed, Panics, BuildFailures, NoPanic
      <3>2. Keeps(q, f) /\ Quiet(q, f) /\ f.panic # NoPanic
        BY <1>3, <3>1, FailKeeps
      <3> QED BY <2>1, <3>2 DEF UpdateNetworkStats, SentLately, Keeps
    <2>2. CASE ~("stats" \in due /\ InfoLogging)
      BY <1>3, <2>2, KeepsSame DEF UpdateNetworkStats
    <2> QED BY <2>1, <2>2
  <1> HIDE DEF s
  <1>5. k = s
    <2>1. CASE s.idle > NetworkStatsInterval
      <3>1. s.idle \in Nat
        BY <1>4 DEF Endpoints, IdleAges
      <3>2. s.panic # NoPanic
        BY <2>1, <3>1, <1>4 DEF SentLately
      <3> QED BY <3>2 DEF KeepAlive, SendMsg, Fail
    <2>2. CASE ~(s.idle > NetworkStatsInterval)
      BY <2>2 DEF KeepAlive
    <2> QED BY <2>1, <2>2
  <1>6. Keeps(e, s) /\ Quiet(e, s)
    BY <1>2, <1>3, <1>4, KeepsTransitive, QuietTransitive
  <1> HIDE DEF k
  <1>7. /\ Keeps(s, n) /\ n \in Endpoints
        /\ n.disconnect_event_sent = s.disconnect_event_sent
        /\ n.silent > DisconnectTimeout => n.disconnect_notify_sent
    <2> DEFINE d == [s EXCEPT !.disconnect_notify_sent = TRUE]
               told == QueueEvent(d, "Interrupted")
    <2>1. s.state = "Running"
      BY <1>6 DEF Keeps
    <2>2. ASSUME s.silent > DisconnectNotifyStart PROVE Keeps(s, told)
      <3>1. Keeps(s, d) /\ d \in Endpoints /\ "Interrupted" \in Events
        BY <1>4, <2>1, <2>2, UpdatesKeep DEF Keeps, Events
      <3> QED BY <3>1, QueueEventKeeps, KeepsTransitive
    <2>3. told.disconnect_notify_sent
          /\ told.disconnect_event_sent = s.disconnect_event_sent
      BY <1>4 DEF QueueEvent, Endpoints
    <2>4. CASE s.silent > DisconnectNotifyStart /\ ~s.disconnect_notify_sent
      <3>1. n = told
        BY <1>5, <2>4 DEF Notify
      <3> QED BY <2>2, <2>3, <2>4, <3>1 DEF Keeps
    <2>5. CASE ~(s.silent > DisconnectNotifyStart /\ ~s.disconnect_notify_sent)
      <3>1. n = s /\ s.silent \in Nat
        BY <1>4, <1>5, <2>5 DEF Notify, Endpoints, SilentAges
      <3>2. s.silent > DisconnectTimeout => s.silent > DisconnectNotifyStart
        BY <3>1
      <3> QED BY <1>4, <2>5, <3>1, <3>2, KeepsSame
    <2> QED BY <2>4, <2>5
  <1> HIDE DEF n
  <1>8. Keeps(n, t) /\ (t.disconnect_event_sent # n.disconnect_event_sent =>
                            t.disconnect_notify_sent)
    <2> DEFINE d == [n EXCEPT !.disconnect_event_sent = TRUE]
               told == QueueEvent(d, "Disconnected")
    <2>1. Keeps(n, d) /\ d \in Endpoints /\ "Disconnected" \in Events
      BY <1>7, UpdatesKeep DEF Keeps, Events
    <2>2. Keeps(n, told)
      BY <2>1, QueueEventKeeps, KeepsTransitive
    <2>3. told.disconnect_notify_sent = n.disconnect_notify_sent
      BY <1>7 DEF QueueEvent, Endpoints
    <2>4. t = IF n.silent > DisconnectTimeout /\ ~n.disconnect_event_sent
              THEN told ELSE n
      BY DEF TimeOut
    <2> HIDE DEF told, t
    <2> QED BY <1>7, <2>2, <2>3, <2>4, KeepsSame
  <1>9. PollRunning(e, due) = t
    BY DEF PollRunning, t, n, k, s, q, r
  <1> HIDE DEF t
  <1>10. Keeps(e, t)
    BY <1>6, <1>7, <1>8, KeepsTransitive
  <1>11. Good(t, nf)
    BY <1>10, KeepsGood
  <1> QED BY <1>6, <1>7, <1>8, <1>9, <1>11 DEF Tells, Quiet

\* The poll, in every state.
LEMMA OnLoopPollGood ==
    ASSUME NEW e, NEW nf, Good(e, nf), NEW due, NEW random \in Randoms
    PROVE  Good(OnLoopPoll(e, due, random), nf)
           /\ Tells(e, OnLoopPoll(e, due, random))
  <1>1. e \in Endpoints
    BY DEF Good
  <1>2. e.state \in States
    BY <1>1 DEF Endpoints
  <1>3. Good(e, nf) /\ Tells(e, e)
    BY DEF Tells
  <1>4. CASE e.state = "Running"
    BY <1>4, PollRunningGood DEF OnLoopPoll
  <1>5. CASE e.state = "Syncing"
    <2>1. OnLoopPoll(e, due, random) \in {e, SendSyncRequest(e, random)}
      BY <1>5 DEF OnLoopPoll, PollSyncing
    <2> QED BY <1>1, <1>3, <2>1, SendSyncRequestKeeps, KeepsGood, QuietTells
  <1>6. CASE e.state = "Disconnected"
    <2>1. OnLoopPoll(e, due, random) \in {e, [e EXCEPT !.udp = FALSE]}
      BY <1>6 DEF OnLoopPoll
    <2> DEFINE t == [e EXCEPT !.udp = FALSE]
    <2>2. Keeps(e, t) /\ Quiet(e, t)
      BY <1>1 DEF Keeps, Quiet, Retries, Silence, Untold,
        Endpoints
    <2> HIDE DEF t
    <2>3. Good(t, nf) /\ Tells(e, t)
      BY <2>2, KeepsGood, QuietTells
    <2> QED BY <1>3, <2>1, <2>3 DEF t
  <1>7. CASE e.state \in {"Starting", "Synchronized"}
    BY <1>3, <1>7 DEF OnLoopPoll
  <1> QED BY <1>2, <1>4, <1>5, <1>6, <1>7 DEF States

\* disconnect.
LEMMA DisconnectGood ==
    ASSUME NEW e, NEW nf, Good(e, nf)
    PROVE  Good(Disconnect(e), nf) /\ Quiet(e, Disconnect(e))
  <1> DEFINE t == [e EXCEPT !.state = "Disconnected"]
  <1>1. e \in Endpoints
    BY DEF Good
  <1>2. /\ t \in Endpoints /\ t.state = "Disconnected"
        /\ t.pending_output = e.pending_output
        /\ t.last_acked_input = e.last_acked_input
        /\ t.panic = e.panic /\ t.outbox = e.outbox /\ Quiet(e, t)
    BY <1>1 DEF Endpoints, States, Quiet
  <1> HIDE DEF t
  <1>3. /\ Output(t, nf) /\ Retries(t) /\ Handshake(t) /\ Fits(t)
        /\ Silence(t) /\ Untold(t)
    BY <1>2 DEF Good, Output, Retries, FollowsAcked, Handshake, Fits, Silence,
                Untold, Quiet
  <1>4. Disconnect(e) = t
    BY DEF Disconnect, t
  <1> QED BY <1>2, <1>3, <1>4 DEF Good

\* synchronize, of an endpoint that init prepared.
LEMMA SynchronizeGood ==
    ASSUME NEW e, NEW nf, Good(e, nf), e.state = "Starting",
           NEW random \in Randoms
    PROVE  LET t == Synchronize([e EXCEPT !.udp = TRUE], random) IN
           Good(t, nf) /\ Quiet(e, t)
  <1> DEFINE u == [e EXCEPT !.udp = TRUE]
             s == [u EXCEPT !.state = "Syncing",
                            !.roundtrips_remaining = NumSyncPackets]
  <1>1. e \in Endpoints
    BY DEF Good
  <1>2. u \in Endpoints /\ Keeps(e, u) /\ Quiet(e, u)
    BY <1>1, UpdatesKeep DEF Keeps
  <1>3. NumSyncPackets \in 0 .. NumSyncPackets
    OBVIOUS
  <1>4. /\ s \in Endpoints /\ s.state = "Syncing"
        /\ s.roundtrips_remaining = NumSyncPackets
        /\ s.pending_output = e.pending_output
        /\ s.last_acked_input = e.last_acked_input
        /\ s.panic = e.panic /\ s.outbox = e.outbox /\ Quiet(e, s)
    <2>1. s \in Endpoints
      BY <1>2, <1>3 DEF Endpoints, States
    <2>2. /\ s.state = "Syncing"
          /\ s.roundtrips_remaining = NumSyncPackets
          /\ s.pending_output = u.pending_output
          /\ s.last_acked_input = u.last_acked_input
          /\ s.panic = u.panic /\ s.outbox = u.outbox
      BY <1>2 DEF Endpoints
    <2>3. Quiet(u, s)
      BY <1>2 DEF Endpoints, Quiet
    <2>4. u.panic = e.panic /\ u.outbox = e.outbox
      BY <1>1 DEF Endpoints
    <2> HIDE DEF u, s
    <2> QED BY <1>2, <2>1, <2>2, <2>3, <2>4, QuietTransitive DEF Keeps
  <1>5. Synchronize(u, random) = SendSyncRequest(s, random)
    BY DEF Synchronize
  <1> HIDE DEF s
  <1>6. /\ Output(s, nf) /\ Retries(s) /\ Handshake(s) /\ Fits(s)
        /\ Silence(s) /\ Untold(s)
    BY <1>4 DEF Good, Output, Retries, FollowsAcked, Handshake, Fits, Silence,
                Untold, Quiet
  <1>7. Good(s, nf)
    BY <1>4, <1>6 DEF Good
  <1>8. Keeps(s, SendSyncRequest(s, random))
        /\ Quiet(s, SendSyncRequest(s, random))
    BY <1>4, SendSyncRequestKeeps
  <1> QED BY <1>4, <1>5, <1>7, <1>8, KeepsGood, QuietTransitive

\* The clock moves on.
LEMMA AgeGood ==
    ASSUME NEW e, NEW nf, Good(e, nf)
    PROVE  /\ Good(Age(e), nf)
           /\ Age(e).event_queue = e.event_queue
           /\ Age(e).outbox = e.outbox
           /\ Age(e).disconnect_event_sent = e.disconnect_event_sent
  <1> DEFINE silent == Older(e.silent, SilentAges)
             idle == Older(e.idle, IdleAges)
             unresent == Older(e.unresent, UnresentAges)
             t == [e EXCEPT !.silent = silent, !.idle = idle,
                            !.unresent = unresent]
  <1>1. e \in Endpoints
    BY DEF Good
  <1>2. e.silent \in SilentAges /\ e.idle \in IdleAges
        /\ e.unresent \in UnresentAges
    BY <1>1 DEF Endpoints
  <1>3. silent \in SilentAges /\ idle \in IdleAges /\ unresent \in UnresentAges
    BY <1>2 DEF Older
  <1>4. /\ e.idle \in Nat /\ idle \in Nat /\ idle <= e.idle + 1
    BY <1>2, <1>3 DEF Older, IdleAges
  <1>5. /\ e.unresent \in Nat /\ unresent \in Nat /\ unresent >= e.unresent
        /\ e.unresent <= RunningRetryInterval => unresent = e.unresent + 1
    BY <1>2, <1>3 DEF Older, UnresentAges
  <1> HIDE DEF silent, idle, unresent
  <1>6. e.idle <= e.unresent \/ e.unresent > RunningRetryInterval =>
            idle <= unresent \/ unresent > RunningRetryInterval
    BY <1>4, <1>5
  <1>7. /\ t \in Endpoints
        /\ t.idle = idle /\ t.unresent = unresent /\ t.silent = silent
        /\ t.disconnect_notify_sent = e.disconnect_notify_sent
        /\ t.pending_output = e.pending_output
        /\ t.last_acked_input = e.last_acked_input
        /\ t.state = e.state /\ t.roundtrips_remaining = e.roundtrips_remaining
        /\ t.panic = e.panic /\ t.outbox = e.outbox
        /\ t.event_queue = e.event_queue
        /\ t.disconnect_event_sent = e.disconnect_event_sent
    BY <1>1, <1>3 DEF Endpoints
  <1>8. Age(e) = t
    BY DEF Age, silent, idle, unresent
  <1> HIDE DEF t
  <1>9. Silence(e) => Silence(t)
    <2>1. silent \in Nat /\ e.silent \in Nat /\ silent >= e.silent
      BY <1>2, <1>3 DEF Older, SilentAges, silent
    <2> QED BY <1>7, <2>1 DEF Silence
  <1>10. Keeps(e, t)
    BY <1>6, <1>7, <1>9 DEF Keeps, Retries, Untold
  <1> QED BY <1>7, <1>8, <1>10, KeepsGood

\* The messages an endpoint sent are taken from it.
LEMMA OutboxTaken ==
    ASSUME NEW e \in Endpoints
    PROVE  LET t == [e EXCEPT !.outbox = <<>>] IN
           /\ Keeps(e, t) /\ Quiet(e, t) /\ t.outbox = <<>>
  <1> DEFINE none == <<>>
             t == [e EXCEPT !.outbox = none]
  <1>1. none \in Seq(Messages) /\ none \in Seq(Nameable)
    OBVIOUS
  <1> HIDE DEF none
  <1>2. t \in Endpoints /\ t.outbox = none
    BY <1>1 DEF Endpoints
  <1>3. Keeps(e, t)
    BY <1>1, <1>2 DEF Keeps, Retries, Silence, Untold, Endpoints
  <1>4. Quiet(e, t)
    BY DEF Quiet, Endpoints
  <1> QED BY <1>2, <1>3, <1>4 DEF none

\* An event is taken from an endpoint.
LEMMA EventTaken ==
    ASSUME NEW e \in Endpoints, e.event_queue # <<>>
    PROVE  LET t == [e EXCEPT !.event_queue = Tail(@)] IN
           /\ Keeps(e, t) /\ t.outbox = e.outbox
           /\ Len(t.event_queue) <= Len(e.event_queue)
           /\ t.disconnect_event_sent = e.disconnect_event_sent
  <1> DEFINE rest == Tail(e.event_queue)
             t == [e EXCEPT !.event_queue = rest]
  <1>1. e.event_queue \in Seq(Events)
    BY DEF Endpoints
  <1>2. rest \in Seq(Events) /\ Len(rest) <= Len(e.event_queue)
    BY <1>1
  <1> HIDE DEF rest
  <1>3. t \in Endpoints /\ t.event_queue = rest
    BY <1>2 DEF Endpoints
  <1>4. Keeps(e, t) /\ t.outbox = e.outbox
        /\ t.disconnect_event_sent = e.disconnect_event_sent
    <2>1. Untold(e) => Untold(t)
      <3>1. /\ Len(e.event_queue) \in Nat \ {0}
            /\ Len(rest) = Len(e.event_queue) - 1
            /\ \A i \in 1 .. Len(rest) : rest[i] = e.event_queue[i + 1]
        BY <1>1 DEF rest
      <3>2. ASSUME Untold(e), NumSyncPackets > 1, NEW i \in 1 .. Len(rest)
            PROVE  rest[i] # "Synchronized"
        <4>1. i + 1 \in 1 .. Len(e.event_queue)
          BY <3>1
        <4> QED BY <3>1, <3>2, <4>1 DEF Untold
      <3> QED BY <1>3, <3>2 DEF Untold
    <2> QED BY <1>3, <2>1 DEF Keeps, Retries, Silence, Endpoints
  <1> QED BY <1>2, <1>3, <1>4 DEF rest

-----------------------------------------------------------------------------
(* The session: the invariant holds at first and every step keeps it.      *)

\* Every peer has one other.
LEMMA OtherPeer ==
    ASSUME NEW p \in Peers
    PROVE  Other(p) \in Peers
  <1>1. Peers # {p}
    <2>1. Cardinality({p}) = 1
      BY FS_Singleton
    <2> SUFFICES ASSUME Peers = {p} PROVE FALSE
      OBVIOUS
    <2>2. Cardinality({p}) = 2
      BY PeersAssumption
    <2>3. 1 # 2
      OBVIOUS
    <2> QED BY <2>1, <2>2, <2>3
  <1>2. \E q \in Peers : q # p
    BY <1>1
  <1> QED BY <1>2 DEF Other

\* The two endpoints at first.
LEMMA InitEstablishes == Init => IInv
  <1>1. SUFFICES ASSUME Init PROVE IInv
    OBVIOUS
  <1>2. AnyRandom \in Randoms
    BY DEF AnyRandom
  <1>3. ASSUME NEW p \in Peers
        PROVE  Good(NewEndpoint(Magic[p], AnyRandom), 0)
               /\ NewEndpoint(Magic[p], AnyRandom).outbox = <<>>
    <2> DEFINE e == NewEndpoint(Magic[p], AnyRandom)
    <2>1. Magic[p] \in Nat
      OBVIOUS
    <2>2. /\ 0 \in SilentAges /\ 0 \in IdleAges /\ LongAgo \in UnresentAges
          /\ 0 \in 0 .. SeqMod - 1 /\ 0 \in 0 .. NumSyncPackets
      BY DEF SilentAges, IdleAges, UnresentAges, LongAgo
    <2>3. /\ <<>> \in Seq(PendingInputs) /\ <<>> \in Seq(Events)
          /\ <<>> \in Seq(Messages) /\ <<>> \in Seq(Nameable)
      OBVIOUS
    <2>4. [frame |-> NoFrame, bits |-> Zero] \in AckedInputs
      BY DEF AckedInputs
    <2>5. "Starting" \in States /\ NoPanic \in Panics /\ NoPanic \in Allowed
      BY DEF States, Panics, Allowed
    <2>6. e \in Endpoints
      BY <1>2, <2>1, <2>2, <2>3, <2>4, <2>5 DEF NewEndpoint, Endpoints
    <2>7. /\ e.state = "Starting" /\ e.pending_output = <<>>
          /\ e.last_acked_input.frame = NoFrame
          /\ e.panic = NoPanic /\ e.outbox = <<>>
          /\ ~e.disconnect_notify_sent /\ e.event_queue = <<>>
      BY DEF NewEndpoint
    <2> HIDE DEF e
    <2>8. Output(e, 0)
      <3>1. Len(e.pending_output) = 0
        BY <2>7
      <3> QED BY <2>7, <3>1 DEF Output, FollowsAcked
    <2>9. Retries(e) /\ Handshake(e) /\ Fits(e) /\ Silence(e) /\ Untold(e)
      <3>1. /\ Len(e.pending_output) = 0 /\ NoFrame < DefaultAckFrame
            /\ Len(e.event_queue) = 0
        BY <2>7 DEF NoFrame
      <3> QED BY <2>7, <3>1 DEF Retries, Handshake, Fits, Silence, Untold
    <2>10. Good(e, 0)
      BY <2>3, <2>5, <2>6, <2>7, <2>8, <2>9 DEF Good
    <2> QED BY <2>7, <2>10 DEF e
  <1>4. \A p \in Peers : /\ endpoint[p] = NewEndpoint(Magic[p], AnyRandom)
                         /\ next_frame[p] = 0
    BY <1>1 DEF Init
  <1>5. \A p \in Peers : endpoint[p].outbox = <<>>
                         /\ Good(endpoint[p], next_frame[p])
    BY <1>3, <1>4
  <1>6. endpoint \in [Peers -> Endpoints]
    <2>1. DOMAIN endpoint = Peers
          /\ endpoint = [p \in Peers |-> endpoint[p]]
      BY <1>1 DEF Init
    <2>2. \A p \in Peers : endpoint[p] \in Endpoints
      BY <1>5 DEF Good
    <2> QED BY <2>1, <2>2
  <1>7. next_frame \in [Peers -> Nat] /\ network = {}
    BY <1>1 DEF Init
  <1> QED BY <1>5, <1>6, <1>7 DEF IInv

\* What every step tells the backends, of which UdpProtoSpec's action
\* properties speak.
Reports ==
    \A p \in Peers :
        /\ endpoint'[p].disconnect_event_sent
                # endpoint[p].disconnect_event_sent =>
            endpoint'[p].silent = 0 \/ endpoint'[p].disconnect_notify_sent
        /\ endpoint[p].state = "Disconnected" =>
            Len(endpoint'[p].event_queue) <= Len(endpoint[p].event_queue)

\* A step of one endpoint that leaves it good keeps the invariant.
LEMMA BecomesPreserves ==
    ASSUME IInv, NEW p \in Peers, NEW e, NEW rest \in SUBSET network,
           Becomes(p, e, rest), NEW nf \in Nat,
           next_frame' = [next_frame EXCEPT ![p] = nf],
           Good(e, nf), Tells(endpoint[p], e)
    PROVE  IInv' /\ Reports
  <1> DEFINE t == [e EXCEPT !.outbox = <<>>]
  <1>1. e \in Endpoints /\ e.outbox \in Seq(Nameable)
    BY DEF Good
  <1>2. Keeps(e, t) /\ Quiet(e, t) /\ t.outbox = <<>>
    BY <1>1, OutboxTaken
  <1>3. Good(t, nf) /\ t \in Endpoints
    BY <1>2, KeepsGood DEF Good
  <1>4. /\ endpoint' = [endpoint EXCEPT ![p] = t]
        /\ network' = rest \cup Mail(p, e)
    BY DEF Becomes
  <1> HIDE DEF t
  <1>5. endpoint \in [Peers -> Endpoints] /\ next_frame \in [Peers -> Nat]
    BY DEF IInv
  <1>6. /\ endpoint' \in [Peers -> Endpoints] /\ next_frame' \in [Peers -> Nat]
        /\ endpoint'[p] = t /\ next_frame'[p] = nf
        /\ \A q \in Peers : q # p =>
                endpoint'[q] = endpoint[q] /\ next_frame'[q] = next_frame[q]
    BY <1>3, <1>4, <1>5
  <1>7. ASSUME NEW mail \in network'
        PROVE  mail.to \in Peers /\ mail.msg \in Nameable
    <2>1. CASE mail \in rest
      BY <2>1 DEF IInv
    <2>2. CASE mail \in Mail(p, e)
      <3>1. PICK i \in 1 .. Len(e.outbox) :
                mail = [to |-> Other(p), msg |-> e.outbox[i]]
        BY <2>2 DEF Mail
      <3>2. e.outbox[i] \in Nameable
        BY <1>1
      <3> QED BY <3>1, <3>2, OtherPeer
    <2> QED BY <1>4, <2>1, <2>2
  <1>8. \A q \in Peers : endpoint'[q].outbox = <<>>
                         /\ Good(endpoint'[q], next_frame'[q])
    BY <1>2, <1>3, <1>6 DEF IInv
  <1>9. IInv'
    BY <1>6, <1>7, <1>8 DEF IInv
  <1>10. \A q \in Peers : Len(endpoint[q].event_queue) \in Nat
    <2>1. ASSUME NEW q \in Peers PROVE endpoint[q].event_queue \in Seq(Events)
      <3>1. endpoint[q] \in Endpoints
        BY <1>5
      <3> QED BY <3>1 DEF Endpoints
    <2> QED BY <2>1
  <1>11. Reports
    <2>1. ASSUME NEW q \in Peers
          PROVE  /\ endpoint'[q].disconnect_event_sent
                        # endpoint[q].disconnect_event_sent =>
                    \/ endpoint'[q].silent = 0
                    \/ endpoint'[q].disconnect_notify_sent
                 /\ endpoint[q].state = "Disconnected" =>
                    endpoint'[q].event_queue = endpoint[q].event_queue
      BY <1>2, <1>6 DEF Tells, Quiet
    <2> QED BY <1>10, <2>1 DEF Reports
  <1> QED BY <1>9, <1>11

\* The actions in which one endpoint calls a method that may send.
LEMMA CallsPreserve ==
    ASSUME IInv, NEW p \in Peers,
           \/ AddRemotePlayer(p)
           \/ \E mail \in network : Receive(p, mail)
           \/ Poll(p) \/ AddLocalInput(p) \/ DisconnectPlayer(p)
    PROVE  IInv' /\ Reports
  <1> DEFINE e == endpoint[p]
             nf == next_frame[p]
  <1>1. Good(e, nf) /\ nf \in Nat /\ next_frame \in [Peers -> Nat]
    BY DEF IInv
  <1>2. next_frame = [next_frame EXCEPT ![p] = nf]
    BY <1>1
  <1>3. network \in SUBSET network
    OBVIOUS
  <1> HIDE DEF e, nf
  <1>4. CASE AddRemotePlayer(p)
    <2>1. PICK random \in Randoms :
            Becomes(p, Synchronize([e EXCEPT !.udp = TRUE], random), network)
      BY <1>4 DEF AddRemotePlayer, e
    <2>2. e.state = "Starting" /\ next_frame' = next_frame
      BY <1>4 DEF AddRemotePlayer, e
    <2> DEFINE t == Synchronize([e EXCEPT !.udp = TRUE], random)
    <2>3. Good(t, nf) /\ Tells(e, t)
      BY <1>1, <2>2, SynchronizeGood, QuietTells
    <2> HIDE DEF t
    <2>4. Becomes(p, t, network)
      BY <2>1 DEF t
    <2> QED BY <1>1, <1>2, <1>3, <2>2, <2>3, <2>4, BecomesPreserves DEF e
  <1>5. CASE \E mail \in network : Receive(p, mail)
    <2>1. PICK mail \in network : Receive(p, mail)
      BY <1>5
    <2>2. PICK random \in Randoms, rest \in {network, network \ {mail}} :
            Becomes(p, OnMsg(e, mail.msg, random), rest)
      BY <2>1 DEF Receive, e
    <2>3. next_frame' = next_frame /\ mail.msg \in Nameable
          /\ rest \in SUBSET network
      BY <2>1 DEF Receive, IInv
    <2> DEFINE t == OnMsg(e, mail.msg, random)
    <2>4. Good(t, nf) /\ Tells(e, t)
      BY <1>1, <2>3, OnMsgGood
    <2> HIDE DEF t
    <2>5. Becomes(p, t, rest)
      BY <2>2 DEF t
    <2> QED BY <1>1, <1>2, <2>3, <2>4, <2>5, BecomesPreserves DEF e
  <1>6. CASE Poll(p)
    <2>1. PICK due \in SUBSET Due, random \in Randoms :
            Becomes(p, OnLoopPoll(e, due, random), network)
      BY <1>6 DEF Poll, e
    <2>2. next_frame' = next_frame
      BY <1>6 DEF Poll
    <2> DEFINE t == OnLoopPoll(e, due, random)
    <2>3. Good(t, nf) /\ Tells(e, t)
      BY <1>1, OnLoopPollGood
    <2> HIDE DEF t
    <2>4. Becomes(p, t, network)
      BY <2>1 DEF t
    <2> QED BY <1>1, <1>2, <1>3, <2>2, <2>3, <2>4, BecomesPreserves DEF e
  <1>7. CASE AddLocalInput(p)
    <2>1. PICK bits \in Bits :
            Becomes(p, SendInput(e, [frame |-> nf, bits |-> bits]), network)
      BY <1>7 DEF AddLocalInput, e, nf
    <2>2. next_frame' = [next_frame EXCEPT ![p] = nf + 1]
      BY <1>7 DEF AddLocalInput, nf
    <2> DEFINE t == SendInput(e, [frame |-> nf, bits |-> bits])
    <2>3. Good(t, nf + 1) /\ Tells(e, t)
      BY <1>1, SendInputGood, QuietTells
    <2> HIDE DEF t
    <2>4. Becomes(p, t, network) /\ nf + 1 \in Nat
      BY <1>1, <2>1 DEF t
    <2> QED BY <1>3, <2>2, <2>3, <2>4, BecomesPreserves DEF e
  <1>8. CASE DisconnectPlayer(p)
    <2> DEFINE t == Disconnect(e)
    <2>1. Becomes(p, t, network) /\ next_frame' = next_frame
      BY <1>8 DEF DisconnectPlayer, e
    <2>2. Good(t, nf) /\ Tells(e, t)
      BY <1>1, DisconnectGood, QuietTells
    <2> HIDE DEF t
    <2> QED BY <1>1, <1>2, <1>3, <2>1, <2>2, BecomesPreserves DEF e
  <1> QED BY <1>4, <1>5, <1>6, <1>7, <1>8

\* The backend takes an event.
LEMMA GetEventPreserves ==
    ASSUME IInv, NEW p \in Peers, GetEvent(p)
    PROVE  IInv' /\ Reports
  <1> DEFINE e == endpoint[p]
             t == [e EXCEPT !.event_queue = Tail(@)]
  <1>1. e \in Endpoints /\ Good(e, next_frame[p]) /\ e.outbox = <<>>
        /\ endpoint \in [Peers -> Endpoints]
    BY DEF IInv
  <1>2. /\ Keeps(e, t) /\ t.outbox = e.outbox
        /\ Len(t.event_queue) <= Len(e.event_queue)
        /\ t.disconnect_event_sent = e.disconnect_event_sent
    BY <1>1, EventTaken DEF GetEvent
  <1>3. endpoint' = [endpoint EXCEPT ![p] = t]
        /\ network' = network /\ next_frame' = next_frame
    BY DEF GetEvent
  <1>4. t \in Endpoints /\ Good(t, next_frame[p])
    BY <1>1, <1>2, KeepsGood DEF Keeps
  <1> HIDE DEF t
  <1>5. /\ endpoint' \in [Peers -> Endpoints] /\ endpoint'[p] = t
        /\ \A q \in Peers : q # p => endpoint'[q] = endpoint[q]
    BY <1>1, <1>3, <1>4
  <1>6. IInv'
    BY <1>1, <1>2, <1>3, <1>4, <1>5 DEF IInv
  <1>7. \A q \in Peers : Len(endpoint[q].event_queue) \in Nat
    <2>1. ASSUME NEW q \in Peers PROVE endpoint[q].event_queue \in Seq(Events)
      <3>1. endpoint[q] \in Endpoints
        BY <1>1
      <3> QED BY <3>1 DEF Endpoints
    <2> QED BY <2>1
  <1>8. Reports
    BY <1>2, <1>5, <1>7 DEF Reports
  <1> QED BY <1>6, <1>8

\* Time passes.
LEMMA TickPreserves ==
    ASSUME IInv, Tick
    PROVE  IInv' /\ Reports
  <1>1. /\ endpoint \in [Peers -> Endpoints]
        /\ network' = network /\ next_frame' = next_frame
        /\ DOMAIN endpoint' = Peers
        /\ endpoint' = [p \in Peers |-> endpoint'[p]]
    BY DEF IInv, Tick
  <1>2. ASSUME NEW p \in Peers
        PROVE  /\ Good(endpoint'[p], next_frame[p])
               /\ endpoint'[p].outbox = <<>>
               /\ endpoint'[p].event_queue = endpoint[p].event_queue
               /\ endpoint'[p].disconnect_event_sent
                    = endpoint[p].disconnect_event_sent
    <2>1. endpoint'[p] \in {endpoint[p], Age(endpoint[p])}
      BY DEF Tick
    <2>2. Good(endpoint[p], next_frame[p]) /\ endpoint[p].outbox = <<>>
      BY DEF IInv
    <2> QED BY <2>1, <2>2, AgeGood
  <1>3. \A p \in Peers : endpoint'[p] \in Endpoints
    BY <1>2 DEF Good
  <1>4. endpoint' \in [Peers -> Endpoints]
    BY <1>1, <1>3
  <1>5. IInv'
    BY <1>1, <1>2, <1>4 DEF IInv
  <1>6. \A q \in Peers : Len(endpoint[q].event_queue) \in Nat
    <2>1. ASSUME NEW q \in Peers PROVE endpoint[q].event_queue \in Seq(Events)
      <3>1. endpoint[q] \in Endpoints
        BY <1>1
      <3> QED BY <3>1 DEF Endpoints
    <2> QED BY <2>1
  <1>7. Reports
    BY <1>2, <1>6 DEF Reports
  <1> QED BY <1>5, <1>7

\* Every step keeps the invariant and reports as it should.
LEMMA NextPreserves ==
    ASSUME IInv, [Next]_vars
    PROVE  IInv' /\ (vars' = vars \/ Reports)
  <1>1. CASE UNCHANGED vars
    BY <1>1 DEF vars, IInv
  <1>2. CASE Deliver
    BY <1>2, CallsPreserve DEF Deliver
  <1>3. CASE \E p \in Peers : \/ AddRemotePlayer(p) \/ Poll(p)
                              \/ AddLocalInput(p) \/ DisconnectPlayer(p)
    BY <1>3, CallsPreserve
  <1>4. CASE \E p \in Peers : GetEvent(p)
    BY <1>4, GetEventPreserves
  <1>5. CASE \E mail \in network : Lose(mail)
    <2>1. endpoint' = endpoint /\ next_frame' = next_frame
          /\ network' \subseteq network
      BY <1>5 DEF Lose
    <2>2. IInv'
      BY <2>1 DEF IInv
    <2>3. \A q \in Peers : Len(endpoint[q].event_queue) \in Nat
      <3>1. ASSUME NEW q \in Peers
            PROVE  endpoint[q].event_queue \in Seq(Events)
        <4>1. endpoint[q] \in Endpoints
          BY DEF IInv
        <4> QED BY <4>1 DEF Endpoints
      <3> QED BY <3>1
    <2>4. Reports
      BY <2>1, <2>3 DEF Reports
    <2> QED BY <2>2, <2>4
  <1>6. CASE Tick
    BY <1>6, TickPreserves
  <1> QED
    BY <1>1, <1>2, <1>3, <1>4, <1>5, <1>6 DEF Next, Otherwise

\* What the invariant says of the state.
LEMMA InvariantImplies ==
    ASSUME IInv
    PROVE  TypeOK /\ PendingOutputIsContiguous /\ OnlyTheseAssertionsFail
  <1>1. TypeOK
    BY DEF IInv, TypeOK, Nameable
  <1>2. ASSUME NEW p \in Peers
        PROVE  LET pending == endpoint[p].pending_output IN
               /\ FollowsAcked(endpoint[p])
               /\ \A i \in 1 .. Len(pending) :
                    pending[i].frame = pending[1].frame + i - 1
               /\ endpoint[p].state = "Running" /\ pending # <<>> =>
                    pending[Len(pending)].frame = next_frame[p] - 1
    <2>1. Output(endpoint[p], next_frame[p])
      BY DEF IInv, Good
    <2> QED BY <2>1 DEF Output
  <1>3. \A p \in Peers : endpoint[p].panic \in Allowed
    BY DEF IInv, Good
  <1> QED
    BY <1>1, <1>2, <1>3
    DEF PendingOutputIsContiguous, OnlyTheseAssertionsFail, Allowed

\* What the invariant says of the length of a game.  The pending inputs are
\* those of the frames up to the last, at most one for each bit of a message,
\* and the first follows the last acknowledged one, before DefaultAckFrame.
LEMMA InvariantBoundsGames ==
    ASSUME IInv
    PROVE  GamesAreShort
  <1>1. SUFFICES ASSUME NEW p \in Peers, Alive(p),
                        endpoint[p].state = "Running"
                 PROVE  LET pending == endpoint[p].pending_output IN
                        /\ endpoint[p].last_acked_input.frame # NoFrame =>
                            next_frame[p] < DefaultAckFrame + MaxCompressedBits
                        /\ pending # <<>> =>
                            next_frame[p] < pending[1].frame + MaxCompressedBits
    BY DEF GamesAreShort
  <1> DEFINE e == endpoint[p]
             pending == e.pending_output
             acked == e.last_acked_input.frame
             nf == next_frame[p]
             n == Len(pending)
  <1>2. e \in Endpoints /\ Output(e, nf) /\ Fits(e) /\ nf \in Nat
    BY DEF IInv, Good
  <1>3. /\ pending \in Seq(PendingInputs) /\ n \in Nat
        /\ acked \in Nat \cup {NoFrame}
    <2>1. pending \in Seq(PendingInputs) /\ e.last_acked_input \in AckedInputs
      BY <1>2 DEF Endpoints
    <2> HIDE DEF e
    <2> QED BY <2>1 DEF AckedInputs
  <1>4. n < MaxCompressedBits /\ acked < DefaultAckFrame
    BY <1>1, <1>2 DEF Alive, Fits
  <1>5. CASE pending = <<>>
    <2>1. acked \in {NoFrame, nf - 1}
      BY <1>1, <1>2, <1>5 DEF Output
    <2> HIDE DEF acked, nf, n
    <2>2. acked # NoFrame => nf < DefaultAckFrame + MaxCompressedBits
      BY <1>2, <1>3, <1>4, <2>1
    <2> QED BY <1>5, <2>2 DEF acked, nf
  <1>6. CASE pending # <<>>
    <2> DEFINE h == pending[1].frame
    <2>1. n \in Nat \ {0} /\ pending[1] \in PendingInputs
      BY <1>3, <1>6
    <2>2. h \in Nat
      BY <2>1 DEF PendingInputs
    <2>3. /\ pending[n].frame = h + n - 1 /\ pending[n].frame = nf - 1
          /\ acked = NoFrame \/ h = acked + 1
      <3>1. n \in 1 .. n
        BY <2>1
      <3> HIDE DEF e, nf
      <3>2. e.state = "Running"
        BY <1>1 DEF e
      <3> QED BY <1>2, <1>6, <3>1, <3>2 DEF Output, FollowsAcked
    <2>4. nf - 1 = h + n - 1
      BY <2>3
    <2> HIDE DEF acked, nf, n, h
    <2>5. nf < h + MaxCompressedBits
      BY <1>2, <1>3, <1>4, <2>2, <2>4
    <2>6. ASSUME acked # NoFrame PROVE h <= DefaultAckFrame
      <3>1. acked \in Nat /\ h = acked + 1
        BY <1>3, <2>3, <2>6
      <3> QED BY <1>4, <3>1
    <2>7. acked # NoFrame => nf < DefaultAckFrame + MaxCompressedBits
      BY <1>2, <2>2, <2>5, <2>6
    <2> QED BY <2>5, <2>7 DEF acked, nf, h
  <1> QED BY <1>5, <1>6

\* What the invariant says of interruptions.
LEMMA InvariantExplainsInterruptions ==
    ASSUME IInv
    PROVE  InterruptionsAreSilences
  BY DEF IInv, Good, Silence, InterruptionsAreSilences

\* IInv is an inductive invariant.
THEOREM Invariant == Spec => []IInv
  <1>1. IInv /\ [Next]_vars => IInv'
    BY NextPreserves
  <1> QED BY <1>1, InitEstablishes, PTL DEF Spec

\* Every endpoint, message and frame is of its type (UdpProtoSpec!TypeOK).
THEOREM TypeCorrect == Spec => []TypeOK
  BY Invariant, InvariantImplies, PTL

\* The inputs that wait for an acknowledgement are contiguous with those
\* acknowledged and with the frames the game sends, whatever is lost,
\* duplicated or late (UdpProtoSpec!PendingOutputIsContiguous).
THEOREM PendingOutput == Spec => []PendingOutputIsContiguous
  BY Invariant, InvariantImplies, PTL

\* An endpoint fails no assertion but the one on the encoded size and those of
\* its build (UdpProtoSpec!OnlyTheseAssertionsFail).
THEOREM AssertionsHold == Spec => []OnlyTheseAssertionsFail
  BY Invariant, InvariantImplies, PTL

\* No endpoint runs on when its game is long: it fails the assertion on the
\* encoded size before the game is MaxCompressedBits frames past
\* DefaultAckFrame, however often its inputs repeat
\* (UdpProtoSpec!GamesAreShort).
THEOREM GamesEnd == Spec => []GamesAreShort
  BY Invariant, InvariantBoundsGames, PTL

\* A running endpoint counts as interrupted only while it hears nothing
\* (UdpProtoSpec!InterruptionsAreSilences).
THEOREM Interruptions == Spec => []InterruptionsAreSilences
  BY Invariant, InvariantExplainsInterruptions, PTL

\* After disconnect the backend is queued no event
\* (UdpProtoSpec!NoEventAfterDisconnect).
THEOREM DisconnectIsFinal == Spec => NoEventAfterDisconnect
  <1>1. IInv /\ [Next]_vars =>
            [\A p \in Peers :
                endpoint[p].state = "Disconnected" =>
                    Len(endpoint'[p].event_queue)
                        <= Len(endpoint[p].event_queue)]_vars
    BY NextPreserves DEF Reports
  <1> QED BY <1>1, Invariant, PTL DEF Spec, NoEventAfterDisconnect

\* The end of a connection is told on a message or after the notification
\* (UdpProtoSpec!TimeoutIsAnnounced).
THEOREM TimeoutAnnounced == Spec => TimeoutIsAnnounced
  <1>1. IInv /\ [Next]_vars =>
            [\A p \in Peers :
                endpoint'[p].disconnect_event_sent
                    # endpoint[p].disconnect_event_sent =>
                \/ endpoint'[p].silent = 0
                \/ endpoint'[p].disconnect_notify_sent]_vars
    BY NextPreserves DEF Reports
  <1> QED BY <1>1, Invariant, PTL DEF Spec, TimeoutIsAnnounced
=============================================================================
