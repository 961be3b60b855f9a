-------------------------- MODULE UdpEvents_proofs --------------------------
(***************************************************************************)
(* The proof that the events a backend gets are those of EndpointEvents,   *)
(* whatever the network does, for every choice of the protocol's intervals *)
(* and limits, when no peer draws the magic number 0.                      *)
(*                                                                         *)
(* An endpoint takes 0 for "not known yet": a peer that drew 0 passes the  *)
(* filter of an endpoint that has not heard of it.                         *)
(*                                                                         *)
(* And the proof that no backend is told of the end of a handshake of more *)
(* than one round trip.                                                    *)
(***************************************************************************)
EXTENDS UdpProto_proofs

USE UdpAssumption, PeersAssumption

Stages == {"unknown", "connected", "synchronized"}
Views == [stage : Stages, interrupted : BOOLEAN, disconnected : BOOLEAN]
Seens == [stage : Stages, interrupted : BOOLEAN, disconnected : BOOLEAN,
          parity : {0, 1}]

\* What the events say, without their number.
View(s) == [stage |-> s.stage, interrupted |-> s.interrupted,
            disconnected |-> s.disconnected]

\* When EndpointEvents allows an event.
MayFollow(v, event) ==
    CASE event = "Connected"     -> v.stage = "unknown"
      [] event = "Synchronizing" -> v.stage = "connected"
      [] event = "Synchronized"  -> v.stage = "connected"
      [] event = "Interrupted"   -> v.stage = "synchronized" /\ ~v.interrupted
      [] event = "Resumed"       -> v.interrupted
      [] event = "Disconnected"  -> v.stage = "synchronized" /\ ~v.disconnected

\* What the events say of an endpoint once its queue was read to the end.
Agrees(v, e) ==
    /\ v.interrupted = e.disconnect_notify_sent
    /\ v.disconnected = e.disconnect_event_sent
    /\ e.state = "Starting" => v.stage = "unknown" /\ ~e.connected
    /\ e.state = "Syncing" =>
            v.stage = IF e.connected THEN "connected" ELSE "unknown"
    /\ e.state \in {"Synchronized", "Running"} => v.stage = "synchronized"
    /\ e.state \in {"Starting", "Syncing"} => e.remote_magic_number = 0

\* The views of one who reads a queue that EndpointEvents allows.
Readings(v, queue) ==
    {tr \in [1 .. Len(queue) + 1 -> Views] :
        /\ tr[1] = v
        /\ \A i \in 1 .. Len(queue) :
            MayFollow(tr[i], queue[i]) /\ tr[i + 1] = Told(tr[i], queue[i])}

Reads(v, e) ==
    \E tr \in Readings(v, e.event_queue) :
        Agrees(tr[Len(e.event_queue) + 1], e)

\* Every message of the endpoint bears its magic number, which is not 0.
Stamped(e) ==
    /\ e.magic_number # 0
    /\ \A i \in 1 .. Len(e.outbox) : e.outbox[i].magic # 0

\* A method whose events may follow those of the endpoint before.
Follows(e, t) ==
    /\ t \in Endpoints
    /\ Stamped(e) => Stamped(t)
    /\ \A v \in Views : Reads(v, e) => Reads(v, t)

\* A method that neither tells nor changes what the events speak of.
Still(e, t) ==
    /\ t \in Endpoints
    /\ Stamped(e) => Stamped(t)
    /\ t.event_queue = e.event_queue
    /\ t.disconnect_notify_sent = e.disconnect_notify_sent
    /\ t.disconnect_event_sent = e.disconnect_event_sent
    /\ t.state = e.state /\ t.connected = e.connected
    /\ t.remote_magic_number = e.remote_magic_number

-----------------------------------------------------------------------------
(* Reading.                                                                *)

\* One method after another.
LEMMA FollowsTransitive ==
    ASSUME NEW e, NEW t, NEW u, Follows(e, t), Follows(t, u)
    PROVE  Follows(e, u)
  BY DEF Follows

\* A method that does nothing.
LEMMA FollowsSame ==
    ASSUME NEW e \in Endpoints
    PROVE  Follows(e, e) /\ Still(e, e)
  BY DEF Follows, Still

\* One quiet method after another.
LEMMA StillTransitive ==
    ASSUME NEW e, NEW t, NEW u, Still(e, t), Still(t, u)
    PROVE  Still(e, u)
  BY DEF Still

\* A change of the endpoint that the events so far still agree with.
LEMMA UpdateFollows ==
    ASSUME NEW e \in Endpoints, NEW t \in Endpoints,
           Stamped(e) => Stamped(t),
           t.event_queue = e.event_queue,
           \A u \in Views : Agrees(u, e) => Agrees(u, t)
    PROVE  Follows(e, t)
  <1>1. ASSUME NEW v \in Views, Reads(v, e) PROVE Reads(v, t)
    <2> DEFINE n == Len(e.event_queue)
    <2>1. PICK tr \in Readings(v, e.event_queue) : Agrees(tr[n + 1], e)
      BY <1>1 DEF Reads
    <2>2. n \in Nat
      BY DEF Endpoints
    <2>3. tr[n + 1] \in Views
      <3>1. tr \in [1 .. n + 1 -> Views]
        BY <2>1 DEF Readings
      <3> HIDE DEF n
      <3> QED BY <2>2, <3>1
    <2>4. Agrees(tr[n + 1], t)
      BY <2>1, <2>3
    <2> QED BY <2>1, <2>4 DEF Reads
  <1> QED BY <1>1 DEF Follows

\* A method that tells nothing.
LEMMA StillFollows ==
    ASSUME NEW e \in Endpoints, NEW t, Still(e, t)
    PROVE  Follows(e, t)
  <1>1. \A u \in Views : Agrees(u, e) => Agrees(u, t)
    BY DEF Still, Agrees
  <1> QED BY <1>1, UpdateFollows DEF Still

\* Told leads from view to view.
LEMMA ToldTyped ==
    ASSUME NEW v \in Views, NEW event \in Events
    PROVE  Told(v, event) \in Views
  BY DEF Views, Stages, Events, Told

\* An event that may follow when the queue was read to its end.
LEMMA EventFollows ==
    ASSUME NEW e \in Endpoints, NEW t \in Endpoints, NEW event \in Events,
           Stamped(e) => Stamped(t),
           t.event_queue = Append(e.event_queue, event),
           \A u \in Views : Agrees(u, e) =>
                MayFollow(u, event) /\ Agrees(Told(u, event), t)
    PROVE  Follows(e, t)
  <1> DEFINE q == e.event_queue
             n == Len(q)
  <1>1. q \in Seq(Events)
    BY DEF Endpoints
  <1>2. /\ n \in Nat /\ Len(t.event_queue) = n + 1
        /\ \A i \in 1 .. n : t.event_queue[i] = q[i]
        /\ t.event_queue[n + 1] = event
    BY <1>1
  <1>3. ASSUME NEW v \in Views, Reads(v, e) PROVE Reads(v, t)
    <2>1. PICK tr \in Readings(v, q) : Agrees(tr[n + 1], e)
      BY <1>3 DEF Reads
    <2>2. /\ tr \in [1 .. n + 1 -> Views] /\ tr[1] = v
          /\ \A i \in 1 .. n : MayFollow(tr[i], q[i])
                               /\ tr[i + 1] = Told(tr[i], q[i])
      BY <2>1 DEF Readings
    <2>3. tr[n + 1] \in Views
      BY <1>2, <2>2
    <2> DEFINE last == Told(tr[n + 1], event)
               more == [i \in 1 .. n + 2 |->
                            IF i <= n + 1 THEN tr[i] ELSE last]
    <2>4. /\ MayFollow(tr[n + 1], event) /\ Agrees(last, t)
          /\ last \in Views
      BY <2>1, <2>3, ToldTyped
    <2> HIDE DEF last
    <2>5. /\ more \in [1 .. n + 2 -> Views]
          /\ \A i \in 1 .. n + 1 : more[i] = tr[i]
          /\ more[n + 2] = last
      BY <1>2, <2>2, <2>4
    <2> HIDE DEF more
    <2>6. ASSUME NEW i \in 1 .. n + 1
          PROVE  /\ MayFollow(more[i], t.event_queue[i])
                 /\ more[i + 1] = Told(more[i], t.event_queue[i])
      <3>1. CASE i = n + 1
        <4>1. i + 1 = n + 2
          BY <1>2, <3>1
        <4> QED BY <1>2, <2>4, <2>5, <3>1, <4>1 DEF last
      <3>2. CASE i # n + 1
        <4>1. i \in 1 .. n /\ i + 1 \in 1 .. n + 1
          BY <1>2, <3>2
        <4> QED BY <1>2, <2>2, <2>5, <4>1
      <3> QED BY <3>1, <3>2
    <2>7. more \in Readings(v, t.event_queue)
      <3>1. more[1] = v /\ n + 1 + 1 = n + 2
        BY <1>2, <2>2, <2>5
      <3> QED BY <1>2, <2>5, <2>6, <3>1 DEF Readings
    <2>8. Agrees(more[Len(t.event_queue) + 1], t)
      <3>1. Len(t.event_queue) + 1 = n + 2
        BY <1>2
      <3> QED BY <2>4, <2>5, <3>1
    <2> QED BY <2>7, <2>8 DEF Reads
  <1> QED BY <1>3 DEF Follows

-----------------------------------------------------------------------------
(* The methods that tell nothing.                                          *)

\* An assertion fails.
LEMMA FailStill ==
    ASSUME NEW e \in Endpoints, NEW assertion \in Panics
    PROVE  Still(e, Fail(e, assertion))
  <1> DEFINE t == [e EXCEPT !.panic = assertion]
  <1>1. Still(e, t)
    BY DEF Still, Stamped, Endpoints
  <1> QED BY <1>1, FollowsSame DEF Fail

\* A message is sent, or fails an assertion.
LEMMA SendMsgStill ==
    ASSUME NEW e \in Endpoints, NEW body \in Bodies
    PROVE  Still(e, SendMsg(e, body))
  <1> DEFINE seq == (e.next_send_seq + 1) % SeqMod
             m == [magic |-> e.magic_number, seq |-> seq, body |-> body]
             t == [e EXCEPT !.next_send_seq = seq, !.idle = 0,
                            !.outbox = Append(@, m)]
  <1>1. {"unknown message logged", "send sequence overflow"} \subseteq Panics
    BY DEF Panics
  <1>2. CASE body.type = "KeepAlive" \/ SendMsg(e, body) # t
    BY <1>1, <1>2, FailStill DEF SendMsg
  <1>3. CASE body.type # "KeepAlive" /\ SendMsg(e, body) = t
    <2>1. t \in Endpoints
      BY <1>3, SendMsgKeeps DEF Keeps
    <2> HIDE DEF seq
    <2>2. e.outbox \in Seq(Messages) /\ m.magic = e.magic_number
      BY DEF Endpoints
    <2> HIDE DEF m
    <2>3. t.outbox = Append(e.outbox, m)
      BY DEF Endpoints
    <2>4. /\ t.magic_number = e.magic_number
          /\ t.event_queue = e.event_queue
          /\ t.disconnect_notify_sent = e.disconnect_notify_sent
          /\ t.disconnect_event_sent = e.disconnect_event_sent
          /\ t.state = e.state /\ t.connected = e.connected
          /\ t.remote_magic_number = e.remote_magic_number
      BY DEF Endpoints
    <2> HIDE DEF t
    <2>5. /\ Len(e.outbox) \in Nat /\ Len(t.outbox) = Len(e.outbox) + 1
          /\ \A i \in 1 .. Len(e.outbox) : t.outbox[i] = e.outbox[i]
          /\ t.outbox[Len(e.outbox) + 1] = m
      BY <2>2, <2>3
    <2>6. Stamped(e) => Stamped(t)
      <3>1. ASSUME Stamped(e), NEW i \in 1 .. Len(t.outbox)
            PROVE  t.outbox[i].magic # 0
        <4>1. CASE i = Len(e.outbox) + 1
          BY <2>2, <2>5, <3>1, <4>1 DEF Stamped
        <4>2. CASE i # Len(e.outbox) + 1
          <5>1. i \in 1 .. Len(e.outbox)
            BY <2>5, <4>2
          <5> QED BY <2>5, <3>1, <5>1 DEF Stamped
        <4> QED BY <4>1, <4>2
      <3> QED BY <2>4, <3>1 DEF Stamped
    <2> QED BY <1>3, <2>1, <2>4, <2>6 DEF Still, t
  <1> QED BY <1>2, <1>3

\* The pending output is sent, or fails an assertion.
LEMMA SendPendingOutputStill ==
    ASSUME NEW e \in Endpoints
    PROVE  Still(e, SendPendingOutput(e))
  <1> DEFINE input == [type |-> "Input"]
  <1>1. {"pending output does not follow the acknowledged input",
         "too many compressed bits"} \subseteq Panics
    BY DEF Panics
  <1>2. input \in Bodies
    BY DEF Bodies
  <1>3. SendPendingOutput(e) \in
            {Fail(e, "pending output does not follow the acknowledged input"),
             Fail(e, "too many compressed bits"), SendMsg(e, input)}
    BY DEF SendPendingOutput
  <1> HIDE DEF input
  <1> QED BY <1>1, <1>2, <1>3, FailStill, SendMsgStill

\* Input is sent.
LEMMA SendInputStill ==
    ASSUME NEW e \in Endpoints, NEW input \in PendingInputs
    PROVE  Still(e, SendInput(e, input))
  <1> DEFINE added == Append(e.pending_output, input)
             t == [e EXCEPT !.pending_output = added]
  <1>1. added \in Seq(PendingInputs)
    <2>1. e.pending_output \in Seq(PendingInputs)
      BY DEF Endpoints
    <2> QED BY <2>1
  <1> HIDE DEF added
  <1>2. Still(e, t)
    BY <1>1 DEF Still, Stamped, Endpoints
  <1>3. SendInput(e, input) \in {SendPendingOutput(t), SendPendingOutput(e)}
    BY DEF SendInput, added
  <1>4. t \in Endpoints
    BY <1>2 DEF Still
  <1> HIDE DEF t
  <1> QED BY <1>2, <1>3, <1>4, SendPendingOutputStill, StillTransitive

\* A sync request is sent, while the endpoint synchronizes.
LEMMA SendSyncRequestStill ==
    ASSUME NEW e \in Endpoints, NEW random \in Randoms
    PROVE  Still(e, SendSyncRequest(e, random))
  <1> DEFINE drawn == [e EXCEPT !.random = random]
             request == [type |-> "SyncRequest", random |-> random]
  <1>1. Still(e, drawn) /\ drawn \in Endpoints
    BY DEF Still, Stamped, Endpoints
  <1>2. request \in Bodies
    BY DEF Bodies
  <1>3. SendSyncRequest(e, random) \in {e, SendMsg(drawn, request)}
    BY DEF SendSyncRequest
  <1> HIDE DEF drawn, request
  <1> QED BY <1>1, <1>2, <1>3, SendMsgStill, StillTransitive, FollowsSame

-----------------------------------------------------------------------------
(* Receiving.                                                              *)

\* A reply to a request for synchronization: first Connected, then
\* Synchronizing or Synchronized.
LEMMA OnSyncReplyFollows ==
    ASSUME NEW e \in Endpoints, NEW msg \in Messages, NEW random \in Randoms
    PROVE  Follows(e, OnSyncReply(e, msg, random).endpoint)
  <1> DEFINE c == NoteConnected(e)
             running == [c EXCEPT !.state = "Running", !.unresent = LongAgo,
                                  !.remote_magic_number = msg.magic]
             done == QueueEvent(running, "Synchronized")
             counted == QueueEvent(c, "Synchronizing")
             more == SendSyncRequest(counted, random)
             failed == Fail(c, "no round trips remaining")
  <1>1. {"Connected", "Synchronizing", "Synchronized"} \subseteq Events
        /\ "no round trips remaining" \in Panics
        /\ LongAgo \in UnresentAges /\ msg.magic \in Nat
    <2>1. LongAgo \in UnresentAges
      BY DEF LongAgo, UnresentAges
    <2>2. msg.magic \in Nat
      BY DEF Messages
    <2> QED BY <2>1, <2>2 DEF Events, Panics
  <1>2. CASE e.state # "Syncing" \/ msg.body.random # e.random
    BY <1>2, FollowsSame DEF OnSyncReply, Ignored
  <1>3. CASE e.state = "Syncing" /\ msg.body.random = e.random
    <2>1. OnSyncReply(e, msg, random).endpoint \in {failed, done, more}
      BY <1>3 DEF OnSyncReply, Handled
    <2>2. /\ c \in Endpoints /\ Follows(e, c)
          /\ c.state = "Syncing" /\ c.connected
      <3> DEFINE f == [e EXCEPT !.connected = TRUE]
                 t == QueueEvent(f, "Connected")
      <3>1. CASE e.connected
        BY <1>3, <3>1, FollowsSame DEF NoteConnected
      <3>2. CASE ~e.connected
        <4>1. f \in Endpoints
          BY DEF Endpoints
        <4>2. t \in Endpoints
          BY <1>1, <4>1, QueueEventTyped
        <4>3. /\ t.event_queue = Append(e.event_queue, "Connected")
              /\ t.state = e.state /\ t.connected = TRUE
              /\ t.disconnect_notify_sent = e.disconnect_notify_sent
              /\ t.disconnect_event_sent = e.disconnect_event_sent
              /\ t.remote_magic_number = e.remote_magic_number
              /\ t.magic_number = e.magic_number /\ t.outbox = e.outbox
          BY DEF QueueEvent, Endpoints
        <4>4. c = t
          BY <3>2 DEF NoteConnected
        <4> HIDE DEF t
        <4>5. ASSUME NEW u \in Views, Agrees(u, e)
              PROVE  MayFollow(u, "Connected")
                     /\ Agrees(Told(u, "Connected"), t)
          BY <1>3, <3>2, <4>3, <4>5 DEF Agrees, MayFollow, Told, Views
        <4>6. Follows(e, t)
          BY <1>1, <4>2, <4>3, <4>5, EventFollows DEF Stamped
        <4> QED BY <1>3, <4>2, <4>3, <4>4, <4>6
      <3> QED BY <3>1, <3>2
    <2> HIDE DEF c
    <2>3. Follows(e, failed)
      BY <1>1, <2>2, FailStill, StillFollows, FollowsTransitive
    <2>4. Follows(e, done)
      <3>1. running \in Endpoints
        BY <1>1, <2>2 DEF Endpoints, States
      <3>2. done \in Endpoints
        BY <1>1, <3>1, QueueEventTyped
      <3>3. /\ done.event_queue = Append(c.event_queue, "Synchronized")
            /\ done.state = "Running"
            /\ done.disconnect_notify_sent = c.disconnect_notify_sent
            /\ done.disconnect_event_sent = c.disconnect_event_sent
            /\ done.magic_number = c.magic_number /\ done.outbox = c.outbox
        BY <2>2 DEF QueueEvent, Endpoints
      <3> HIDE DEF done
      <3>4. ASSUME NEW u \in Views, Agrees(u, c)
            PROVE  MayFollow(u, "Synchronized")
                   /\ Agrees(Told(u, "Synchronized"), done)
        BY <2>2, <3>3, <3>4 DEF Agrees, MayFollow, Told, Views
      <3>5. Follows(c, done)
        BY <1>1, <2>2, <3>2, <3>3, <3>4, EventFollows DEF Stamped
      <3> QED BY <2>2, <3>5, FollowsTransitive
    <2>5. Follows(e, more)
      <3>1. counted \in Endpoints
        BY <1>1, <2>2, QueueEventTyped
      <3>2. /\ counted.event_queue = Append(c.event_queue, "Synchronizing")
            /\ counted.state = c.state /\ counted.connected = c.connected
            /\ counted.disconnect_notify_sent = c.disconnect_notify_sent
            /\ counted.disconnect_event_sent = c.disconnect_event_sent
            /\ counted.remote_magic_number = c.remote_magic_number
            /\ counted.magic_number = c.magic_number
            /\ counted.outbox = c.outbox
        BY <2>2 DEF QueueEvent, Endpoints
      <3> HIDE DEF counted
      <3>3. ASSUME NEW u \in Views, Agrees(u, c)
            PROVE  MayFollow(u, "Synchronizing")
                   /\ Agrees(Told(u, "Synchronizing"), counted)
        BY <2>2, <3>2, <3>3 DEF Agrees, MayFollow, Told, Views
      <3>4. Follows(c, counted)
        BY <1>1, <2>2, <3>1, <3>2, <3>3, EventFollows DEF Stamped
      <3>5. Follows(counted, more)
        BY <3>1, SendSyncRequestStill, StillFollows
      <3> QED BY <2>2, <3>4, <3>5, FollowsTransitive
    <2> QED BY <2>1, <2>3, <2>4, <2>5
  <1> QED BY <1>2, <1>3

\* An Input message, which passes the filter only when the peer's magic number
\* is known, and so the endpoint synchronized, ends the connection once.
LEMMA OnInputFollows ==
    ASSUME NEW e, NEW nf \in Nat, Good(e, nf), e.remote_magic_number # 0
    PROVE  Follows(e, OnInput(e).endpoint)
  <1> DEFINE d == [e EXCEPT !.disconnect_event_sent = TRUE]
             told == QueueEvent(d, "Disconnected")
             r == RequestedDisconnect(e)
             t == DropAcked(r, DefaultAckFrame)
  <1>1. e \in Endpoints /\ "Disconnected" \in Events
    BY DEF Good, Events
  <1>2. d \in Endpoints /\ Keeps(e, told)
    <2>1. Keeps(e, d) /\ d \in Endpoints
      BY <1>1, UpdatesKeep DEF Keeps
    <2> QED BY <1>1, <2>1, QueueEventKeeps, KeepsTransitive
  <1>3. /\ told.event_queue = Append(e.event_queue, "Disconnected")
        /\ told.state = e.state /\ told.connected = e.connected
        /\ told.disconnect_notify_sent = e.disconnect_notify_sent
        /\ told.disconnect_event_sent = TRUE
        /\ told.remote_magic_number = e.remote_magic_number
        /\ told.magic_number = e.magic_number /\ told.outbox = e.outbox
    BY <1>1 DEF QueueEvent, Endpoints
  <1>4. r = IF e.state = "Disconnected" \/ e.disconnect_event_sent
            THEN e ELSE told
    BY DEF RequestedDisconnect
  <1> HIDE DEF told, r
  <1>5. Good(r, nf)
    BY <1>1, <1>2, <1>4, KeepsGood
  <1>6. Follows(e, r)
    <2>1. CASE e.state = "Disconnected" \/ e.disconnect_event_sent
      BY <1>1, <1>4, <2>1, FollowsSame
    <2>2. CASE e.state # "Disconnected" /\ ~e.disconnect_event_sent
      <3>1. ASSUME NEW u \in Views, Agrees(u, e)
            PROVE  MayFollow(u, "Disconnected")
                   /\ Agrees(Told(u, "Disconnected"), told)
        <4>1. e.state \in {"Synchronized", "Running"}
          BY <1>1, <2>2, <3>1 DEF Agrees, Endpoints, States
        <4> QED BY <1>3, <2>2, <3>1, <4>1 DEF Agrees, MayFollow, Told, Views
      <3>2. Follows(e, told)
        BY <1>1, <1>2, <1>3, <3>1, EventFollows DEF Stamped, Keeps
      <3> QED BY <1>4, <2>2, <3>2
    <2> QED BY <2>1, <2>2
  <1>7. Follows(r, t)
    <2>1. r \in Endpoints /\ t \in Endpoints
      <3>1. Good(t, nf)
        BY <1>5, DropAckedGood
      <3> QED BY <1>5, <3>1 DEF Good
    <2>2. Still(r, t)
      BY <2>1 DEF Still, Stamped, DropAcked, Endpoints
    <2> QED BY <2>1, <2>2, StillFollows
  <1>8. OnInput(e).endpoint = t
    BY DEF OnInput, Handled, r
  <1> HIDE DEF t
  <1> QED BY <1>6, <1>7, <1>8, FollowsTransitive

\* Every message that passes the filter.
LEMMA DispatchFollows ==
    ASSUME NEW e, NEW nf \in Nat, Good(e, nf), NEW random \in Randoms,
           NEW msg \in Nameable, IsSync(msg) \/ e.remote_magic_number # 0
    PROVE  Follows(e, Dispatch(e, msg, random).endpoint)
  <1>1. /\ e \in Endpoints /\ msg \in Messages /\ msg.body \in Bodies
        /\ msg.body.type \in {"SyncRequest", "SyncReply", "Input",
                              "QualityReport", "QualityReply"}
    BY DEF Good, Nameable, Messages, Bodies
  <1>2. ASSUME NEW body \in Bodies PROVE Follows(e, SendMsg(e, body))
    BY <1>1, SendMsgStill, StillFollows
  <1>3. CASE msg.body.type = "SyncRequest"
    <2> DEFINE reply == [type |-> "SyncReply", random |-> msg.body.random]
    <2>1. reply \in Bodies
      BY <1>1, <1>3 DEF Bodies
    <2>2. Dispatch(e, msg, random) \in {Ignored(e), Handled(SendMsg(e, reply))}
      BY <1>3 DEF Dispatch, OnSyncRequest
    <2> HIDE DEF reply
    <2> QED BY <1>1, <1>2, <2>1, <2>2, FollowsSame DEF Ignored, Handled
  <1>4. CASE msg.body.type = "SyncReply"
    BY <1>1, <1>4, OnSyncReplyFollows DEF Dispatch
  <1>5. CASE msg.body.type = "Input"
    BY <1>5, OnInputFollows DEF Dispatch, IsSync
  <1>6. CASE msg.body.type = "QualityReport"
    <2> DEFINE reply == [type |-> "QualityReply"]
    <2>1. reply \in Bodies
      BY DEF Bodies
    <2>2. Dispatch(e, msg, random) = Handled(SendMsg(e, reply))
      BY <1>6 DEF Dispatch, OnQualityReport
    <2> HIDE DEF reply
    <2> QED BY <1>2, <2>1, <2>2 DEF Handled
  <1>7. CASE msg.body.type = "QualityReply"
    BY <1>1, <1>7, FollowsSame DEF Dispatch, Handled
  <1> QED BY <1>1, <1>3, <1>4, <1>5, <1>6, <1>7

\* A message heard ends an interruption.
LEMMA NoteHeardFollows ==
    ASSUME NEW e \in Endpoints
    PROVE  Follows(e, NoteHeard(e))
  <1> DEFINE h == [e EXCEPT !.silent = 0]
             r == [e EXCEPT !.silent = 0, !.disconnect_notify_sent = FALSE]
             told == QueueEvent(r, "Resumed")
  <1>1. h \in Endpoints /\ r \in Endpoints /\ "Resumed" \in Events
    <2>1. 0 \in SilentAges
      BY DEF SilentAges
    <2>2. h \in Endpoints
      BY <2>1 DEF Endpoints
    <2>3. r \in Endpoints
      BY <2>1 DEF Endpoints
    <2> QED BY <2>2, <2>3 DEF Events
  <1>2. CASE e.state = "Running" /\ e.disconnect_notify_sent
    <2>1. told \in Endpoints
      BY <1>1, QueueEventTyped
    <2>2. /\ told.event_queue = Append(e.event_queue, "Resumed")
          /\ told.state = e.state /\ told.connected = e.connected
          /\ told.disconnect_notify_sent = FALSE
          /\ told.disconnect_event_sent = e.disconnect_event_sent
          /\ told.remote_magic_number = e.remote_magic_number
          /\ told.magic_number = e.magic_number /\ told.outbox = e.outbox
      BY DEF QueueEvent, Endpoints
    <2>3. NoteHeard(e) = told
      BY <1>2 DEF NoteHeard
    <2> HIDE DEF told
    <2>4. ASSUME NEW u \in Views, Agrees(u, e)
          PROVE  MayFollow(u, "Resumed") /\ Agrees(Told(u, "Resumed"), told)
      BY <1>2, <2>2, <2>4 DEF Agrees, MayFollow, Told, Views
    <2>5. Follows(e, told)
      BY <1>1, <2>1, <2>2, <2>4, EventFollows DEF Stamped
    <2> QED BY <2>3, <2>5
  <1>3. CASE ~(e.state = "Running" /\ e.disconnect_notify_sent)
    <2>1. Still(e, h) /\ NoteHeard(e) = h
      BY <1>1, <1>3 DEF Still, Stamped, NoteHeard, Endpoints
    <2> QED BY <2>1, StillFollows
  <1> QED BY <1>2, <1>3

\* A message, whatever it is and whenever it arrives.
LEMMA OnMsgFollows ==
    ASSUME NEW e, NEW nf \in Nat, Good(e, nf), NEW random \in Randoms,
           NEW msg \in Nameable, msg.magic # 0
    PROVE  Follows(e, OnMsg(e, msg, random))
  <1> DEFINE failed == Fail(e, "receive sequence underflow")
             f == [e EXCEPT !.next_recv_seq = msg.seq]
             got == Dispatch(f, msg, random)
             t == got.endpoint
  <1>1. e \in Endpoints /\ msg.seq \in 0 .. SeqMod - 1
        /\ "receive sequence underflow" \in Panics
    BY DEF Good, Nameable, Messages, Panics
  <1>2. CASE Filtered(e, msg) \/ OnMsg(e, msg, random) = failed
    BY <1>1, <1>2, FailStill, StillFollows, FollowsSame DEF OnMsg
  <1>3. CASE ~Filtered(e, msg) /\ OnMsg(e, msg, random) # failed
    <2>1. OnMsg(e, msg, random) = IF got.handled THEN NoteHeard(t) ELSE t
      BY <1>3 DEF OnMsg
    <2>2. /\ Keeps(e, f) /\ Still(e, f) /\ f \in Endpoints
          /\ f.remote_magic_number = e.remote_magic_number
      BY <1>1 DEF Keeps, Still, Stamped, Retries, Silence, Untold,
        Endpoints
    <2>3. IsSync(msg) \/ e.remote_magic_number # 0
      BY <1>3 DEF Filtered
    <2> HIDE DEF f
    <2>4. Good(f, nf)
      BY <2>2, KeepsGood
    <2>5. Follows(f, t)
      BY <2>2, <2>3, <2>4, DispatchFollows
    <2>6. Follows(e, t) /\ t \in Endpoints
      BY <1>1, <2>2, <2>5, StillFollows, FollowsTransitive DEF Follows
    <2> HIDE DEF got
    <2>7. Follows(e, NoteHeard(t))
      BY <2>6, NoteHeardFollows, FollowsTransitive
    <2> QED BY <2>1, <2>6, <2>7
  <1> QED BY <1>2, <1>3

-----------------------------------------------------------------------------
(* The poll and the calls of the backend.                                  *)

\* An interruption is told once, as long as nothing is heard.
LEMMA NotifyFollows ==
    ASSUME NEW e \in Endpoints, e.state = "Running"
    PROVE  /\ Follows(e, Notify(e))
           /\ Notify(e).state = "Running"
  <1> DEFINE d == [e EXCEPT !.disconnect_notify_sent = TRUE]
             told == QueueEvent(d, "Interrupted")
  <1>1. d \in Endpoints /\ "Interrupted" \in Events
    BY DEF Endpoints, Events
  <1>2. told \in Endpoints
    BY <1>1, QueueEventTyped
  <1>3. /\ told.event_queue = Append(e.event_queue, "Interrupted")
        /\ told.state = e.state /\ told.connected = e.connected
        /\ told.disconnect_notify_sent = TRUE
        /\ told.disconnect_event_sent = e.disconnect_event_sent
        /\ told.remote_magic_number = e.remote_magic_number
        /\ told.magic_number = e.magic_number /\ told.outbox = e.outbox
    BY DEF QueueEvent, Endpoints
  <1>4. Notify(e) = IF e.silent > DisconnectNotifyStart
                       /\ ~e.disconnect_notify_sent THEN told ELSE e
    BY DEF Notify
  <1> HIDE DEF told
  <1>5. CASE Notify(e) = e
    BY <1>5, FollowsSame
  <1>6. CASE Notify(e) = told /\ ~e.disconnect_notify_sent
    <2>1. ASSUME NEW u \in Views, Agrees(u, e)
          PROVE  MayFollow(u, "Interrupted")
                 /\ Agrees(Told(u, "Interrupted"), told)
      BY <1>3, <1>6, <2>1 DEF Agrees, MayFollow, Told, Views
    <2>2. Follows(e, told)
      BY <1>1, <1>2, <1>3, <2>1, EventFollows DEF Stamped
    <2> QED BY <1>3, <1>6, <2>2
  <1> QED BY <1>4, <1>5, <1>6

\* The end of the connection is told once.
LEMMA TimeOutFollows ==
    ASSUME NEW e \in Endpoints, e.state = "Running"
    PROVE  Follows(e, TimeOut(e))
  <1> DEFINE d == [e EXCEPT !.disconnect_event_sent = TRUE]
             told == QueueEvent(d, "Disconnected")
  <1>1. d \in Endpoints /\ "Disconnected" \in Events
    BY DEF Endpoints, Events
  <1>2. told \in Endpoints
    BY <1>1, QueueEventTyped
  <1>3. /\ told.event_queue = Append(e.event_queue, "Disconnected")
        /\ told.state = e.state /\ told.connected = e.connected
        /\ told.disconnect_notify_sent = e.disconnect_notify_sent
        /\ told.disconnect_event_sent = TRUE
        /\ told.remote_magic_number = e.remote_magic_number
        /\ told.magic_number = e.magic_number /\ told.outbox = e.outbox
    BY DEF QueueEvent, Endpoints
  <1>4. TimeOut(e) = IF e.silent > DisconnectTimeout
                        /\ ~e.disconnect_event_sent THEN told ELSE e
    BY DEF TimeOut
  <1> HIDE DEF told
  <1>5. CASE TimeOut(e) = e
    BY <1>5, FollowsSame
  <1>6. CASE TimeOut(e) = told /\ ~e.disconnect_event_sent
    <2>1. ASSUME NEW u \in Views, Agrees(u, e)
          PROVE  MayFollow(u, "Disconnected")
                 /\ Agrees(Told(u, "Disconnected"), told)
      BY <1>3, <1>6, <2>1 DEF Agrees, MayFollow, Told, Views
    <2>2. Follows(e, told)
      BY <1>1, <1>2, <1>3, <2>1, EventFollows DEF Stamped
    <2> QED BY <1>6, <2>2
  <1> QED BY <1>4, <1>5, <1>6

\* The poll of a running endpoint.
LEMMA PollRunningFollows ==
    ASSUME NEW e \in Endpoints, e.state = "Running", NEW due
    PROVE  Follows(e, PollRunning(e, due))
  <1> DEFINE r == Resend(e)
             q == ReportQuality(r, due)
             s == UpdateNetworkStats(q, due)
             k == KeepAlive(s)
             n == Notify(k)
  <1>1. Still(e, r) /\ r \in Endpoints
    <2> DEFINE sent == SendPendingOutput(e)
               t == [sent EXCEPT !.unresent = 0]
    <2>1. Still(e, sent) /\ sent \in Endpoints /\ 0 \in UnresentAges
      BY SendPendingOutputStill DEF Still, UnresentAges
    <2>2. r \in {e, t}
      BY DEF Resend
    <2> HIDE DEF sent
    <2>3. Still(sent, t)
      BY <2>1 DEF Still, Stamped, Endpoints
    <2> HIDE DEF t
    <2>4. Still(e, t)
      BY <2>1, <2>3, StillTransitive
    <2>5. Still(e, r)
      BY <2>2, <2>4, FollowsSame
    <2> QED BY <2>5 DEF Still
  <1> HIDE DEF r
  <1>2. Still(r, q) /\ q \in Endpoints
    <2> DEFINE report == [type |-> "QualityReport"]
    <2>1. report \in Bodies
      BY DEF Bodies
    <2>2. q \in {r, SendMsg(r, report)}
      BY DEF ReportQuality
    <2> HIDE DEF report, q
    <2>3. Still(r, q)
      BY <1>1, <2>1, <2>2, SendMsgStill, FollowsSame
    <2> QED BY <2>3 DEF Still
  <1> HIDE DEF q
  <1>3. Still(q, s) /\ s \in Endpoints
    <2>1. s \in {q, Fail(q, "statistics over no time")}
          /\ "statistics over no time" \in Panics
      BY DEF UpdateNetworkStats, Panics
    <2> HIDE DEF s
    <2>2. Still(q, s)
      BY <1>2, <2>1, FailStill, FollowsSame
    <2> QED BY <2>2 DEF Still
  <1> HIDE DEF s
  <1>4. Still(s, k) /\ k \in Endpoints
    <2> DEFINE alive == [type |-> "KeepAlive"]
    <2>1. alive \in Bodies
      BY DEF Bodies
    <2>2. k \in {s, SendMsg(s, alive)}
      BY DEF KeepAlive
    <2> HIDE DEF alive, k
    <2>3. Still(s, k)
      BY <1>3, <2>1, <2>2, SendMsgStill, FollowsSame
    <2> QED BY <2>3 DEF Still
  <1> HIDE DEF k
  <1>5. Still(e, k)
    BY <1>1, <1>2, <1>3, <1>4, StillTransitive
  <1>6. Follows(e, k) /\ k.state = "Running"
    BY <1>5, StillFollows DEF Still
  <1>7. Follows(k, n) /\ n \in Endpoints /\ n.state = "Running"
    BY <1>4, <1>6, NotifyFollows DEF Follows
  <1>8. PollRunning(e, due) = TimeOut(n)
    BY DEF PollRunning, n, k, s, q, r
  <1> HIDE DEF n
  <1> QED BY <1>6, <1>7, <1>8, TimeOutFollows, FollowsTransitive

\* The poll, in every state.
LEMMA OnLoopPollFollows ==
    ASSUME NEW e \in Endpoints, NEW due, NEW random \in Randoms
    PROVE  Follows(e, OnLoopPoll(e, due, random))
  <1> DEFINE off == [e EXCEPT !.udp = FALSE]
  <1>1. CASE e.state = "Running"
    BY <1>1, PollRunningFollows DEF OnLoopPoll
  <1>2. CASE e.state # "Running"
    <2>1. OnLoopPoll(e, due, random) \in {e, SendSyncRequest(e, random), off}
      BY <1>2 DEF OnLoopPoll, PollSyncing
    <2>2. Still(e, off)
      BY DEF Still, Stamped, Endpoints
    <2> QED BY <2>1, <2>2, SendSyncRequestStill, StillFollows, FollowsSame
  <1> QED BY <1>1, <1>2

\* disconnect.
LEMMA DisconnectFollows ==
    ASSUME NEW e \in Endpoints
    PROVE  Follows(e, Disconnect(e))
  <1> DEFINE t == [e EXCEPT !.state = "Disconnected"]
  <1>1. /\ t \in Endpoints /\ t.state = "Disconnected"
        /\ t.event_queue = e.event_queue
        /\ t.disconnect_notify_sent = e.disconnect_notify_sent
        /\ t.disconnect_event_sent = e.disconnect_event_sent
        /\ t.magic_number = e.magic_number /\ t.outbox = e.outbox
    BY DEF Endpoints, States
  <1> HIDE DEF t
  <1>2. \A u \in Views : Agrees(u, e) => Agrees(u, t)
    BY <1>1 DEF Agrees
  <1>3. Follows(e, t)
    BY <1>1, <1>2, UpdateFollows DEF Stamped
  <1> QED BY <1>3 DEF Disconnect, t

\* synchronize, of an endpoint that init prepared.
LEMMA SynchronizeFollows ==
    ASSUME NEW e \in Endpoints, e.state = "Starting", NEW random \in Randoms
    PROVE  Follows(e, Synchronize([e EXCEPT !.udp = TRUE], random))
  <1> DEFINE u == [e EXCEPT !.udp = TRUE]
             s == [u EXCEPT !.state = "Syncing",
                            !.roundtrips_remaining = NumSyncPackets]
  <1>1. u \in Endpoints /\ Still(e, u) /\ u.state = "Starting"
    BY DEF Endpoints, Still, Stamped
  <1>2. Synchronize(u, random) = SendSyncRequest(s, random)
    BY DEF Synchronize
  <1> HIDE DEF u
  <1>3. /\ s \in Endpoints /\ s.state = "Syncing"
        /\ s.connected = u.connected
        /\ s.event_queue = u.event_queue
        /\ s.disconnect_notify_sent = u.disconnect_notify_sent
        /\ s.disconnect_event_sent = u.disconnect_event_sent
        /\ s.remote_magic_number = u.remote_magic_number
        /\ s.magic_number = u.magic_number /\ s.outbox = u.outbox
    <2>1. NumSyncPackets \in 0 .. NumSyncPackets
      OBVIOUS
    <2> QED BY <1>1, <2>1 DEF Endpoints, States
  <1> HIDE DEF s
  <1>4. \A v \in Views : Agrees(v, u) => Agrees(v, s)
    BY <1>1, <1>3 DEF Agrees
  <1>5. Follows(u, s)
    BY <1>1, <1>3, <1>4, UpdateFollows DEF Stamped
  <1>6. Follows(s, SendSyncRequest(s, random))
    BY <1>3, SendSyncRequestStill, StillFollows
  <1>7. Follows(e, u)
    BY <1>1, StillFollows
  <1> QED BY <1>2, <1>5, <1>6, <1>7, FollowsTransitive DEF u

\* The clock moves on.
LEMMA AgeFollows ==
    ASSUME NEW e, NEW nf, Good(e, nf)
    PROVE  Follows(e, Age(e))
  <1>1. e \in Endpoints
    BY DEF Good
  <1>2. Age(e) \in Endpoints
    BY AgeGood DEF Good
  <1>3. Still(e, Age(e))
    BY <1>1, <1>2 DEF Still, Stamped, Age, Endpoints
  <1> QED BY <1>1, <1>3, StillFollows

\* The network takes the messages.
LEMMA OutboxFollows ==
    ASSUME NEW e \in Endpoints
    PROVE  Follows(e, [e EXCEPT !.outbox = <<>>])
  <1> DEFINE t == [e EXCEPT !.outbox = <<>>]
  <1>1. t \in Endpoints /\ t.outbox = <<>>
    BY OutboxTaken DEF Keeps
  <1>2. /\ t.magic_number = e.magic_number
        /\ t.event_queue = e.event_queue
        /\ t.disconnect_notify_sent = e.disconnect_notify_sent
        /\ t.disconnect_event_sent = e.disconnect_event_sent
        /\ t.state = e.state /\ t.connected = e.connected
        /\ t.remote_magic_number = e.remote_magic_number
    BY DEF Endpoints
  <1> HIDE DEF t
  <1>3. Still(e, t)
    BY <1>1, <1>2 DEF Still, Stamped
  <1> QED BY <1>3, StillFollows DEF t

-----------------------------------------------------------------------------
(* The session.                                                            *)

\* What the backend of each peer was told, then the events that wait for it,
\* lead to a view that agrees with the endpoint.
EInv ==
    /\ IInv
    /\ seen \in [Peers -> Seens]
    /\ \A mail \in network : mail.msg.magic # 0
    /\ \A p \in Peers :
        Stamped(endpoint[p]) /\ Reads(View(seen[p]), endpoint[p])

\* A backend has a view.
LEMMA ViewTyped ==
    ASSUME NEW s \in Seens
    PROVE  View(s) \in Views
  BY DEF View, Views, Seens

\* What it is told, it knows.
LEMMA ToldSeen ==
    ASSUME NEW s \in Seens, NEW event \in Events
    PROVE  /\ Told(s, event) \in Seens
           /\ View(Told(s, event)) = Told(View(s), event)
  <1>1. Told(s, event) \in
            {s, [s EXCEPT !.stage = "connected"],
                [s EXCEPT !.stage = "synchronized"],
                [s EXCEPT !.interrupted = TRUE],
                [s EXCEPT !.interrupted = FALSE],
                [s EXCEPT !.disconnected = TRUE]}
    BY DEF Events, Told
  <1>2. Told(s, event) \in Seens
    BY <1>1 DEF Seens, Stages
  <1>3. View(Told(s, event)) = Told(View(s), event)
    BY DEF Seens, Events, Told, View
  <1> QED BY <1>2, <1>3

\* It also counts.
LEMMA CountedSeen ==
    ASSUME NEW s \in Seens, NEW k \in {0, 1}
    PROVE  /\ [s EXCEPT !.parity = 1 - k] \in Seens
           /\ View([s EXCEPT !.parity = 1 - k]) = View(s)
  <1>1. 1 - k \in {0, 1}
    OBVIOUS
  <1> QED BY <1>1 DEF Seens, View

\* At first nothing was told and nothing waits.
LEMMA InitReads ==
    ASSUME \A p \in Peers : Magic[p] # 0, Init
    PROVE  EInv
  <1>1. IInv
    BY InitEstablishes
  <1>2. Stream!NothingSeen \in Seens
    BY DEF Stream!NothingSeen, Seens, Stages
  <1>3. seen \in [Peers -> Seens]
    BY <1>2 DEF Init
  <1>4. ASSUME NEW p \in Peers
        PROVE  Stamped(endpoint[p]) /\ Reads(View(seen[p]), endpoint[p])
    <2> DEFINE e == endpoint[p]
               v == View(Stream!NothingSeen)
               tr == [i \in 1 .. 1 |-> v]
    <2>1. seen[p] = Stream!NothingSeen
      BY DEF Init
    <2>2. /\ e.magic_number = Magic[p] /\ e.outbox = <<>>
          /\ e.event_queue = <<>> /\ e.state = "Starting"
          /\ e.connected = FALSE /\ e.remote_magic_number = 0
          /\ e.disconnect_notify_sent = FALSE
          /\ e.disconnect_event_sent = FALSE
      BY DEF Init, NewEndpoint
    <2> HIDE DEF e
    <2>3. Len(e.event_queue) = 0 /\ Len(e.outbox) = 0
      BY <2>2
    <2>4. v \in Views
      BY <1>2, ViewTyped
    <2>5. Agrees(v, e)
      BY <2>2 DEF Agrees, View, Stream!NothingSeen
    <2> HIDE DEF v
    <2>6. tr \in Readings(v, e.event_queue) /\ tr[1] = v
      BY <2>3, <2>4 DEF Readings
    <2> HIDE DEF tr
    <2>7. Reads(v, e)
      BY <2>3, <2>5, <2>6 DEF Reads
    <2>8. Stamped(e)
      BY <2>2, <2>3 DEF Stamped
    <2> QED BY <2>1, <2>7, <2>8 DEF e, v
  <1> QED BY <1>1, <1>3, <1>4 DEF EInv, Init

\* A step of one endpoint whose events may follow.
LEMMA BecomesReads ==
    ASSUME EInv, IInv', NEW p \in Peers, NEW e, NEW rest \in SUBSET network,
           Becomes(p, e, rest), Follows(endpoint[p], e), seen' = seen
    PROVE  EInv'
  <1> DEFINE t == [e EXCEPT !.outbox = <<>>]
  <1>1. e \in Endpoints /\ Stamped(e) /\ Reads(View(seen[p]), e)
    <2>1. View(seen[p]) \in Views
      BY ViewTyped DEF EInv
    <2> QED BY <2>1 DEF EInv, Follows
  <1>2. Stamped(t) /\ Reads(View(seen[p]), t)
    <2>1. View(seen[p]) \in Views
      BY ViewTyped DEF EInv
    <2>2. Follows(e, t)
      BY <1>1, OutboxFollows
    <2> HIDE DEF t
    <2> QED BY <1>1, <2>1, <2>2 DEF Follows
  <1>3. /\ endpoint' = [endpoint EXCEPT ![p] = t]
        /\ network' = rest \cup Mail(p, e)
    BY DEF Becomes
  <1> HIDE DEF t
  <1>4. \A q \in Peers :
            Stamped(endpoint'[q]) /\ Reads(View(seen[q]), endpoint'[q])
    <2>1. /\ endpoint'[p] = t
          /\ \A q \in Peers : q # p => endpoint'[q] = endpoint[q]
      BY <1>3 DEF EInv, IInv
    <2> QED BY <1>2, <2>1 DEF EInv
  <1>5. \A mail \in network' : mail.msg.magic # 0
    <2>1. ASSUME NEW mail \in Mail(p, e) PROVE mail.msg.magic # 0
      BY <1>1, <2>1 DEF Mail, Stamped
    <2> QED BY <1>3, <2>1 DEF EInv
  <1> QED BY <1>4, <1>5 DEF EInv

\* The actions in which one endpoint calls a method that may send.
LEMMA CallsRead ==
    ASSUME EInv, IInv', NEW p \in Peers,
           \/ AddRemotePlayer(p)
           \/ \E mail \in network : Receive(p, mail)
           \/ Poll(p) \/ AddLocalInput(p) \/ DisconnectPlayer(p)
    PROVE  EInv' /\ seen' = seen
  <1> DEFINE e == endpoint[p]
             nf == next_frame[p]
  <1>1. Good(e, nf) /\ e \in Endpoints /\ nf \in Nat
        /\ network \in SUBSET network
    BY DEF EInv, IInv
  <1>2. seen' = seen
    BY DEF AddRemotePlayer, Receive, Poll, AddLocalInput, DisconnectPlayer
  <1>3. ASSUME NEW t, NEW rest \in SUBSET network, Becomes(p, t, rest),
               Follows(e, t)
        PROVE  EInv'
    BY <1>2, <1>3, BecomesReads
  <1>4. CASE AddRemotePlayer(p)
    <2>1. PICK random \in Randoms :
            Becomes(p, Synchronize([e EXCEPT !.udp = TRUE], random), network)
      BY <1>4 DEF AddRemotePlayer
    <2>2. e.state = "Starting"
      BY <1>4 DEF AddRemotePlayer
    <2> HIDE DEF e
    <2> QED BY <1>1, <1>2, <1>3, <2>1, <2>2, SynchronizeFollows
  <1>5. CASE \E mail \in network : Receive(p, mail)
    <2>1. PICK mail \in network : Receive(p, mail)
      BY <1>5
    <2>2. PICK random \in Randoms, rest \in {network, network \ {mail}} :
            Becomes(p, OnMsg(e, mail.msg, random), rest)
      BY <2>1 DEF Receive
    <2>3. /\ mail.msg \in Nameable /\ mail.msg.magic # 0
          /\ rest \in SUBSET network
      BY <2>1 DEF EInv, IInv
    <2> HIDE DEF e, nf
    <2> QED BY <1>1, <1>2, <1>3, <2>2, <2>3, OnMsgFollows
  <1>6. CASE Poll(p)
    <2>1. PICK due \in SUBSET Due, random \in Randoms :
            Becomes(p, OnLoopPoll(e, due, random), network)
      BY <1>6 DEF Poll
    <2> HIDE DEF e
    <2> QED BY <1>1, <1>2, <1>3, <2>1, OnLoopPollFollows
  <1>7. CASE AddLocalInput(p)
    <2>1. PICK bits \in Bits :
            Becomes(p, SendInput(e, [frame |-> nf, bits |-> bits]), network)
      BY <1>7 DEF AddLocalInput
    <2> DEFINE input == [frame |-> nf, bits |-> bits]
    <2>2. input \in PendingInputs
      BY <1>1 DEF PendingInputs
    <2> HIDE DEF e, input
    <2>3. Follows(e, SendInput(e, input))
      BY <1>1, <2>2, SendInputStill, StillFollows
    <2> QED BY <1>1, <1>2, <1>3, <2>1, <2>3 DEF input
  <1>8. CASE DisconnectPlayer(p)
    <2>1. Becomes(p, Disconnect(e), network)
      BY <1>8 DEF DisconnectPlayer
    <2> HIDE DEF e
    <2> QED BY <1>1, <1>2, <1>3, <2>1, DisconnectFollows
  <1> QED BY <1>4, <1>5, <1>6, <1>7, <1>8

\* The backend takes an event, which EndpointEvents allows.
LEMMA GetEventReads ==
    ASSUME EInv, IInv', NEW p \in Peers, GetEvent(p)
    PROVE  EInv' /\ Stream!Next
  <1> DEFINE e == endpoint[p]
             q == e.event_queue
             n == Len(q)
             t == [e EXCEPT !.event_queue = Tail(@)]
             v == View(seen[p])
             now == [Told(seen[p], Head(q))
                        EXCEPT !.parity = 1 - seen[p].parity]
  <1>1. /\ e \in Endpoints /\ q \in Seq(Events) /\ q # <<>>
        /\ seen[p] \in Seens
        /\ Stamped(e) /\ Reads(v, e)
    BY DEF EInv, IInv, GetEvent, Endpoints
  <1>2. /\ n \in Nat \ {0} /\ Head(q) = q[1] /\ q[1] \in Events
        /\ Len(Tail(q)) = n - 1
        /\ \A i \in 1 .. n - 1 : Tail(q)[i] = q[i + 1]
    BY <1>1
  <1>3. /\ t.event_queue = Tail(q) /\ t.outbox = e.outbox
        /\ t.magic_number = e.magic_number
        /\ t.disconnect_notify_sent = e.disconnect_notify_sent
        /\ t.disconnect_event_sent = e.disconnect_event_sent
        /\ t.state = e.state /\ t.connected = e.connected
        /\ t.remote_magic_number = e.remote_magic_number
    BY <1>1 DEF Endpoints
  <1>4. /\ endpoint' = [endpoint EXCEPT ![p] = t]
        /\ seen' = [seen EXCEPT ![p] = now]
        /\ network' = network
    BY DEF GetEvent
  <1>5. now \in Seens /\ View(now) = Told(v, Head(q))
    <2>1. seen[p].parity \in {0, 1}
      BY <1>1 DEF Seens
    <2> HIDE DEF q
    <2> QED BY <1>1, <1>2, <2>1, ToldSeen, CountedSeen
  <1>6. PICK tr \in Readings(v, q) : Agrees(tr[n + 1], e)
    BY <1>1 DEF Reads
  <1>7. /\ tr \in [1 .. n + 1 -> Views] /\ tr[1] = v
        /\ \A i \in 1 .. n : MayFollow(tr[i], q[i])
                             /\ tr[i + 1] = Told(tr[i], q[i])
    BY <1>6 DEF Readings
  <1>8. Stream!Next
    <2>1. MayFollow(v, q[1])
      BY <1>2, <1>7
    <2>2. seen' = [seen EXCEPT ![p] =
                    [Told(seen[p], q[1]) EXCEPT !.parity = 1 - seen[p].parity]]
      BY <1>2, <1>4
    <2>3. \/ Stream!Connected(p) \/ Stream!Synchronizing(p)
          \/ Stream!Synchronized(p) \/ Stream!Interrupted(p)
          \/ Stream!Resumed(p) \/ Stream!Disconnected(p)
      <3>1. CASE q[1] = "Connected"
        BY <2>1, <2>2, <3>1
        DEF MayFollow, Told, View, Stream!Connected, Stream!See
      <3>2. CASE q[1] = "Synchronizing"
        BY <2>1, <2>2, <3>2
        DEF MayFollow, Told, View, Stream!Synchronizing, Stream!See
      <3>3. CASE q[1] = "Synchronized"
        BY <2>1, <2>2, <3>3
        DEF MayFollow, Told, View, Stream!Synchronized, Stream!See
      <3>4. CASE q[1] = "Interrupted"
        BY <2>1, <2>2, <3>4
        DEF MayFollow, Told, View, Stream!Interrupted, Stream!See
      <3>5. CASE q[1] = "Resumed"
        BY <2>1, <2>2, <3>5
        DEF MayFollow, Told, View, Stream!Resumed, Stream!See
      <3>6. CASE q[1] = "Disconnected"
        BY <2>1, <2>2, <3>6
        DEF MayFollow, Told, View, Stream!Disconnected, Stream!See
      <3> QED
        BY <1>2, <3>1, <3>2, <3>3, <3>4, <3>5, <3>6 DEF Events
    <2> QED BY <2>3 DEF Stream!Next
  <1> HIDE DEF now, t
  <1>9. Reads(View(now), t)
    <2> DEFINE rest == [i \in 1 .. n |-> tr[i + 1]]
    <2>1. rest \in [1 .. n -> Views] /\ \A i \in 1 .. n : rest[i] = tr[i + 1]
      BY <1>2, <1>7
    <2> HIDE DEF rest
    <2>2. rest[1] = View(now) /\ n - 1 + 1 = n /\ n \in 1 .. n
      <3>1. 1 \in 1 .. n /\ n \in 1 .. n /\ n - 1 + 1 = n
        BY <1>2
      <3>2. tr[1 + 1] = Told(tr[1], q[1])
        BY <1>7, <3>1
      <3> QED BY <1>2, <1>5, <1>7, <2>1, <3>1, <3>2
    <2>3. ASSUME NEW i \in 1 .. n - 1
          PROVE  MayFollow(rest[i], Tail(q)[i])
                 /\ rest[i + 1] = Told(rest[i], Tail(q)[i])
      <3>1. i \in 1 .. n /\ i + 1 \in 1 .. n /\ i + 1 + 1 \in 1 .. n + 1
        BY <1>2, <2>3
      <3> QED BY <1>2, <1>7, <2>1, <3>1
    <2>4. rest \in Readings(View(now), Tail(q))
      BY <1>2, <2>1, <2>2, <2>3 DEF Readings
    <2>5. Agrees(rest[n], t)
      BY <1>3, <1>6, <2>1, <2>2 DEF Agrees
    <2> QED BY <1>2, <1>3, <2>2, <2>4, <2>5 DEF Reads
  <1>10. Stamped(t)
    BY <1>1, <1>3 DEF Stamped
  <1>11. /\ endpoint'[p] = t /\ seen'[p] = now
         /\ seen' \in [Peers -> Seens]
         /\ \A r \in Peers : r # p =>
                endpoint'[r] = endpoint[r] /\ seen'[r] = seen[r]
    BY <1>4, <1>5 DEF EInv, IInv
  <1>12. EInv'
    BY <1>4, <1>9, <1>10, <1>11 DEF EInv
  <1> QED BY <1>8, <1>12

\* Time passes.
LEMMA TickReads ==
    ASSUME EInv, IInv', Tick
    PROVE  EInv' /\ seen' = seen
  <1>1. network' = network /\ seen' = seen
    BY DEF Tick
  <1>2. ASSUME NEW p \in Peers
        PROVE  Stamped(endpoint'[p]) /\ Reads(View(seen[p]), endpoint'[p])
    <2>1. endpoint'[p] \in {endpoint[p], Age(endpoint[p])}
      BY DEF Tick
    <2>2. /\ Good(endpoint[p], next_frame[p]) /\ seen[p] \in Seens
          /\ Stamped(endpoint[p]) /\ Reads(View(seen[p]), endpoint[p])
      BY DEF EInv, IInv
    <2>3. Follows(endpoint[p], Age(endpoint[p]))
      BY <2>2, AgeFollows
    <2> QED BY <2>1, <2>2, <2>3, ViewTyped DEF Follows
  <1> QED BY <1>1, <1>2 DEF EInv

\* Every step keeps the reading and tells what EndpointEvents allows.
LEMMA NextReads ==
    ASSUME EInv, [Next]_vars
    PROVE  EInv' /\ [Stream!Next]_seen
  <1>1. IInv'
    BY NextPreserves DEF EInv
  <1>2. CASE UNCHANGED vars
    BY <1>1, <1>2 DEF vars, EInv
  <1>3. CASE Deliver
    BY <1>1, <1>3, CallsRead DEF Deliver
  <1>4. CASE \E p \in Peers : \/ AddRemotePlayer(p) \/ Poll(p)
                              \/ AddLocalInput(p) \/ DisconnectPlayer(p)
    BY <1>1, <1>4, CallsRead
  <1>5. CASE \E p \in Peers : GetEvent(p)
    BY <1>1, <1>5, GetEventReads
  <1>6. CASE \E mail \in network : Lose(mail)
    BY <1>1, <1>6 DEF Lose, EInv
  <1>7. CASE Tick
    BY <1>1, <1>7, TickReads
  <1> QED
    BY <1>2, <1>3, <1>4, <1>5, <1>6, <1>7 DEF Next, Otherwise

\* The backend of each peer gets the events in an order that EndpointEvents
\* allows, whatever is lost, duplicated or late
\* (UdpProtoSpec!EventsAreInOrder).  No peer draws 0 here, though
\* UdpProtocol::init may (313): an endpoint that has not heard of such a peer
\* would take its Input message and could end the connection first.
THEOREM EventsInOrder ==
    ASSUME \A p \in Peers : Magic[p] # 0
    PROVE  Spec => EventsAreInOrder
  <1>1. Init => EInv
    BY InitReads
  <1>2. EInv /\ [Next]_vars => EInv' /\ [Stream!Next]_seen
    BY NextReads
  <1>3. Init => Stream!Init
    BY DEF Init, Stream!Init
  <1> QED BY <1>1, <1>2, <1>3, PTL DEF Spec, EventsAreInOrder, Stream!Spec

-----------------------------------------------------------------------------
(* Long handshakes.  This needs nothing of the magic numbers.              *)

\* No backend was told that an endpoint synchronized.
Unsynchronized ==
    /\ seen \in [Peers -> Seens]
    /\ NumSyncPackets > 1 =>
            \A p \in Peers : seen[p].stage # "synchronized"

\* An event that is not Synchronized does not tell of it.
LEMMA ToldUnsynchronized ==
    ASSUME NEW s \in Seens, NEW event \in Events, NEW k \in {0, 1},
           s.stage # "synchronized", event # "Synchronized"
    PROVE  [Told(s, event) EXCEPT !.parity = 1 - k].stage # "synchronized"
  <1>1. Told(s, event) \in Seens
    BY ToldSeen
  <1>2. Told(s, event).stage # "synchronized"
    BY DEF Told, Events, Seens
  <1> QED BY <1>1, <1>2 DEF Seens

\* The backend takes an event, which is not Synchronized after all.
LEMMA GetEventUnsynchronized ==
    ASSUME IInv, Unsynchronized, NEW p \in Peers, GetEvent(p)
    PROVE  Unsynchronized'
  <1> DEFINE q == endpoint[p].event_queue
             s == seen[p]
             now == [Told(s, Head(q)) EXCEPT !.parity = 1 - s.parity]
  <1>1. /\ endpoint[p] \in Endpoints /\ Untold(endpoint[p])
        /\ s \in Seens /\ seen \in [Peers -> Seens]
    BY DEF IInv, Good, Unsynchronized
  <1>2. q \in Seq(Events) /\ q # <<>>
    BY <1>1 DEF Endpoints, GetEvent
  <1>3. /\ Head(q) \in Events /\ Head(q) = q[1] /\ 1 \in 1 .. Len(q)
        /\ s.parity \in {0, 1}
    BY <1>1, <1>2 DEF Seens
  <1>4. now \in Seens
    BY <1>1, <1>3, ToldSeen, CountedSeen
  <1>5. seen' = [seen EXCEPT ![p] = now]
    BY DEF GetEvent
  <1>6. ASSUME NumSyncPackets > 1 PROVE now.stage # "synchronized"
    <2>1. Head(q) # "Synchronized" /\ s.stage # "synchronized"
      BY <1>1, <1>3, <1>6 DEF Untold, Unsynchronized
    <2> QED BY <1>1, <1>3, <2>1, ToldUnsynchronized
  <1> HIDE DEF now
  <1> QED BY <1>1, <1>4, <1>5, <1>6 DEF Unsynchronized

\* Every step keeps it so.
LEMMA NextUnsynchronized ==
    ASSUME IInv, Unsynchronized, [Next]_vars
    PROVE  Unsynchronized'
  <1>1. seen' = seen \/ \E p \in Peers : GetEvent(p)
    BY DEF Next, Deliver, Otherwise, vars, AddRemotePlayer, Receive, Poll,
           AddLocalInput, DisconnectPlayer, Lose, Tick
  <1> QED BY <1>1, GetEventUnsynchronized DEF Unsynchronized

\* No handshake of more than one round trip ends, for any of the numbers of
\* round trips and whatever the network does
\* (UdpProtoSpec!LongHandshakesNeverEnd).
THEOREM LongHandshakes == Spec => []LongHandshakesNeverEnd
  <1>1. Init => Unsynchronized
    BY DEF Init, Unsynchronized, Stream!NothingSeen, Seens, Stages
  <1>2. IInv /\ Unsynchronized /\ [Next]_vars => Unsynchronized'
    BY NextUnsynchronized
  <1>3. IInv /\ Unsynchronized => LongHandshakesNeverEnd
    BY DEF IInv, Good, Handshake, Unsynchronized, LongHandshakesNeverEnd
  <1> QED BY <1>1, <1>2, <1>3, Invariant, PTL DEF Spec
=============================================================================
