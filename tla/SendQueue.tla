----------------------------- MODULE SendQueue -----------------------------
(***************************************************************************)
(* The way of a message from an endpoint to the socket: send_queue and     *)
(* oo_packet of the struct UdpProtocol (src/ggpo/src/network/udp_proto.rs, *)
(* send_msg and pump_send_queue).                                          *)
(*                                                                         *)
(* For tests, the environment variables ggpo.network.delay and             *)
(* ggpo.oop.percent delay every message and set one aside now and then,    *)
(* the rogue, to be sent after later ones.                                 *)
(*                                                                         *)
(* A message is its sequence number, an entry's age the milliseconds since *)
(* its queue_time, counted no further than the longest delay.  A method    *)
(* returns the set of outcomes that the random numbers, the socket and the *)
(* clock may bring about: the queue it leaves and whether it returns Ok.   *)
(***************************************************************************)
EXTENDS Naturals, Sequences, SequencesExt

CONSTANTS
    Delays,         \* what the normal distribution around send_latency draws,
                    \* {0} when send_latency is 0
    OopPercent      \* oop_percent

ASSUME SendQueueAssumption ==
    /\ Delays \in SUBSET Nat
    /\ Delays # {}
    /\ \E longest \in Delays : \A d \in Delays : d <= longest
    /\ OopPercent \in Nat

LongestDelay == CHOOSE longest \in Delays : \A d \in Delays : d <= longest
Ages == 0 .. LongestDelay

\* The rogue's age only matters as later than send_time or not.
NoRogue == [seq |-> 0, later |-> FALSE]

Entries == [seq : Nat, age : Ages]
Queues == [udp : BOOLEAN, next_send_seq : Nat, send_queue : Seq(Entries),
           oo_packet : [seq : Nat, later : BOOLEAN],
           sent : Seq(Nat), set_aside : SUBSET Nat]

\* `sent` and `set_aside` are histories: what the socket took, in that order,
\* and what was ever a rogue.
NewQueue ==
    [udp |-> FALSE, next_send_seq |-> 0, send_queue |-> <<>>,
     oo_packet |-> NoRogue, sent |-> <<>>, set_aside |-> {}]

Outcomes(queues, ok) == {[queue |-> q, ok |-> ok] : q \in queues}

-----------------------------------------------------------------------------
(* pump_send_queue *)

MayGo(entry) == \E d \in Delays : entry.age >= d
MayWait(entry) == \E d \in Delays : entry.age < d

MayBecomeRogue(q) == OopPercent > 0 /\ q.oo_packet = NoRogue
MayBeSent(q) == OopPercent < 100 \/ q.oo_packet # NoRogue

\* Mutant: a rogue that waits already is replaced.
LoopsOverTheRogue(q, n, r) ==
    /\ r <= n
    /\ \A i \in 1 .. n : MayGo(q.send_queue[i])
    /\ r # 0 => OopPercent > 0
    /\ n > (IF r = 0 THEN 0 ELSE 1) => q.udp
    /\ r # 1 /\ n > 0 => MayBeSent(q)

\* The loop may pop the first n entries and make the r-th the rogue (no one
\* when r is 0), with a socket that takes all the others.
Loops(q, n, r) ==
    /\ r <= n
    /\ \A i \in 1 .. n : MayGo(q.send_queue[i])
    /\ r # 0 => MayBecomeRogue(q)
    /\ n > (IF r = 0 THEN 0 ELSE 1) => q.udp
    /\ r # 1 /\ n > 0 => MayBeSent(q)

AfterLoop(q, n, r) ==
    LET popped == [i \in 1 .. n |-> q.send_queue[i].seq]
        rest == SubSeq(q.send_queue, n + 1, Len(q.send_queue))
    IN IF r = 0
       THEN [q EXCEPT !.send_queue = rest, !.sent = @ \o popped]
       ELSE [q EXCEPT !.send_queue = rest,
                      !.oo_packet = [seq |-> popped[r], later |-> FALSE],
                      !.set_aside = @ \cup {popped[r]},
                      !.sent = @ \o RemoveAt(popped, r)]

\* The loop ends at an entry that must wait, or when none is left ...
LoopEnds(q) == q.send_queue = <<>> \/ MayWait(Head(q.send_queue))

\* ... or the socket refuses an entry, which stays in the queue.
LoopFails(q) ==
    /\ q.send_queue # <<>>
    /\ MayGo(Head(q.send_queue))
    /\ MayBeSent(q)

\* Mutant: the rogue is sent and kept.
RogueSentAndKept(q) == [q EXCEPT !.sent = Append(@, q.oo_packet.seq)]

RogueSent(q) ==
    [q EXCEPT !.sent = Append(@, q.oo_packet.seq), !.oo_packet = NoRogue]

\* A rogue is sent a millisecond after it was set aside, at the earliest.  The
\* delay drawn for it is only logged.  The clock may move during the call.
PumpRogue(q) ==
    IF q.oo_packet = NoRogue THEN Outcomes({q}, TRUE)
    ELSE Outcomes({RogueSent(x) : x \in {y \in {q} : y.udp}}, TRUE)
            \cup Outcomes({q}, FALSE)
            \cup Outcomes({x \in {q} : ~x.oo_packet.later}, TRUE)

\* Mutant: a rogue is not looked for when the queue is empty.
PumpSendQueueUnlessEmpty(q) ==
    IF q.send_queue = <<>> THEN Outcomes({q}, TRUE)
    ELSE LET after == {AfterLoop(q, l[1], l[2]) :
                        l \in {k \in (0 .. Len(q.send_queue))
                                        \X (0 .. Len(q.send_queue)) :
                                Loops(q, k[1], k[2])}}
         IN Outcomes({a \in after : LoopFails(a)}, FALSE)
                \cup UNION {PumpRogue(a) : a \in {b \in after : LoopEnds(b)}}

PumpSendQueue(q) ==
    LET lengths == 0 .. Len(q.send_queue)
        after == {AfterLoop(q, l[1], l[2]) :
                    l \in {k \in lengths \X lengths : Loops(q, k[1], k[2])}}
    IN Outcomes({a \in after : LoopFails(a)}, FALSE)
            \cup UNION {PumpRogue(a) : a \in {b \in after : LoopEnds(b)}}

-----------------------------------------------------------------------------
(* send_msg *)

\* Mutant: the new message is put in front.
EnqueuedInFront(q) ==
    [q EXCEPT !.next_send_seq = @ + 1,
              !.send_queue = <<[seq |-> q.next_send_seq + 1, age |-> 0]>> \o @]

Enqueued(q) ==
    [q EXCEPT !.next_send_seq = @ + 1,
              !.send_queue = Append(@, [seq |-> q.next_send_seq + 1,
                                        age |-> 0])]

SendMsg(q) == PumpSendQueue(Enqueued(q))

\* A message more, unless the method returned with an error before.
ThenSend(outcomes) ==
    outcomes \cup UNION {SendMsg(o.queue) : o \in {x \in outcomes : x.ok}}

\* on_loop_poll pumps first.  A running endpoint may resend its input and
\* report its quality after that.
Polled(q, sends) == IF sends THEN ThenSend(ThenSend(PumpSendQueue(q)))
                    ELSE PumpSendQueue(q)

ShutDown(q) == [q EXCEPT !.udp = FALSE]

Older(entry) ==
    [entry EXCEPT !.age = IF @ = LongestDelay THEN @ ELSE @ + 1]

\* The clock moves on by a millisecond.
Age(q) ==
    [q EXCEPT !.send_queue = [i \in DOMAIN @ |-> Older(@[i])],
              !.oo_packet = IF @ = NoRogue THEN @
                            ELSE [@ EXCEPT !.later = TRUE]]
=============================================================================
