--------------------------- MODULE SendQueueSpec ---------------------------
(***************************************************************************)
(* The send queue of one endpoint over its connections: attached and       *)
(* synchronized, sending and polled, disconnected, shut down, and attached *)
(* again.  Nothing empties the queue: clear_send_queue is never called.    *)
(***************************************************************************)
EXTENDS SendQueue

CONSTANT MaxMessages    \* bound: the messages an endpoint sends

ASSUME MaxMessagesAssumption == MaxMessages \in Nat

VARIABLES
    queue,          \* the send queue
    disconnected    \* whether the endpoint's state is Disconnected

vars == <<queue, disconnected>>

Init == queue = NewQueue /\ disconnected = FALSE

WithinBound(outcomes) ==
    {o \in outcomes : o.queue.next_send_seq <= MaxMessages}

-----------------------------------------------------------------------------

\* init and synchronize: the first time, or over again.
AddRemotePlayer ==
    /\ \E o \in WithinBound(SendMsg([queue EXCEPT !.udp = TRUE])) :
            queue' = o.queue
    /\ disconnected' = FALSE

\* The game's input, or the answer to a message.
Send ==
    /\ queue.udp
    /\ \E o \in WithinBound(SendMsg(queue)) : queue' = o.queue
    /\ UNCHANGED disconnected

\* A poll that meets no error ends the connection when its time has come.
Poll ==
    /\ queue.udp
    /\ \E o \in WithinBound(Polled(queue, ~disconnected)) :
        \/ queue' = o.queue
        \/ disconnected /\ o.ok /\ queue' = ShutDown(o.queue)
    /\ UNCHANGED disconnected

Disconnect ==
    /\ queue.udp
    /\ disconnected' = TRUE
    /\ UNCHANGED queue

Tick == queue' = Age(queue) /\ UNCHANGED disconnected

Next == AddRemotePlayer \/ Send \/ Poll \/ Disconnect \/ Tick

Spec == Init /\ [][Next]_vars

\* Time passes, the game loop polls, and the socket does not refuse every
\* datagram it is given for ever.
PollSucceeds ==
    /\ queue.udp
    /\ \E o \in {x \in WithinBound(Polled(queue, ~disconnected)) : x.ok} :
            queue' = o.queue
    /\ UNCHANGED disconnected

FairSpec == Spec /\ WF_vars(Tick) /\ WF_vars(PollSucceeds)

-----------------------------------------------------------------------------
(* Properties *)

Queued == {queue.send_queue[i].seq : i \in DOMAIN queue.send_queue}
Rogue == {queue.oo_packet.seq} \ {0}

\* The queue holds the newest messages, in their order.
TypeOK ==
    /\ queue \in Queues
    /\ disconnected \in BOOLEAN
    /\ \A i \in DOMAIN queue.send_queue :
        queue.send_queue[i].seq =
            queue.next_send_seq - Len(queue.send_queue) + i

(***************************************************************************)
(* Whatever the delays drawn, the sockets' errors and the shutdowns, no    *)
(* message is given to the socket twice, and a message is overtaken by     *)
(* later ones only if it was set aside as the rogue: a delay drawn shorter *)
(* than that of the entry before gains nothing (1127-1177).                *)
(***************************************************************************)
OnlyRoguesAreOvertaken ==
    \A i \in DOMAIN queue.sent : \A j \in 1 .. i - 1 :
        /\ queue.sent[i] # queue.sent[j]
        /\ queue.sent[i] < queue.sent[j] => queue.sent[i] \in queue.set_aside

(***************************************************************************)
(* The send queue delays and reorders, and does nothing else: a message    *)
(* that an error or a shutdown keeps from the socket stays, and no rogue   *)
(* takes the place of another.                                             *)
(***************************************************************************)
Channel ==
    INSTANCE Medium WITH
        Messages <- Nat \ {0},
        inside <- Queued \cup Rogue,
        outside <- ToSet(queue.sent)
IsAMedium == Channel!Spec

(***************************************************************************)
(* A message leaves in the end, the rogue too when nothing follows it,     *)
(* unless the connection is shut down before.                              *)
(***************************************************************************)
EveryMessageLeaves ==
    \A m \in 1 .. MaxMessages :
        m \in Queued \cup Rogue ~> m \in ToSet(queue.sent) \/ ~queue.udp
=============================================================================
