-------------------------- MODULE SendQueue_proofs --------------------------
(***************************************************************************)
(* Proofs about SendQueueSpec, for every set of delays, every percentage   *)
(* of rogues and every number of messages.                                 *)
(***************************************************************************)
EXTENDS SendQueueSpec, Integers, TLAPS

USE SendQueueAssumption, MaxMessagesAssumption

\* The newest message that left the queue, for the socket or as the rogue.
Base(q) == q.next_send_seq - Len(q.send_queue)

(***************************************************************************)
(* The queue holds the messages after Base in their order, and the others  *)
(* are the rogue or were sent, each once.  What was sent after a later     *)
(* message was the rogue.                                                  *)
(***************************************************************************)
Good(q) ==
    /\ q \in Queues
    /\ Len(q.send_queue) <= q.next_send_seq
    /\ \A i \in 1 .. Len(q.send_queue) : q.send_queue[i].seq = Base(q) + i
    /\ q.oo_packet.seq \in 0 .. Base(q)
    /\ q.oo_packet.seq = 0 => q.oo_packet = NoRogue
    /\ q.oo_packet.seq # 0 => q.oo_packet.seq \in q.set_aside
    /\ \A i \in 1 .. Len(q.sent) :
        /\ q.sent[i] \in 1 .. Base(q)
        /\ q.sent[i] # q.oo_packet.seq
    /\ \A i \in 1 .. Len(q.sent) : \A j \in 1 .. i - 1 :
        /\ q.sent[i] # q.sent[j]
        /\ q.sent[i] < q.sent[j] => q.sent[i] \in q.set_aside

IInv == Good(queue) /\ disconnected \in BOOLEAN

\* What is in the queue and what has left it.
Inside(q) ==
    {q.send_queue[i].seq : i \in DOMAIN q.send_queue}
        \cup ({q.oo_packet.seq} \ {0})
Outside(q) == ToSet(q.sent)

\* A method may not lose what was there nor take back what was sent.
Flows(q, t) ==
    /\ Good(t)
    /\ Inside(q) \cup Outside(q) \subseteq Inside(t) \cup Outside(t)
    /\ Outside(q) \subseteq Outside(t)

\* One method after another.
LEMMA FlowsTransitive ==
    ASSUME NEW q, NEW t, NEW u, Flows(q, t), Flows(t, u)
    PROVE  Flows(q, u)
  BY DEF Flows

\* A method that does nothing.
LEMMA FlowsSame ==
    ASSUME NEW q, Good(q)
    PROVE  Flows(q, q)
  BY DEF Flows

(***************************************************************************)
(* Inside and Outside in terms of the numbers up to which a queue got:     *)
(* what is inside are the rogue and the numbers after Base.                *)
(***************************************************************************)
LEMMA WhatIsInside ==
    ASSUME NEW q, Good(q)
    PROVE  /\ Base(q) \in Nat /\ q.next_send_seq \in Nat
           /\ Base(q) <= q.next_send_seq
           /\ Inside(q) = (Base(q) + 1 .. q.next_send_seq)
                                \cup ({q.oo_packet.seq} \ {0})
           /\ Outside(q) \subseteq 1 .. Base(q)
           /\ q.oo_packet.seq \notin Outside(q)
  <1>1. /\ q.next_send_seq \in Nat /\ q.send_queue \in Seq(Entries)
        /\ q.sent \in Seq(Nat) /\ q.oo_packet.seq \in Nat
    BY DEF Good, Queues
  <1>2. /\ Len(q.send_queue) \in Nat
        /\ DOMAIN q.send_queue = 1 .. Len(q.send_queue)
        /\ DOMAIN q.sent = 1 .. Len(q.sent)
    BY <1>1
  <1>3. Base(q) \in Nat /\ Base(q) + Len(q.send_queue) = q.next_send_seq
    BY <1>1, <1>2 DEF Good, Base
  <1>4. {q.send_queue[i].seq : i \in DOMAIN q.send_queue}
            = Base(q) + 1 .. q.next_send_seq
    <2>1. ASSUME NEW i \in DOMAIN q.send_queue
          PROVE  q.send_queue[i].seq \in Base(q) + 1 .. q.next_send_seq
      <3>1. q.send_queue[i].seq = Base(q) + i
        BY <1>2 DEF Good
      <3> QED BY <1>1, <1>2, <1>3, <3>1
    <2>2. ASSUME NEW m \in Base(q) + 1 .. q.next_send_seq
          PROVE  \E i \in DOMAIN q.send_queue : q.send_queue[i].seq = m
      <3>1. m - Base(q) \in 1 .. Len(q.send_queue)
            /\ Base(q) + (m - Base(q)) = m
        BY <1>1, <1>2, <1>3
      <3>2. q.send_queue[m - Base(q)].seq = Base(q) + (m - Base(q))
        BY <3>1 DEF Good
      <3> QED BY <1>2, <3>1, <3>2
    <2> QED BY <2>1, <2>2
  <1>5. Outside(q) \subseteq 1 .. Base(q) /\ q.oo_packet.seq \notin Outside(q)
    BY <1>2 DEF Outside, ToSet, Good
  <1> QED BY <1>1, <1>2, <1>3, <1>4, <1>5 DEF Inside

\* A message more at the end of the queue.
LEMMA EnqueuedFlows ==
    ASSUME NEW q, Good(q)
    PROVE  Flows(q, Enqueued(q))
  <1> DEFINE entry == [seq |-> q.next_send_seq + 1, age |-> 0]
             longer == Append(q.send_queue, entry)
             t == [q EXCEPT !.next_send_seq = q.next_send_seq + 1,
                            !.send_queue = longer]
  <1>1. /\ q \in Queues /\ q.next_send_seq \in Nat
        /\ q.send_queue \in Seq(Entries)
    BY DEF Good, Queues
  <1>2. entry \in Entries
    <2>1. 0 \in Ages
      <3>1. PICK longest \in Delays : \A d \in Delays : d <= longest
        BY DEF SendQueueAssumption
      <3>2. LongestDelay \in Delays
        BY <3>1 DEF LongestDelay
      <3> QED BY <3>2 DEF Ages
    <2> QED BY <1>1, <2>1 DEF Entries
  <1>3. /\ longer \in Seq(Entries) /\ Len(longer) = Len(q.send_queue) + 1
        /\ \A i \in 1 .. Len(q.send_queue) : longer[i] = q.send_queue[i]
        /\ longer[Len(q.send_queue) + 1].seq = q.next_send_seq + 1
    BY <1>1, <1>2
  <1>4. Enqueued(q) = t
    BY DEF Enqueued
  <1> HIDE DEF longer
  <1>5. /\ t \in Queues /\ t.next_send_seq = q.next_send_seq + 1
        /\ t.send_queue = longer /\ t.oo_packet = q.oo_packet
        /\ t.sent = q.sent /\ t.set_aside = q.set_aside
    <2> DEFINE next == q.next_send_seq + 1
    <2>1. next \in Nat
      BY <1>1
    <2> HIDE DEF next
    <2>2. [q EXCEPT !.next_send_seq = next, !.send_queue = longer] \in Queues
      BY <1>1, <1>3, <2>1 DEF Queues
    <2> QED BY <1>1, <2>2 DEF Queues, next
  <1> HIDE DEF t
  <1>6. /\ Base(q) \in Nat /\ Base(q) <= q.next_send_seq
        /\ Base(q) + Len(q.send_queue) = q.next_send_seq
        /\ Len(q.send_queue) \in Nat
    BY <1>1, WhatIsInside DEF Base
  <1>7. Base(t) = Base(q)
    <2> DEFINE k == Len(q.send_queue)
               m == q.next_send_seq
    <2>1. k \in Nat /\ m \in Nat
      BY <1>1, <1>6
    <2>2. Base(t) = (m + 1) - (k + 1) /\ Base(q) = m - k
      BY <1>3, <1>5 DEF Base
    <2> HIDE DEF k, m
    <2> QED BY <2>1, <2>2
  <1>8. ASSUME NEW i \in 1 .. Len(longer)
        PROVE  longer[i].seq = Base(q) + i
    <2>1. CASE i = Len(q.send_queue) + 1
      BY <1>1, <1>3, <1>6, <2>1
    <2>2. CASE i # Len(q.send_queue) + 1
      <3>1. i \in 1 .. Len(q.send_queue)
        BY <1>3, <1>6, <2>2
      <3> QED BY <1>3, <3>1 DEF Good
    <2> QED BY <2>1, <2>2
  <1>9. Len(longer) <= q.next_send_seq + 1
    BY <1>1, <1>3, <1>6
  <1>10. Good(t)
    BY <1>5, <1>7, <1>8, <1>9 DEF Good
  <1>11. Outside(t) = Outside(q) /\ Inside(q) \subseteq Inside(t)
    BY <1>1, <1>5, <1>6, <1>7, <1>10, WhatIsInside DEF Outside
  <1> QED BY <1>4, <1>10, <1>11 DEF Flows

\* A greater number is another one and not a smaller one.
LEMMA Greater ==
    ASSUME NEW x \in Int, NEW y \in Int, y < x
    PROVE  x # y /\ ~(x < y)
  OBVIOUS

\* One sequence after another.
LEMMA Concatenation ==
    ASSUME NEW S, NEW f \in Seq(S), NEW g \in Seq(S)
    PROVE  /\ f \o g \in Seq(S) /\ Len(f \o g) = Len(f) + Len(g)
           /\ \A i \in 1 .. Len(f) : (f \o g)[i] = f[i]
           /\ \A i \in 1 .. Len(g) : (f \o g)[Len(f) + i] = g[i]
  OBVIOUS

\* What is left of a sequence when its first n elements are taken.
LEMMA TakenFromTheFront ==
    ASSUME NEW S, NEW f \in Seq(S), NEW n \in 0 .. Len(f)
    PROVE  LET rest == SubSeq(f, n + 1, Len(f)) IN
           /\ rest \in Seq(S) /\ Len(rest) = Len(f) - n
           /\ \A i \in 1 .. Len(f) - n : rest[i] = f[n + i]
  OBVIOUS

(***************************************************************************)
(* The first n entries leave the queue: those of `kept` for the socket,    *)
(* in their order, and at most one other as the rogue.                     *)
(***************************************************************************)
Chosen(q, n, kept, rogue) ==
    /\ \A i \in 1 .. Len(kept) :
        kept[i] \in Base(q) + 1 .. Base(q) + n /\ kept[i] # rogue.seq
    /\ \A i \in 1 .. Len(kept) : \A j \in 1 .. i - 1 : kept[j] < kept[i]
    /\ \A m \in Base(q) + 1 .. Base(q) + n :
        m = rogue.seq \/ \E i \in 1 .. Len(kept) : kept[i] = m
    /\ \/ rogue = q.oo_packet
       \/ q.oo_packet.seq = 0 /\ rogue.seq \in Base(q) + 1 .. Base(q) + n

Popped(q, n, kept, rogue, aside) ==
    [q EXCEPT !.send_queue = SubSeq(q.send_queue, n + 1, Len(q.send_queue)),
              !.oo_packet = rogue, !.set_aside = aside,
              !.sent = q.sent \o kept]

\* The fields of a queue, for the steps below.
LEMMA Fields ==
    ASSUME NEW q, Good(q)
    PROVE  /\ q \in Queues /\ q.next_send_seq \in Nat
           /\ q.send_queue \in Seq(Entries) /\ q.sent \in Seq(Nat)
           /\ q.oo_packet \in [seq : Nat, later : BOOLEAN]
           /\ q.set_aside \in SUBSET Nat /\ q.udp \in BOOLEAN
           /\ Len(q.send_queue) \in Nat /\ Base(q) \in Nat
           /\ Base(q) + Len(q.send_queue) = q.next_send_seq
  <1>1. /\ q \in Queues /\ q.next_send_seq \in Nat
        /\ q.send_queue \in Seq(Entries) /\ q.sent \in Seq(Nat)
        /\ q.oo_packet \in [seq : Nat, later : BOOLEAN]
        /\ q.set_aside \in SUBSET Nat /\ q.udp \in BOOLEAN
    BY DEF Good, Queues
  <1>2. Len(q.send_queue) \in Nat /\ Len(q.send_queue) <= q.next_send_seq
    BY <1>1 DEF Good
  <1> QED BY <1>1, <1>2 DEF Base

\* What is sent after the pop: each message once, and only a rogue after a
\* later one.
LEMMA PoppedSent ==
    ASSUME NEW q, Good(q), NEW n \in 0 .. Len(q.send_queue),
           NEW kept \in Seq(Nat), NEW rogue, rogue.seq \in Nat,
           Chosen(q, n, kept, rogue), NEW all, all = q.sent \o kept
    PROVE  /\ \A i \in 1 .. Len(all) :
                all[i] \in 1 .. Base(q) + n /\ all[i] # rogue.seq
           /\ \A i \in 1 .. Len(all) : \A j \in 1 .. i - 1 :
                /\ all[i] # all[j]
                /\ all[i] < all[j] => all[i] \in q.set_aside
  <1> DEFINE b == Base(q)
             l == Len(q.sent)
             k == Len(kept)
             Old(i) == i \in 1 .. l /\ all[i] = q.sent[i] /\ all[i] \in 1 .. b
             New(i) == /\ i - l \in 1 .. k /\ all[i] = kept[i - l]
                       /\ all[i] \in b + 1 .. b + n
  <1>1. l \in Nat /\ k \in Nat /\ n \in Nat /\ b \in Nat /\ q.sent \in Seq(Nat)
    BY Fields
  <1>2. /\ Len(all) = l + k
        /\ \A i \in 1 .. l : all[i] = q.sent[i]
        /\ \A i \in 1 .. k : all[l + i] = kept[i]
    BY <1>1, Concatenation
  <1>3. /\ \A i \in 1 .. l : q.sent[i] \in 1 .. b
                             /\ q.sent[i] # q.oo_packet.seq
        /\ q.oo_packet.seq \in 0 .. b
    BY DEF Good
  <1>4. \A i \in 1 .. k : kept[i] \in b + 1 .. b + n /\ kept[i] # rogue.seq
    BY DEF Chosen
  <1> HIDE DEF b, l, k
  <1>5. ASSUME NEW i \in 1 .. Len(all)
        PROVE  Old(i) \/ New(i)
    <2>1. CASE i \in 1 .. l
      BY <1>2, <1>3, <2>1
    <2>2. CASE i \notin 1 .. l
      <3>1. i \in Int /\ i <= l + k /\ i > l
        BY <1>1, <1>2, <2>2
      <3>2. i - l \in 1 .. k /\ l + (i - l) = i
        BY <1>1, <3>1
      <3> QED BY <1>2, <1>4, <3>2
    <2> QED BY <2>1, <2>2
  <1>6. ASSUME NEW i \in 1 .. Len(all)
        PROVE  all[i] \in 1 .. b + n /\ all[i] # rogue.seq
    <2>1. CASE Old(i)
      <3>1. all[i] \in 1 .. b + n
        <4> DEFINE x == all[i]
        <4>1. x \in 1 .. b
          BY <2>1
        <4> HIDE DEF x
        <4>2. x \in 1 .. b + n
          BY <1>1, <4>1
        <4> QED BY <4>2 DEF x
      <3>2. rogue.seq = q.oo_packet.seq \/ rogue.seq \in b + 1 .. b + n
        BY DEF Chosen, b
      <3>3. all[i] # q.oo_packet.seq
        BY <1>3, <2>1
      <3>4. rogue.seq \in b + 1 .. b + n => all[i] # rogue.seq
        <4> DEFINE x == all[i]
                   y == rogue.seq
        <4>1. x \in 1 .. b
          BY <2>1
        <4> HIDE DEF x, y
        <4>2. y \in b + 1 .. b + n => x # y
          BY <1>1, <4>1
        <4> QED BY <4>2 DEF x, y
      <3> QED BY <3>1, <3>2, <3>3, <3>4
    <2>2. CASE New(i)
      <3>1. all[i] \in 1 .. b + n
        BY <1>1, <2>2
      <3> QED BY <1>4, <2>2, <3>1
    <2> QED BY <1>5, <2>1, <2>2
  <1>7. ASSUME NEW i \in 1 .. Len(all), NEW j \in 1 .. i - 1
        PROVE  /\ all[i] # all[j]
               /\ all[i] < all[j] => all[i] \in q.set_aside
    <2>1. j \in 1 .. Len(all) /\ i \in Int /\ j \in Int /\ j < i
      BY <1>1, <1>2
    <2>2. CASE Old(i)
      <3>1. j \in 1 .. l
        BY <1>1, <2>1, <2>2
      <3>2. all[j] = q.sent[j]
        BY <1>2, <3>1
      <3> QED BY <2>2, <3>2 DEF Good, l
    <2>3. CASE New(i) /\ Old(j)
      <3>1. all[j] < all[i] /\ all[i] \in Int /\ all[j] \in Int
        <4> DEFINE x == all[i]
                   y == all[j]
        <4>1. x \in b + 1 .. b + n /\ y \in 1 .. b
          BY <2>3
        <4> HIDE DEF x, y
        <4>2. y < x /\ x \in Int /\ y \in Int
          BY <1>1, <4>1
        <4> QED BY <4>2 DEF x, y
      <3>2. all[i] # all[j] /\ ~(all[i] < all[j])
        BY <3>1, Greater
      <3> QED BY <3>2
    <2>4. CASE New(i) /\ New(j)
      <3>1. j - l \in 1 .. (i - l) - 1
        BY <1>1, <2>1, <2>4
      <3>2. kept[j - l] < kept[i - l]
        BY <2>4, <3>1 DEF Chosen, k
      <3>3. all[j] < all[i] /\ all[i] \in Int /\ all[j] \in Int
        BY <1>1, <2>4, <3>2
      <3>4. all[i] # all[j] /\ ~(all[i] < all[j])
        BY <3>3, Greater
      <3> QED BY <3>4
    <2> QED BY <1>5, <2>1, <2>2, <2>3, <2>4
  <1> QED BY <1>6, <1>7 DEF b

\* The pop as a whole.
LEMMA PoppingFlows ==
    ASSUME NEW q, Good(q), NEW n \in 0 .. Len(q.send_queue),
           NEW kept \in Seq(Nat), NEW rogue \in [seq : Nat, later : BOOLEAN],
           NEW aside \in SUBSET Nat, q.set_aside \subseteq aside,
           Chosen(q, n, kept, rogue), rogue.seq # 0 => rogue.seq \in aside
    PROVE  Flows(q, Popped(q, n, kept, rogue, aside))
  <1> DEFINE b == Base(q)
             k == Len(q.send_queue)
             rest == SubSeq(q.send_queue, n + 1, k)
             all == q.sent \o kept
             t == [q EXCEPT !.send_queue = rest, !.oo_packet = rogue,
                            !.set_aside = aside, !.sent = all]
  <1>1. /\ q \in Queues /\ q.next_send_seq \in Nat
        /\ q.send_queue \in Seq(Entries) /\ q.sent \in Seq(Nat)
        /\ k \in Nat /\ b \in Nat /\ b + k = q.next_send_seq /\ n \in Nat
        /\ n <= k
    BY Fields
  <1>2. /\ rest \in Seq(Entries) /\ Len(rest) = k - n
        /\ \A i \in 1 .. k - n : rest[i] = q.send_queue[n + i]
    BY <1>1, TakenFromTheFront
  <1>3. /\ all \in Seq(Nat) /\ Len(all) = Len(q.sent) + Len(kept)
        /\ \A i \in 1 .. Len(q.sent) : all[i] = q.sent[i]
        /\ \A i \in 1 .. Len(kept) : all[Len(q.sent) + i] = kept[i]
    BY <1>1, Concatenation
  <1>4. Popped(q, n, kept, rogue, aside) = t
    BY DEF Popped
  <1>5. /\ \A i \in 1 .. Len(all) : all[i] \in 1 .. b + n /\ all[i] # rogue.seq
        /\ \A i \in 1 .. Len(all) : \A j \in 1 .. i - 1 :
                /\ all[i] # all[j]
                /\ all[i] < all[j] => all[i] \in q.set_aside
    BY PoppedSent
  <1> HIDE DEF rest, all
  <1>6. /\ t \in Queues /\ t.next_send_seq = q.next_send_seq
        /\ t.send_queue = rest /\ t.oo_packet = rogue
        /\ t.sent = all /\ t.set_aside = aside
    BY <1>1, <1>2, <1>3 DEF Queues
  <1> HIDE DEF t, b, k
  <1>7. Base(t) = b + n /\ Len(rest) <= t.next_send_seq
    BY <1>1, <1>2, <1>6 DEF Base
  <1>8. \A i \in 1 .. k : q.send_queue[i].seq = b + i
    BY DEF Good, b, k
  <1>9. ASSUME NEW i \in 1 .. Len(rest)
        PROVE  rest[i].seq = (b + n) + i
    <2>1. n + i \in 1 .. k /\ i \in 1 .. k - n /\ b + (n + i) = (b + n) + i
      BY <1>1, <1>2
    <2> QED BY <1>2, <1>8, <2>1
  <1>10. rogue.seq \in 0 .. b + n /\ (rogue.seq = 0 => rogue = NoRogue)
    <2>1. CASE rogue = q.oo_packet
      <3>1. rogue.seq \in 0 .. b /\ (rogue.seq = 0 => rogue = NoRogue)
        BY <2>1 DEF Good, b
      <3> QED BY <1>1, <3>1
    <2>2. CASE rogue.seq \in b + 1 .. b + n
      BY <1>1, <2>2
    <2> QED BY <2>1, <2>2 DEF Chosen, b
  <1>11. Good(t)
    BY <1>5, <1>6, <1>7, <1>9, <1>10 DEF Good
  <1>12. DOMAIN q.sent = 1 .. Len(q.sent) /\ DOMAIN all = 1 .. Len(all)
         /\ Len(q.sent) \in Nat /\ Len(kept) \in Nat
    BY <1>1, <1>3
  <1>13. ASSUME NEW i \in 1 .. Len(kept) PROVE kept[i] \in Outside(t)
    <2>1. Len(q.sent) + i \in 1 .. Len(all)
      <3> DEFINE l == Len(q.sent)
      <3>1. Len(all) = l + Len(kept) /\ l \in Nat /\ i \in 1 .. Len(kept)
        BY <1>3, <1>12
      <3> HIDE DEF l
      <3>2. l + i \in 1 .. Len(all)
        BY <1>12, <3>1
      <3> QED BY <3>2 DEF l
    <2> QED BY <1>3, <1>6, <1>12, <2>1 DEF Outside, ToSet
  <1>14. \A m \in b + 1 .. b + n : m = rogue.seq \/ m \in Outside(t)
    BY <1>13 DEF b, Chosen
  <1>15. ASSUME NEW i \in 1 .. Len(q.sent) PROVE q.sent[i] \in Outside(t)
    <2>1. i \in 1 .. Len(all)
      BY <1>3, <1>12
    <2> QED BY <1>3, <1>6, <1>12, <2>1 DEF Outside, ToSet
  <1>16. Outside(q) \subseteq Outside(t)
    BY <1>12, <1>15 DEF Outside, ToSet
  <1>17. ASSUME NEW m \in Inside(q) PROVE m \in Inside(t) \cup Outside(t)
    <2>1. /\ Inside(q) = (b + 1 .. q.next_send_seq)
                            \cup ({q.oo_packet.seq} \ {0})
          /\ Inside(t) = (b + n + 1 .. q.next_send_seq)
                            \cup ({rogue.seq} \ {0})
      BY <1>6, <1>7, <1>11, WhatIsInside DEF b
    <2>2. CASE m \in b + 1 .. q.next_send_seq
      <3>1. m \in b + 1 .. b + n \/ m \in b + n + 1 .. q.next_send_seq
        BY <1>1, <2>2
      <3>2. m # 0
        BY <1>1, <2>2
      <3> QED BY <1>14, <2>1, <3>1, <3>2
    <2>3. CASE m = q.oo_packet.seq /\ m # 0
      BY <2>1, <2>3 DEF Chosen
    <2> QED BY <2>1, <2>2, <2>3
  <1> QED BY <1>4, <1>11, <1>16, <1>17 DEF Flows

\* The loop of pump_send_queue, wherever it stops.
LEMMA AfterLoopFlows ==
    ASSUME NEW q, Good(q), NEW n \in 0 .. Len(q.send_queue),
           NEW r \in 0 .. Len(q.send_queue), Loops(q, n, r)
    PROVE  Flows(q, AfterLoop(q, n, r))
  <1> DEFINE b == Base(q)
             popped == [i \in 1 .. n |-> q.send_queue[i].seq]
             kept == RemoveAt(popped, r)
             rogue == [seq |-> popped[r], later |-> FALSE]
             aside == q.set_aside \cup {popped[r]}
  <1>1. /\ q \in Queues /\ q.send_queue \in Seq(Entries)
        /\ q.oo_packet \in [seq : Nat, later : BOOLEAN]
        /\ q.set_aside \in SUBSET Nat
        /\ n \in Nat /\ r \in Nat /\ r <= n /\ b \in Nat
        /\ Len(q.send_queue) \in Nat
    BY Fields DEF Loops
  <1>2. ASSUME NEW i \in 1 .. n
        PROVE  popped[i] = b + i
    <2>1. i \in 1 .. Len(q.send_queue)
      BY <1>1
    <2> QED BY <2>1 DEF Good
  <1>3. \A i \in 1 .. n : b + i \in Nat
    BY <1>1
  <1>4. popped \in Seq(Nat) /\ Len(popped) = n
    <2>1. \A i \in 1 .. n : q.send_queue[i].seq \in Nat
      BY <1>2, <1>3
    <2>2. popped \in [1 .. n -> Nat]
      BY <2>1
    <2> QED BY <1>1, <2>2
  <1> HIDE DEF popped
  <1>5. CASE r = 0
    <2>1. AfterLoop(q, n, r) = Popped(q, n, popped, q.oo_packet, q.set_aside)
      <3>1. AfterLoop(q, n, r) =
                [q EXCEPT !.send_queue =
                                SubSeq(q.send_queue, n + 1, Len(q.send_queue)),
                          !.sent = q.sent \o popped]
        BY <1>5 DEF AfterLoop, popped
      <3> QED BY <1>1, <3>1 DEF Popped, Queues
    <2>2. Chosen(q, n, popped, q.oo_packet)
      <3>1. ASSUME NEW i \in 1 .. n
            PROVE  popped[i] \in b + 1 .. b + n /\ popped[i] # q.oo_packet.seq
        <4>1. b + i \in b + 1 .. b + n /\ q.oo_packet.seq \in 0 .. b
          BY <1>1 DEF Good
        <4>2. b + i # q.oo_packet.seq
          BY <1>1, <4>1
        <4> QED BY <1>2, <4>1, <4>2
      <3>2. ASSUME NEW i \in 1 .. n, NEW j \in 1 .. i - 1
            PROVE  popped[j] < popped[i]
        <4>1. j \in 1 .. n /\ b + j < b + i
          BY <1>1
        <4> QED BY <1>2, <4>1
      <3>3. ASSUME NEW m \in b + 1 .. b + n
            PROVE  \E i \in 1 .. n : popped[i] = m
        <4>1. m - b \in 1 .. n /\ b + (m - b) = m
          BY <1>1
        <4> QED BY <1>2, <4>1
      <3> QED BY <1>4, <3>1, <3>2, <3>3 DEF Chosen
    <2>3. q.oo_packet.seq # 0 => q.oo_packet.seq \in q.set_aside
      BY DEF Good
    <2> QED BY <1>1, <1>4, <2>1, <2>2, <2>3, PoppingFlows
  <1>6. CASE r # 0
    <2>1. q.oo_packet.seq = 0
      BY <1>6 DEF Loops, MayBecomeRogue, NoRogue
    <2>2. r \in 1 .. n /\ popped[r] = b + r /\ b + r \in b + 1 .. b + n
      BY <1>1, <1>2, <1>6
    <2>3. /\ kept \in Seq(Nat) /\ Len(kept) = n - 1
          /\ \A i \in 1 .. n - 1 :
                kept[i] = IF i < r THEN popped[i] ELSE popped[i + 1]
      <3> DEFINE f == SubSeq(popped, 1, r - 1)
                 g == SubSeq(popped, r + 1, n)
      <3>1. /\ f \in Seq(Nat) /\ Len(f) = r - 1
            /\ \A i \in 1 .. r - 1 : f[i] = popped[i]
        BY <1>1, <1>4, <2>2
      <3>2. /\ g \in Seq(Nat) /\ Len(g) = n - r
            /\ \A i \in 1 .. n - r : g[i] = popped[r + i]
        <4>1. r \in 0 .. Len(popped)
          BY <1>1, <1>4
        <4>2. LET rest == SubSeq(popped, r + 1, Len(popped)) IN
              /\ rest \in Seq(Nat) /\ Len(rest) = Len(popped) - r
              /\ \A i \in 1 .. Len(popped) - r : rest[i] = popped[r + i]
          BY <1>4, <4>1, TakenFromTheFront
        <4> QED BY <1>4, <4>2
      <3>3. kept = f \o g
        BY <1>4 DEF RemoveAt
      <3> HIDE DEF f, g, kept
      <3>4. /\ kept \in Seq(Nat) /\ Len(kept) = Len(f) + Len(g)
            /\ \A i \in 1 .. Len(f) : kept[i] = f[i]
            /\ \A i \in 1 .. Len(g) : kept[Len(f) + i] = g[i]
        <4>1. f \in Seq(Nat) /\ g \in Seq(Nat)
          BY <3>1, <3>2
        <4>2. /\ f \o g \in Seq(Nat) /\ Len(f \o g) = Len(f) + Len(g)
              /\ \A i \in 1 .. Len(f) : (f \o g)[i] = f[i]
              /\ \A i \in 1 .. Len(g) : (f \o g)[Len(f) + i] = g[i]
          BY <4>1
        <4> QED BY <3>3, <4>2
      <3>5. Len(kept) = n - 1
        <4>1. Len(kept) = (r - 1) + (n - r)
          BY <3>1, <3>2, <3>4
        <4>2. (r - 1) + (n - r) = n - 1
          BY <1>1
        <4> QED BY <4>1, <4>2
      <3>6. ASSUME NEW i \in 1 .. n - 1
            PROVE  kept[i] = IF i < r THEN popped[i] ELSE popped[i + 1]
        <4>1. CASE i < r
          <5>1. i \in 1 .. r - 1
            BY <1>1, <4>1
          <5> QED BY <3>1, <3>4, <4>1, <5>1
        <4>2. CASE ~(i < r)
          <5>1. /\ i - (r - 1) \in 1 .. n - r
                /\ r - 1 + (i - (r - 1)) = i
                /\ r + (i - (r - 1)) = i + 1
            BY <1>1, <2>2, <4>2
          <5>2. kept[r - 1 + (i - (r - 1))] = popped[r + (i - (r - 1))]
            BY <3>1, <3>2, <3>4, <5>1
          <5> QED BY <4>2, <5>1, <5>2
        <4> QED BY <4>1, <4>2
      <3> QED BY <3>4, <3>5, <3>6
    <2> HIDE DEF kept
    <2>4. ASSUME NEW i \in 1 .. n - 1
          PROVE  kept[i] = IF i < r THEN b + i ELSE b + (i + 1)
      <3>1. i \in 1 .. n /\ i + 1 \in 1 .. n
        BY <1>1
      <3> QED BY <1>2, <2>3, <3>1
    <2>5. AfterLoop(q, n, r) = Popped(q, n, kept, rogue, aside)
      BY <1>6 DEF AfterLoop, popped, kept, Popped
    <2>6. rogue \in [seq : Nat, later : BOOLEAN] /\ rogue.seq = b + r
          /\ aside \in SUBSET Nat /\ rogue.seq \in aside
          /\ q.set_aside \subseteq aside
      BY <1>1, <2>2
    <2> HIDE DEF rogue, aside
    <2>7. Chosen(q, n, kept, rogue)
      <3>1. ASSUME NEW i \in 1 .. n - 1
            PROVE  kept[i] \in b + 1 .. b + n /\ kept[i] # rogue.seq
        <4>1. i < r => b + i \in b + 1 .. b + n /\ b + i # b + r
          BY <1>1, <2>2
        <4>2. ~(i < r) => b + (i + 1) \in b + 1 .. b + n /\ b + (i + 1) # b + r
          BY <1>1, <2>2
        <4> QED BY <2>4, <2>6, <4>1, <4>2
      <3>2. ASSUME NEW i \in 1 .. n - 1, NEW j \in 1 .. i - 1
            PROVE  kept[j] < kept[i]
        <4>1. j \in 1 .. n - 1 /\ i \in Int /\ j \in Int /\ j < i
          BY <1>1
        <4>2. kept[i] = (IF i < r THEN b + i ELSE b + (i + 1))
              /\ kept[j] = (IF j < r THEN b + j ELSE b + (j + 1))
          BY <2>4, <4>1
        <4> QED BY <1>1, <4>1, <4>2
      <3>3. ASSUME NEW m \in b + 1 .. b + n, m # b + r
            PROVE  \E i \in 1 .. n - 1 : kept[i] = m
        <4>1. CASE m < b + r
          <5>1. m - b \in 1 .. n - 1 /\ m - b < r /\ b + (m - b) = m
            BY <1>1, <2>2, <4>1
          <5> QED BY <2>4, <5>1
        <4>2. CASE m > b + r
          <5>1. /\ m - b - 1 \in 1 .. n - 1 /\ ~(m - b - 1 < r)
                /\ b + (m - b - 1 + 1) = m
            <6>1. r \in Nat /\ r >= 1 /\ m \in Int /\ m <= b + n
              BY <1>1, <2>2
            <6> QED BY <1>1, <4>2, <6>1
          <5> QED BY <2>4, <5>1
        <4>3. m < b + r \/ m > b + r
          BY <1>1, <3>3
        <4> QED BY <4>1, <4>2, <4>3
      <3> QED BY <2>1, <2>2, <2>3, <2>6, <3>1, <3>2, <3>3 DEF Chosen
    <2> QED BY <2>3, <2>5, <2>6, <2>7, PoppingFlows
  <1> QED BY <1>5, <1>6

\* The rogue is sent.
LEMMA RogueSentFlows ==
    ASSUME NEW q, Good(q), q.oo_packet # NoRogue
    PROVE  Flows(q, RogueSent(q))
  <1> DEFINE m == q.oo_packet.seq
             all == Append(q.sent, m)
             t == [q EXCEPT !.sent = all, !.oo_packet = NoRogue]
             l == Len(q.sent)
  <1>1. /\ q \in Queues /\ q.sent \in Seq(Nat) /\ m \in Nat /\ l \in Nat
        /\ Base(q) \in Nat
    BY Fields
  <1>2. m # 0 /\ m \in q.set_aside /\ m \in 1 .. Base(q)
    BY <1>1 DEF Good
  <1>3. /\ all \in Seq(Nat) /\ Len(all) = l + 1 /\ all[l + 1] = m
        /\ \A i \in 1 .. l : all[i] = q.sent[i]
    BY <1>1
  <1>4. RogueSent(q) = t
    BY DEF RogueSent
  <1> HIDE DEF all
  <1>5. NoRogue \in [seq : Nat, later : BOOLEAN] /\ NoRogue.seq = 0
    BY DEF NoRogue
  <1>6. /\ t \in Queues /\ t.next_send_seq = q.next_send_seq
        /\ t.send_queue = q.send_queue /\ t.oo_packet = NoRogue
        /\ t.sent = all /\ t.set_aside = q.set_aside
    BY <1>1, <1>3, <1>5 DEF Queues
  <1> HIDE DEF t, m, l
  <1>7. Base(t) = Base(q)
    BY <1>6 DEF Base
  <1>8. ASSUME NEW i \in 1 .. Len(all)
        PROVE  all[i] \in 1 .. Base(q) /\ all[i] # 0
    <2>1. CASE i \in 1 .. l
      <3>1. q.sent[i] \in 1 .. Base(q)
        BY <2>1 DEF Good, l
      <3> QED BY <1>1, <1>3, <2>1, <3>1
    <2>2. CASE i = l + 1
      BY <1>2, <1>3, <2>2
    <2>3. i \in 1 .. l \/ i = l + 1
      BY <1>1, <1>3
    <2> QED BY <2>1, <2>2, <2>3
  <1>9. ASSUME NEW i \in 1 .. Len(all), NEW j \in 1 .. i - 1
        PROVE  /\ all[i] # all[j]
               /\ all[i] < all[j] => all[i] \in q.set_aside
    <2>1. j \in 1 .. l
      BY <1>1, <1>3
    <2>2. all[j] = q.sent[j] /\ q.sent[j] # m
      BY <1>3, <2>1 DEF Good, l, m
    <2>3. CASE i \in 1 .. l
      BY <1>3, <2>2, <2>3 DEF Good, l
    <2>4. CASE i = l + 1
      BY <1>2, <1>3, <2>2, <2>4
    <2>5. i \in 1 .. l \/ i = l + 1
      BY <1>1, <1>3
    <2> QED BY <2>3, <2>4, <2>5
  <1>10. Good(t)
    <2>1. /\ Len(q.send_queue) <= q.next_send_seq
          /\ \A i \in 1 .. Len(q.send_queue) :
                q.send_queue[i].seq = Base(q) + i
      BY DEF Good
    <2>2. 0 \in 0 .. Base(q)
      BY <1>1
    <2> QED BY <1>5, <1>6, <1>7, <1>8, <1>9, <2>1, <2>2 DEF Good
  <1>11. DOMAIN q.sent = 1 .. l /\ DOMAIN all = 1 .. Len(all)
    BY <1>1, <1>3 DEF l
  <1>12. ASSUME NEW i \in 1 .. l PROVE q.sent[i] \in Outside(t)
    <2>1. i \in 1 .. Len(all)
      BY <1>1, <1>3
    <2> QED BY <1>3, <1>6, <1>11, <2>1 DEF Outside, ToSet
  <1>13. Outside(q) \subseteq Outside(t)
    BY <1>11, <1>12 DEF Outside, ToSet
  <1>14. m \in Outside(t)
    <2>1. l + 1 \in 1 .. Len(all)
      BY <1>1, <1>3
    <2> QED BY <1>3, <1>6, <1>11, <2>1 DEF Outside, ToSet
  <1>15. Inside(q) \subseteq Inside(t) \cup {m}
    BY <1>6 DEF Inside, m
  <1> QED BY <1>4, <1>10, <1>13, <1>14, <1>15 DEF Flows

\* The socket comes and goes.
LEMMA SocketFlows ==
    ASSUME NEW q, Good(q), NEW udp \in BOOLEAN
    PROVE  Flows(q, [q EXCEPT !.udp = udp])
  <1> DEFINE t == [q EXCEPT !.udp = udp]
  <1>1. q \in Queues
    BY DEF Good
  <1>2. /\ t \in Queues /\ t.next_send_seq = q.next_send_seq
        /\ t.send_queue = q.send_queue /\ t.oo_packet = q.oo_packet
        /\ t.sent = q.sent /\ t.set_aside = q.set_aside
    BY <1>1 DEF Queues
  <1> HIDE DEF t
  <1>3. Good(t)
    BY <1>2 DEF Good, Base
  <1>4. Inside(t) = Inside(q) /\ Outside(t) = Outside(q)
    BY <1>2 DEF Inside, Outside
  <1> QED BY <1>3, <1>4 DEF Flows, t

\* An entry gets older, up to the longest delay.
LEMMA OlderEntry ==
    ASSUME NEW entry \in Entries
    PROVE  Older(entry) \in Entries /\ Older(entry).seq = entry.seq
  <1> DEFINE was == entry.age
             age == IF was = LongestDelay THEN was ELSE was + 1
  <1>1. LongestDelay \in Nat
    <2>1. PICK longest \in Delays : \A d \in Delays : d <= longest
      BY DEF SendQueueAssumption
    <2> QED BY <2>1 DEF LongestDelay
  <1>2. was \in 0 .. LongestDelay
    BY DEF Entries, Ages
  <1>3. Older(entry) = [entry EXCEPT !.age = age]
    BY DEF Older
  <1> HIDE DEF was
  <1>4. age \in Ages
    BY <1>1, <1>2 DEF Ages
  <1> HIDE DEF age
  <1> QED BY <1>3, <1>4 DEF Entries

\* The clock moves on.
LEMMA AgeFlows ==
    ASSUME NEW q, Good(q)
    PROVE  Flows(q, Age(q))
  <1> DEFINE aged == [i \in DOMAIN q.send_queue |-> Older(q.send_queue[i])]
             rogue == IF q.oo_packet = NoRogue THEN q.oo_packet
                      ELSE [q.oo_packet EXCEPT !.later = TRUE]
             t == [q EXCEPT !.send_queue = aged, !.oo_packet = rogue]
  <1>1. /\ q \in Queues /\ q.send_queue \in Seq(Entries)
        /\ q.oo_packet \in [seq : Nat, later : BOOLEAN]
        /\ Len(q.send_queue) \in Nat
    BY Fields
  <1>2. DOMAIN q.send_queue = 1 .. Len(q.send_queue)
    BY <1>1
  <1>3. ASSUME NEW i \in 1 .. Len(q.send_queue)
        PROVE  aged[i] \in Entries /\ aged[i].seq = q.send_queue[i].seq
    <2>1. q.send_queue[i] \in Entries
      BY <1>1
    <2>2. aged[i] = Older(q.send_queue[i])
      BY <1>2
    <2> HIDE DEF aged
    <2> QED BY <2>1, <2>2, OlderEntry
  <1>4. aged \in Seq(Entries) /\ Len(aged) = Len(q.send_queue)
    <2>1. DOMAIN aged = 1 .. Len(q.send_queue)
          /\ aged = [i \in DOMAIN aged |-> aged[i]]
      BY <1>2
    <2> HIDE DEF aged
    <2>2. aged \in [1 .. Len(q.send_queue) -> Entries]
      BY <1>3, <2>1
    <2> QED BY <1>1, <2>2
  <1>5. /\ rogue \in [seq : Nat, later : BOOLEAN]
        /\ rogue.seq = q.oo_packet.seq
        /\ q.oo_packet = NoRogue => rogue = NoRogue
    BY <1>1
  <1>6. Age(q) = t
    BY DEF Age
  <1> HIDE DEF aged, rogue
  <1>7. /\ t \in Queues /\ t.next_send_seq = q.next_send_seq
        /\ t.send_queue = aged /\ t.oo_packet = rogue
        /\ t.sent = q.sent /\ t.set_aside = q.set_aside
    BY <1>1, <1>4, <1>5 DEF Queues
  <1> HIDE DEF t
  <1>8. Good(t)
    BY <1>3, <1>4, <1>5, <1>7 DEF Good, Base
  <1>9. DOMAIN aged = DOMAIN q.send_queue
    BY <1>1, <1>4
  <1>10. Inside(t) = Inside(q) /\ Outside(t) = Outside(q)
    BY <1>2, <1>3, <1>5, <1>7, <1>9 DEF Inside, Outside
  <1> QED BY <1>6, <1>8, <1>10 DEF Flows

-----------------------------------------------------------------------------
(* The methods, whatever the random numbers, the socket and the clock do.  *)

\* What is left in pump_send_queue after the loop.
LEMMA PumpRogueFlows ==
    ASSUME NEW q, Good(q), NEW o \in PumpRogue(q)
    PROVE  Flows(q, o.queue)
  <1>1. CASE q.oo_packet = NoRogue
    <2>1. o.queue = q
      BY <1>1 DEF PumpRogue, Outcomes
    <2> QED BY <2>1, FlowsSame
  <1>2. CASE q.oo_packet # NoRogue
    <2>1. o.queue \in {q, RogueSent(q)}
      BY <1>2 DEF PumpRogue, Outcomes
    <2> QED BY <1>2, <2>1, FlowsSame, RogueSentFlows
  <1> QED BY <1>1, <1>2

\* pump_send_queue.
LEMMA PumpFlows ==
    ASSUME NEW q, Good(q), NEW o \in PumpSendQueue(q)
    PROVE  Flows(q, o.queue)
  <1> DEFINE lengths == 0 .. Len(q.send_queue)
             after == {AfterLoop(q, k[1], k[2]) :
                        k \in {x \in lengths \X lengths : Loops(q, x[1], x[2])}}
  <1>1. ASSUME NEW a \in after PROVE Flows(q, a) /\ Good(a)
    <2>1. PICK k \in lengths \X lengths :
            Loops(q, k[1], k[2]) /\ a = AfterLoop(q, k[1], k[2])
      OBVIOUS
    <2>2. k[1] \in lengths /\ k[2] \in lengths
      OBVIOUS
    <2>3. Flows(q, AfterLoop(q, k[1], k[2]))
      BY <2>1, <2>2, AfterLoopFlows
    <2> QED BY <2>1, <2>3 DEF Flows
  <1>2. \/ o \in Outcomes({a \in after : LoopFails(a)}, FALSE)
        \/ \E a \in after : o \in PumpRogue(a)
    BY DEF PumpSendQueue
  <1> HIDE DEF after
  <1>3. CASE o \in Outcomes({a \in after : LoopFails(a)}, FALSE)
    <2>1. o.queue \in after
      BY <1>3 DEF Outcomes
    <2> QED BY <1>1, <2>1
  <1>4. CASE \E a \in after : o \in PumpRogue(a)
    <2>1. PICK a \in after : o \in PumpRogue(a)
      BY <1>4
    <2> QED BY <1>1, <2>1, PumpRogueFlows, FlowsTransitive
  <1> QED BY <1>2, <1>3, <1>4

\* send_msg.
LEMMA SendFlows ==
    ASSUME NEW q, Good(q), NEW o \in SendMsg(q)
    PROVE  Flows(q, o.queue)
  <1>1. Flows(q, Enqueued(q)) /\ Good(Enqueued(q))
    BY EnqueuedFlows DEF Flows
  <1>2. Flows(Enqueued(q), o.queue)
    BY <1>1, PumpFlows DEF SendMsg
  <1> QED BY <1>1, <1>2, FlowsTransitive

\* The part of on_loop_poll that concerns the send queue.
LEMMA PolledFlows ==
    ASSUME NEW q, Good(q), NEW sends, NEW o \in Polled(q, sends)
    PROVE  Flows(q, o.queue)
  <1>1. ASSUME NEW outcomes, \A x \in outcomes : Flows(q, x.queue),
               NEW y \in ThenSend(outcomes)
        PROVE  Flows(q, y.queue)
    <2>1. y \in outcomes \/ \E x \in outcomes : y \in SendMsg(x.queue)
      BY DEF ThenSend
    <2>2. ASSUME NEW x \in outcomes, y \in SendMsg(x.queue)
          PROVE  Flows(q, y.queue)
      <3>1. Flows(q, x.queue) /\ Good(x.queue)
        BY <1>1 DEF Flows
      <3>2. Flows(x.queue, y.queue)
        BY <2>2, <3>1, SendFlows
      <3> QED BY <3>1, <3>2, FlowsTransitive
    <2> QED BY <1>1, <2>1, <2>2
  <1>2. \A x \in PumpSendQueue(q) : Flows(q, x.queue)
    BY PumpFlows
  <1>3. \A x \in ThenSend(PumpSendQueue(q)) : Flows(q, x.queue)
    BY <1>1, <1>2
  <1>4. \A x \in ThenSend(ThenSend(PumpSendQueue(q))) : Flows(q, x.queue)
    BY <1>1, <1>3
  <1> QED BY <1>2, <1>4 DEF Polled

-----------------------------------------------------------------------------
(* The specification. *)

\* The queue of a new endpoint.
LEMMA InitEstablishes ==
    ASSUME Init
    PROVE  IInv /\ Inside(queue) = {} /\ Outside(queue) = {}
  <1>1. /\ queue = NewQueue /\ disconnected = FALSE
        /\ <<>> \in Seq(Entries) /\ <<>> \in Seq(Nat) /\ Len(<<>>) = 0
        /\ DOMAIN <<>> = {}
    BY DEF Init
  <1>2. queue \in Queues
    BY <1>1 DEF NewQueue, NoRogue, Queues
  <1>3. Good(queue)
    BY <1>1, <1>2 DEF Good, Base, NewQueue, NoRogue
  <1>4. Inside(queue) = {} /\ Outside(queue) = {}
    BY <1>1 DEF Inside, Outside, ToSet, NewQueue, NoRogue
  <1> QED BY <1>1, <1>3, <1>4 DEF IInv

\* Every step keeps the invariant and loses and returns nothing.
LEMMA NextPreserves ==
    ASSUME IInv, [Next]_vars
    PROVE  IInv' /\ Flows(queue, queue')
  <1>1. Good(queue) /\ disconnected \in BOOLEAN
    BY DEF IInv
  <1>2. ASSUME Flows(queue, queue'), disconnected' \in BOOLEAN
        PROVE  IInv'
    BY <1>2 DEF IInv, Flows, Good, Base
  <1>3. CASE AddRemotePlayer
    <2> DEFINE t == [queue EXCEPT !.udp = TRUE]
    <2>1. PICK o \in SendMsg(t) : queue' = o.queue
      BY <1>3 DEF AddRemotePlayer, WithinBound
    <2>2. Flows(queue, t) /\ Good(t)
      BY <1>1, SocketFlows DEF Flows
    <2> HIDE DEF t
    <2>3. Flows(queue, queue')
      BY <2>1, <2>2, SendFlows, FlowsTransitive
    <2> QED BY <1>2, <1>3, <2>3 DEF AddRemotePlayer
  <1>4. CASE Send
    <2>1. PICK o \in SendMsg(queue) : queue' = o.queue
      BY <1>4 DEF Send, WithinBound
    <2>2. Flows(queue, queue')
      BY <1>1, <2>1, SendFlows
    <2> QED BY <1>1, <1>2, <1>4, <2>2 DEF Send
  <1>5. CASE Poll
    <2>1. PICK o \in Polled(queue, ~disconnected) :
            queue' = o.queue \/ queue' = ShutDown(o.queue)
      BY <1>5 DEF Poll, WithinBound
    <2>2. Flows(queue, o.queue) /\ Good(o.queue)
      BY <1>1, PolledFlows DEF Flows
    <2>3. Flows(o.queue, ShutDown(o.queue))
      BY <2>2, SocketFlows DEF ShutDown
    <2>4. Flows(queue, queue')
      BY <2>1, <2>2, <2>3, FlowsTransitive
    <2> QED BY <1>1, <1>2, <1>5, <2>4 DEF Poll
  <1>6. CASE Disconnect
    BY <1>1, <1>2, <1>6, FlowsSame DEF Disconnect
  <1>7. CASE Tick
    BY <1>1, <1>2, <1>7, AgeFlows DEF Tick
  <1>8. CASE UNCHANGED vars
    BY <1>1, <1>2, <1>8, FlowsSame DEF vars
  <1> QED BY <1>3, <1>4, <1>5, <1>6, <1>7, <1>8 DEF Next

\* What the invariant says of the state.
LEMMA InvariantImplies ==
    ASSUME IInv
    PROVE  TypeOK /\ OnlyRoguesAreOvertaken
  <1>1. /\ queue \in Queues /\ disconnected \in BOOLEAN
        /\ queue.send_queue \in Seq(Entries) /\ queue.sent \in Seq(Nat)
        /\ \A i \in 1 .. Len(queue.send_queue) :
            queue.send_queue[i].seq = Base(queue) + i
        /\ \A i \in 1 .. Len(queue.sent) : \A j \in 1 .. i - 1 :
            /\ queue.sent[i] # queue.sent[j]
            /\ queue.sent[i] < queue.sent[j] =>
                    queue.sent[i] \in queue.set_aside
    BY Fields DEF IInv, Good
  <1>2. DOMAIN queue.send_queue = 1 .. Len(queue.send_queue)
        /\ DOMAIN queue.sent = 1 .. Len(queue.sent)
    BY <1>1
  <1> QED BY <1>1, <1>2 DEF TypeOK, OnlyRoguesAreOvertaken, Base

\* What is inside and outside are messages, and nothing is both.
LEMMA MediumTyped ==
    ASSUME NEW q, Good(q)
    PROVE  /\ Inside(q) \cup Outside(q) \subseteq Nat \ {0}
           /\ Inside(q) \cap Outside(q) = {}
  <1>1. /\ Base(q) \in Nat /\ q.next_send_seq \in Nat
        /\ Inside(q) = (Base(q) + 1 .. q.next_send_seq)
                            \cup ({q.oo_packet.seq} \ {0})
        /\ Outside(q) \subseteq 1 .. Base(q)
        /\ q.oo_packet.seq \notin Outside(q) /\ q.oo_packet.seq \in Nat
    BY WhatIsInside, Fields
  <1>2. ASSUME NEW m \in Outside(q)
        PROVE  m \in Nat \ {0} /\ m \notin Base(q) + 1 .. q.next_send_seq
    <2>1. m \in 1 .. Base(q)
      BY <1>1
    <2> QED BY <1>1, <2>1
  <1>3. ASSUME NEW m \in Base(q) + 1 .. q.next_send_seq
        PROVE  m \in Nat \ {0}
    BY <1>1
  <1> QED BY <1>1, <1>2, <1>3

\* IInv is an inductive invariant.
THEOREM Invariant == Spec => []IInv
  <1>1. Init => IInv
    BY InitEstablishes
  <1>2. IInv /\ [Next]_vars => IInv'
    BY NextPreserves
  <1> QED BY <1>1, <1>2, PTL DEF Spec

\* The queue holds the newest messages in their order (SendQueueSpec!TypeOK).
THEOREM TypeCorrect == Spec => []TypeOK
  BY Invariant, InvariantImplies, PTL

\* No message is sent twice, and only rogues are overtaken
\* (SendQueueSpec!OnlyRoguesAreOvertaken).
THEOREM OvertakenAreRogues == Spec => []OnlyRoguesAreOvertaken
  BY Invariant, InvariantImplies, PTL

\* The send queue implements the medium that neither loses nor repeats
\* (SendQueueSpec!IsAMedium).
THEOREM QueueIsAMedium == Spec => IsAMedium
  <1>1. /\ Queued \cup Rogue = Inside(queue)
        /\ ToSet(queue.sent) = Outside(queue)
    BY DEF Queued, Rogue, Inside, Outside
  <1>2. Init => Channel!Init
    BY <1>1, InitEstablishes DEF Channel!Init
  <1>3. ASSUME IInv, [Next]_vars
        PROVE  Channel!Next
    <2>1. Good(queue) /\ Good(queue') /\ Flows(queue, queue')
      BY <1>3, NextPreserves DEF IInv, Flows
    <2>2. /\ (Queued \cup Rogue)' = Inside(queue')
          /\ (ToSet(queue.sent))' = Outside(queue')
      BY DEF Queued, Rogue, Inside, Outside
    <2>3. /\ Inside(queue') \cup Outside(queue') \subseteq Nat \ {0}
          /\ Inside(queue') \cap Outside(queue') = {}
      BY <2>1, MediumTyped
    <2> QED BY <1>1, <2>1, <2>2, <2>3 DEF Channel!Next, Flows
  <1> QED BY <1>2, <1>3, Invariant, PTL DEF Spec, IsAMedium, Channel!Spec
=============================================================================
