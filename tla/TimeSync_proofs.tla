-------------------------- MODULE TimeSync_proofs --------------------------
(***************************************************************************)
(* Proofs about TimeSyncSpec, for every length of the window, every set of *)
(* round trip times and every game.                                        *)
(***************************************************************************)
EXTENDS TimeSyncSpec, RingArithmetic, NaturalNumbers

-----------------------------------------------------------------------------
(* Sums.                                                                   *)

\* A total is what any function adds up that goes on by the same steps.
LEMMA TotalIs ==
    ASSUME NEW n \in Nat, NEW f, NEW s, s[0] = 0,
           \A i \in 0 .. n - 1 : s[i + 1] = s[i] + f[i]
    PROVE  Total(f, n) = s[n]
  <1> DEFINE Body(g) == [i \in 0 .. n |->
                            IF i = 0 THEN 0 ELSE g[i - 1] + f[i - 1]]
             sum == CHOOSE g : g = Body(g)
             part == [i \in 0 .. n |-> s[i]]
  <1>1. part = Body(part)
    <2>1. ASSUME NEW i \in 0 .. n PROVE part[i] = Body(part)[i]
      <3>1. CASE i = 0
        BY <3>1
      <3>2. CASE i # 0
        <4>1. i - 1 \in 0 .. n - 1 /\ i - 1 \in 0 .. n /\ i - 1 + 1 = i
          BY <3>2
        <4> QED BY <3>2, <4>1
      <3> QED BY <3>1, <3>2
    <2> QED BY <2>1
  <1>2. sum = Body(sum)
    <2> HIDE DEF part, Body
    <2> QED BY <1>1
  <1>3. Total(f, n) = sum[n]
    BY DEF Total
  <1> HIDE DEF sum
  <1> DEFINE T == {i \in Nat : i <= n => sum[i] = s[i]}
  <1>4. 0 \in T
    BY <1>2
  <1>5. ASSUME NEW i \in Nat, i \in T PROVE i + 1 \in T
    <2>1. SUFFICES ASSUME i + 1 <= n PROVE sum[i + 1] = s[i + 1]
      OBVIOUS
    <2>2. /\ i \in 0 .. n - 1 /\ i + 1 \in 0 .. n /\ i + 1 # 0
          /\ i + 1 - 1 = i /\ sum[i] = s[i]
      BY <1>5, <2>1
    <2>3. sum[i + 1] = sum[i] + f[i]
      BY <1>2, <2>2
    <2> QED BY <2>2, <2>3
  <1> HIDE DEF T
  <1>6. n \in T
    BY <1>4, <1>5, Induction
  <1> QED BY <1>3, <1>6 DEF T

\* The totals of a function are integers, of which each adds a value to the
\* one before.
LEMMA TotalSteps ==
    ASSUME NEW n \in Nat, NEW f \in [0 .. n - 1 -> Int]
    PROVE  \E s \in [Nat -> Int] :
                /\ s[0] = 0 /\ s[n] = Total(f, n)
                /\ \A i \in 0 .. n - 1 : s[i + 1] = s[i] + f[i]
  <1> DEFINE step == [i \in Nat |-> IF i < n THEN f[i] ELSE 0]
  <1>1. step \in [Nat -> Int] /\ \A i \in 0 .. n - 1 : step[i] = f[i]
    OBVIOUS
  <1> HIDE DEF step
  <1>2. PICK s \in [Nat -> Int] :
            s[0] = 0 /\ \A i \in Nat : s[i + 1] = s[i] + step[i]
    BY <1>1, SumsExist
  <1>3. \A i \in 0 .. n - 1 : s[i + 1] = s[i] + f[i]
    BY <1>1, <1>2
  <1>4. s[n] = Total(f, n)
    <2>1. s[0] = 0
      BY <1>2
    <2> QED BY <1>3, <2>1, TotalIs
  <1> QED BY <1>2, <1>3, <1>4

\* A total is an integer.
LEMMA TotalTyped ==
    ASSUME NEW n \in Nat, NEW f \in [0 .. n - 1 -> Int]
    PROVE  Total(f, n) \in Int
  BY TotalSteps

\* Nothing adds up to nothing.
LEMMA TotalZero ==
    ASSUME NEW n \in Nat, NEW f, \A i \in 0 .. n - 1 : f[i] = 0
    PROVE  Total(f, n) = 0
  <1> DEFINE s == [i \in Nat |-> 0]
  <1>1. s[0] = 0 /\ \A i \in 0 .. n - 1 : s[i + 1] = s[i] + f[i]
    OBVIOUS
  <1>2. s[n] = 0
    OBVIOUS
  <1> HIDE DEF s
  <1> QED BY <1>1, <1>2, TotalIs

\* One value is replaced.
LEMMA TotalReplaced ==
    ASSUME NEW n \in Nat, NEW f \in [0 .. n - 1 -> Int],
           NEW slot \in 0 .. n - 1, NEW v \in Int
    PROVE  Total([f EXCEPT ![slot] = v], n) = Total(f, n) - f[slot] + v
  <1> DEFINE g == [f EXCEPT ![slot] = v]
  <1>1. PICK s \in [Nat -> Int] :
            /\ s[0] = 0 /\ s[n] = Total(f, n)
            /\ \A i \in 0 .. n - 1 : s[i + 1] = s[i] + f[i]
    BY TotalSteps
  <1> DEFINE t == [i \in Nat |->
                    IF i <= slot THEN s[i] ELSE s[i] - f[slot] + v]
  <1>2. /\ f[slot] \in Int /\ g[slot] = v
        /\ \A i \in 0 .. n - 1 : i # slot => g[i] = f[i]
    OBVIOUS
  <1>3. \A i \in 0 .. n - 1 : f[i] \in Int
    OBVIOUS
  <1> HIDE DEF g
  <1>4. t[0] = 0 /\ t[n] = Total(f, n) - f[slot] + v
    BY <1>1
  <1>5. ASSUME NEW i \in 0 .. n - 1 PROVE t[i + 1] = t[i] + g[i]
    <2>1. s[i + 1] = s[i] + f[i] /\ s[i] \in Int /\ f[i] \in Int
      BY <1>1, <1>3
    <2>2. CASE i = slot
      BY <1>2, <2>1, <2>2
    <2>3. CASE i < slot
      BY <1>2, <2>1, <2>3
    <2>4. CASE i > slot
      <3>1. /\ t[i] = s[i] - f[slot] + v /\ g[i] = f[i]
            /\ t[i + 1] = s[i + 1] - f[slot] + v
        BY <1>2, <2>4
      <3> HIDE DEF t
      <3>2. s[i + 1] \in Int
        BY <2>1
      <3> QED BY <1>2, <2>1, <3>1, <3>2
    <2> QED BY <2>2, <2>3, <2>4
  <1> HIDE DEF t
  <1>6. t[0] = 0
    BY <1>4
  <1>7. Total(g, n) = t[n]
    BY <1>5, <1>6, TotalIs
  <1> QED BY <1>4, <1>7 DEF g

\* No value is less than c.
LEMMA TotalAtLeast ==
    ASSUME NEW n \in Nat, NEW f \in [0 .. n - 1 -> Int], NEW c \in Int,
           \A i \in 0 .. n - 1 : f[i] >= c
    PROVE  Total(f, n) >= n * c
  <1>1. PICK s \in [Nat -> Int] :
            /\ s[0] = 0 /\ s[n] = Total(f, n)
            /\ \A i \in 0 .. n - 1 : s[i + 1] = s[i] + f[i]
    BY TotalSteps
  <1> DEFINE T == {i \in Nat : i <= n => s[i] >= i * c}
  <1>2. 0 \in T
    BY <1>1
  <1>3. ASSUME NEW i \in Nat, i \in T PROVE i + 1 \in T
    <2>1. SUFFICES ASSUME i + 1 <= n PROVE s[i + 1] >= (i + 1) * c
      OBVIOUS
    <2>2. /\ s[i + 1] = s[i] + f[i] /\ s[i] >= i * c /\ f[i] >= c
          /\ s[i] \in Int /\ f[i] \in Int
      BY <1>1, <1>3, <2>1
    <2>3. (i + 1) * c = i * c + c /\ i * c \in Int
      OBVIOUS
    <2> QED BY <2>2, <2>3
  <1> HIDE DEF T
  <1>4. n \in T
    BY <1>2, <1>3, Induction
  <1> QED BY <1>1, <1>4 DEF T

\* The lead is an integer.
LEMMA LeadTyped ==
    ASSUME NEW seq \in Seq(Int)
    PROVE  LeadOver(seq) \in Int
  <1> DEFINE n == Len(seq)
             f == [i \in 0 .. n - 1 |-> -seq[i + 1]]
  <1>1. n \in Nat /\ f \in [0 .. n - 1 -> Int]
    OBVIOUS
  <1>2. LeadOver(seq) = Total(f, n)
    BY DEF LeadOver
  <1> HIDE DEF n, f
  <1> QED BY <1>1, <1>2, TotalTyped

\* The lead, with one more advantage.
LEMMA LeadAppended ==
    ASSUME NEW seq \in Seq(Int), NEW advantage \in Int
    PROVE  LeadOver(Append(seq, advantage)) = LeadOver(seq) - advantage
  <1> DEFINE n == Len(seq)
             longer == Append(seq, advantage)
             f == [i \in 0 .. n - 1 |-> -seq[i + 1]]
             g == [i \in 0 .. Len(longer) - 1 |-> -longer[i + 1]]
  <1>1. /\ n \in Nat /\ Len(longer) = n + 1
        /\ longer[n + 1] = advantage
        /\ \A i \in 1 .. n : longer[i] = seq[i] /\ seq[i] \in Int
    OBVIOUS
  <1>2. LeadOver(seq) = Total(f, n) /\ LeadOver(longer) = Total(g, n + 1)
    BY <1>1 DEF LeadOver
  <1>3. f \in [0 .. n - 1 -> Int]
    BY <1>1
  <1>4. g[n] = -advantage /\ \A i \in 0 .. n - 1 : g[i] = f[i]
    BY <1>1
  <1> HIDE DEF n, longer, f, g
  <1>5. PICK s \in [Nat -> Int] :
            /\ s[0] = 0 /\ s[n] = Total(f, n)
            /\ \A i \in 0 .. n - 1 : s[i + 1] = s[i] + f[i]
    BY <1>1, <1>3, TotalSteps
  <1> DEFINE t == [i \in Nat |-> IF i <= n THEN s[i] ELSE s[n] - advantage]
  <1>6. t[0] = 0 /\ t[n + 1] = Total(f, n) - advantage
    BY <1>1, <1>5
  <1>7. ASSUME NEW i \in 0 .. (n + 1) - 1 PROVE t[i + 1] = t[i] + g[i]
    <2>1. CASE i = n
      BY <1>1, <1>4, <2>1
    <2>2. CASE i # n
      <3>1. /\ i \in 0 .. n - 1 /\ i \in Nat /\ i <= n
            /\ i + 1 \in Nat /\ i + 1 <= n
        BY <1>1, <2>2
      <3>2. s[i + 1] = s[i] + f[i] /\ g[i] = f[i]
        BY <1>4, <1>5, <3>1
      <3>3. t[i + 1] = s[i + 1] /\ t[i] = s[i]
        BY <3>1
      <3> QED BY <3>2, <3>3
    <2> QED BY <2>1, <2>2
  <1> HIDE DEF t
  <1>8. Total(g, n + 1) = t[n + 1]
    BY <1>1, <1>6, <1>7, TotalIs
  <1> QED BY <1>2, <1>6, <1>8 DEF longer

\* The lead, without the oldest advantage.
LEMMA LeadTail ==
    ASSUME NEW seq \in Seq(Int), seq # <<>>
    PROVE  LeadOver(Tail(seq)) = LeadOver(seq) + seq[1]
  <1> DEFINE n == Len(seq) - 1
             rest == Tail(seq)
             f == [i \in 0 .. n |-> -seq[i + 1]]
             g == [i \in 0 .. n - 1 |-> -rest[i + 1]]
  <1>1. /\ n \in Nat /\ Len(seq) = n + 1 /\ Len(rest) = n
        /\ \A i \in 1 .. n : rest[i] = seq[i + 1]
        /\ \A i \in 1 .. n + 1 : seq[i] \in Int
    OBVIOUS
  <1>2. LeadOver(seq) = Total(f, n + 1) /\ LeadOver(rest) = Total(g, n)
    <2>1. Len(seq) - 1 = n /\ Len(rest) - 1 = n - 1
      BY <1>1
    <2> QED BY <1>1, <2>1 DEF LeadOver
  <1>3. f \in [0 .. (n + 1) - 1 -> Int] /\ f[0] = -seq[1]
    BY <1>1
  <1>4. \A i \in 0 .. n - 1 : g[i] = f[i + 1] /\ f[i] \in Int
    BY <1>1
  <1> HIDE DEF n, rest, f, g
  <1>5. PICK s \in [Nat -> Int] :
            /\ s[0] = 0 /\ s[n + 1] = Total(f, n + 1)
            /\ \A i \in 0 .. (n + 1) - 1 : s[i + 1] = s[i] + f[i]
    <2>1. n + 1 \in Nat
      BY <1>1
    <2> QED BY <1>3, <2>1, TotalSteps
  <1> DEFINE t == [i \in Nat |-> s[i + 1] - s[1]]
  <1>6. t[0] = 0 /\ t[n] = Total(f, n + 1) + seq[1]
    <2>1. 0 \in 0 .. (n + 1) - 1
      BY <1>1
    <2>2. s[0 + 1] = s[0] + f[0]
      BY <1>5, <2>1
    <2> QED BY <1>1, <1>3, <1>5, <2>2
  <1>7. ASSUME NEW i \in 0 .. n - 1 PROVE t[i + 1] = t[i] + g[i]
    <2>1. i + 1 \in 0 .. (n + 1) - 1 /\ i \in Nat
      BY <1>1
    <2>2. s[i + 1 + 1] = s[i + 1] + f[i + 1]
      BY <1>5, <2>1
    <2>3. f[i + 1] \in Int /\ g[i] = f[i + 1]
      BY <1>3, <1>4, <2>1
    <2>4. t[i + 1] = s[i + 1 + 1] - s[1] /\ t[i] = s[i + 1] - s[1]
      BY <2>1
    <2> QED BY <1>5, <2>1, <2>2, <2>3, <2>4
  <1> HIDE DEF t
  <1>8. Total(g, n) = t[n]
    <2>1. t[0] = 0
      BY <1>6
    <2> QED BY <1>1, <1>7, <2>1, TotalIs
  <1> QED BY <1>2, <1>6, <1>8 DEF rest

\* No advantage is more than -c.
LEMMA LeadAtLeast ==
    ASSUME NEW seq \in Seq(Int), NEW c \in Int,
           \A i \in 1 .. Len(seq) : seq[Len(seq) + 1 - i] <= -c
    PROVE  LeadOver(seq) >= Len(seq) * c
  <1> DEFINE n == Len(seq)
             f == [i \in 0 .. n - 1 |-> -seq[i + 1]]
  <1>1. n \in Nat /\ f \in [0 .. n - 1 -> Int]
    OBVIOUS
  <1>2. ASSUME NEW j \in 0 .. n - 1 PROVE f[j] >= c
    <2>1. n - j \in 1 .. n /\ n + 1 - (n - j) = j + 1 /\ j + 1 \in 1 .. n
      BY <1>1
    <2>2. seq[j + 1] <= -c /\ seq[j + 1] \in Int
      BY <2>1
    <2> QED BY <2>2
  <1>3. LeadOver(seq) = Total(f, n)
    BY DEF LeadOver
  <1> HIDE DEF n, f
  <1>4. Total(f, n) >= n * c
    BY <1>1, <1>2, TotalAtLeast
  <1> QED BY <1>3, <1>4 DEF n

-----------------------------------------------------------------------------
(* The window.                                                             *)

USE BlankAssumption, WindowAssumption, RoundTripsAssumption

Placed == TypeOK /\ WindowHoldsTheNewest

\* A new endpoint has a window of zeros.
LEMMA InitEstablishes == Init => Placed
  <1> SUFFICES ASSUME Init PROVE Placed
    OBVIOUS
  <1>1. NewTimeSync \in TimeSyncs
    BY DEF NewTimeSync, TimeSyncs, Windows, GameInputs, NewInput, Frame,
           FrameNum, NoFrame
  <1>2. TypeOK
    BY <1>1 DEF Init, TypeOK
  <1>3. WindowHoldsTheNewest
    BY DEF Init, WindowHoldsTheNewest, NewTimeSync
  <1> QED BY <1>2, <1>3 DEF Placed

\* The advantages after one more, with their number and their places.
LEMMA NewestAfterAppend ==
    ASSUME NEW seq \in Seq(Int), NEW advantage \in Int,
           Len(seq) <= FrameWindowSize,
           NEW next, next = Newest(Append(seq, advantage))
    PROVE  /\ next \in Seq(Int)
           /\ Len(next) = IF Len(seq) = FrameWindowSize THEN Len(seq)
                          ELSE Len(seq) + 1
           /\ next[Len(next)] = advantage
           /\ \A i \in 2 .. Len(next) :
                next[Len(next) + 1 - i] = seq[Len(seq) + 1 - (i - 1)]
  <1> DEFINE longer == Append(seq, advantage)
  <1>1. /\ longer \in Seq(Int) /\ Len(longer) = Len(seq) + 1
        /\ longer[Len(seq) + 1] = advantage
        /\ \A i \in 1 .. Len(seq) : longer[i] = seq[i]
    OBVIOUS
  <1> HIDE DEF longer
  <1>2. CASE Len(seq) = FrameWindowSize
    <2>1. next = Tail(longer)
      BY <1>1, <1>2 DEF Newest, longer
    <2>2. /\ next \in Seq(Int) /\ Len(next) = Len(seq)
          /\ \A i \in 1 .. Len(seq) : next[i] = longer[i + 1]
      BY <1>1, <1>2, <2>1
    <2> QED BY <1>1, <1>2, <2>2
  <1>3. CASE Len(seq) # FrameWindowSize
    <2>1. next = longer
      BY <1>1, <1>3 DEF Newest, longer
    <2>2. Len(next) = Len(seq) + 1 /\ Len(seq) \in Nat
      BY <1>1, <2>1
    <2>3. ASSUME NEW i \in 2 .. Len(next)
          PROVE  next[Len(next) + 1 - i] = seq[Len(seq) + 1 - (i - 1)]
      <3>1. /\ Len(next) + 1 - i = Len(seq) + 1 - (i - 1)
            /\ Len(seq) + 1 - (i - 1) \in 1 .. Len(seq)
        BY <2>2
      <3> QED BY <1>1, <2>1, <3>1
    <2> QED BY <1>1, <1>3, <2>1, <2>2, <2>3
  <1> QED BY <1>2, <1>3

\* What an input that is sent records.
LEMMA SendInputRecords ==
    ASSUME Placed, SendInput
    PROVE  LET slot == frame % FrameWindowSize IN
           /\ slot \in 0 .. FrameWindowSize - 1
           /\ timesync' \in TimeSyncs
           /\ timesync'.local = [timesync.local EXCEPT ![slot] =
                                    local_frame_advantage]
           /\ timesync'.remote = [timesync.remote EXCEPT ![slot] = 0]
  <1>1. PICK bits \in Bits :
            timesync' = AdvanceFrame(timesync,
                                     [frame |-> frame, bits |-> bits],
                                     local_frame_advantage,
                                     RemoteFrameAdvantage)
    BY DEF SendInput
  <1>2. /\ timesync \in TimeSyncs /\ frame \in Nat /\ recent \in Seq(Int)
        /\ round_trip_time \in Nat /\ local_frame_advantage \in Int
    BY DEF Placed, TypeOK
  <1> DEFINE input == [frame |-> frame, bits |-> bits]
             slot == frame % FrameWindowSize
             place == frame % MinUniqueFrames
  <1>3. slot \in 0 .. FrameWindowSize - 1 /\ place \in 0 .. MinUniqueFrames - 1
    BY <1>2, ModRange
  <1>4. /\ timesync' = [timesync EXCEPT !.last_inputs[place] = input,
                                        !.local[slot] = local_frame_advantage,
                                        !.remote[slot] = 0]
        /\ input \in GameInputs
    BY <1>1, <1>2 DEF AdvanceFrame, RemoteFrameAdvantage, GameInputs, Frame,
                      FrameNum
  <1> HIDE DEF slot, place, input
  <1>5. /\ timesync' \in TimeSyncs
        /\ timesync'.local = [timesync.local EXCEPT ![slot] =
                                local_frame_advantage]
        /\ timesync'.remote = [timesync.remote EXCEPT ![slot] = 0]
    <2>1. /\ [timesync.local EXCEPT ![slot] = local_frame_advantage]
                \in Windows
          /\ [timesync.remote EXCEPT ![slot] = 0] \in Windows
          /\ [timesync.last_inputs EXCEPT ![place] = input]
                \in [0 .. MinUniqueFrames - 1 -> GameInputs]
      <3>1. /\ timesync.local \in Windows /\ timesync.remote \in Windows
            /\ timesync.last_inputs
                    \in [0 .. MinUniqueFrames - 1 -> GameInputs]
        BY <1>2 DEF TimeSyncs
      <3>2. [timesync.last_inputs EXCEPT ![place] = input]
                \in [0 .. MinUniqueFrames - 1 -> GameInputs]
        BY <1>3, <1>4, <3>1
      <3> QED BY <1>2, <1>3, <3>1, <3>2 DEF Windows
    <2>2. timesync' =
            [timesync EXCEPT
                !.last_inputs = [timesync.last_inputs EXCEPT ![place] = input],
                !.local = [timesync.local EXCEPT ![slot] =
                            local_frame_advantage],
                !.remote = [timesync.remote EXCEPT ![slot] = 0]]
      BY <1>2, <1>4 DEF TimeSyncs
    <2> QED BY <1>2, <2>1, <2>2 DEF TimeSyncs
  <1> QED BY <1>3, <1>5 DEF slot

\* An input that is sent puts the advantage where the oldest one was.
LEMMA SendInputPreserves == ASSUME Placed, SendInput PROVE Placed'
  <1>1. /\ timesync \in TimeSyncs /\ frame \in Nat /\ recent \in Seq(Int)
        /\ round_trip_time \in Nat /\ local_frame_advantage \in Int
    BY DEF Placed, TypeOK
  <1> DEFINE slot == frame % FrameWindowSize
  <1>2. slot \in 0 .. FrameWindowSize - 1
    BY SendInputRecords
  <1>3. /\ timesync' \in TimeSyncs
        /\ timesync'.local = [timesync.local EXCEPT ![slot] =
                                local_frame_advantage]
    BY SendInputRecords
  <1> HIDE DEF slot
  <1>4. Len(recent) =
            IF frame < FrameWindowSize THEN frame ELSE FrameWindowSize
    BY DEF Placed, WindowHoldsTheNewest
  <1>5. /\ recent' \in Seq(Int)
        /\ Len(recent') = IF Len(recent) = FrameWindowSize THEN Len(recent)
                          ELSE Len(recent) + 1
        /\ recent'[Len(recent')] = local_frame_advantage
        /\ \A i \in 2 .. Len(recent') :
            recent'[Len(recent') + 1 - i] = recent[Len(recent) + 1 - (i - 1)]
    <2>1. recent' = Newest(Append(recent, local_frame_advantage))
      BY DEF SendInput
    <2>2. Len(recent) <= FrameWindowSize
      BY <1>1, <1>4
    <2> QED BY <1>1, <2>1, <2>2, NewestAfterAppend
  <1>6. /\ frame' = frame + 1 /\ round_trip_time' = round_trip_time
        /\ local_frame_advantage' \in Int
    BY <1>1 DEF SendInput, AdvantageAt, LastReceivedFrame
  <1>7. TypeOK'
    BY <1>1, <1>3, <1>5, <1>6 DEF TypeOK
  <1>8. Len(recent') = IF frame' < FrameWindowSize THEN frame'
                        ELSE FrameWindowSize
    BY <1>1, <1>4, <1>5, <1>6
  <1>9. ASSUME NEW i \in 1 .. Len(recent')
         PROVE  timesync'.local[(frame' - i) % FrameWindowSize] =
                    recent'[Len(recent') + 1 - i]
    <2>1. i \in Nat /\ i <= FrameWindowSize /\ i <= frame'
      BY <1>1, <1>6, <1>8
    <2>2. CASE i = 1
      <3>1. (frame' - i) % FrameWindowSize = slot
        BY <1>1, <1>6, <2>2 DEF slot
      <3>2. timesync'.local[slot] = local_frame_advantage
        BY <1>1, <1>2, <1>3 DEF TimeSyncs, Windows
      <3> QED BY <1>5, <1>8, <2>2, <3>1, <3>2
    <2>3. CASE i # 1
      <3> DEFINE other == (frame - (i - 1)) % FrameWindowSize
      <3>1. i - 1 \in 1 .. Len(recent) /\ i - 1 < FrameWindowSize
        BY <1>1, <1>4, <1>5, <2>1, <2>3
      <3>2. frame - (i - 1) \in Nat
        BY <1>1, <1>6, <2>1
      <3>3. frame' - i = frame - (i - 1)
        BY <1>1, <1>6, <2>1
      <3>4. timesync.local[other] = recent[Len(recent) + 1 - (i - 1)]
        BY <3>1 DEF Placed, WindowHoldsTheNewest
      <3>5. other # slot
        <4>1. /\ frame - (i - 1) < frame
              /\ frame < (frame - (i - 1)) + FrameWindowSize
          BY <1>1, <3>1
        <4> QED BY <1>1, <3>2, <4>1, ModDistinct DEF slot
      <3>6. other \in 0 .. FrameWindowSize - 1
        BY <3>2, ModRange
      <3>7. timesync'.local[other] = timesync.local[other]
        BY <1>1, <1>3, <3>5, <3>6 DEF TimeSyncs, Windows
      <3>8. recent'[Len(recent') + 1 - i] = recent[Len(recent) + 1 - (i - 1)]
        BY <1>5, <2>1, <2>3
      <3> QED BY <3>3, <3>4, <3>7, <3>8
    <2> QED BY <2>2, <2>3
  <1>10. ASSUME NEW i \in frame' .. FrameWindowSize - 1
         PROVE  timesync'.local[i] = 0
    <2>1. /\ i \in frame .. FrameWindowSize - 1
          /\ i \in 0 .. FrameWindowSize - 1 /\ frame # i
          /\ frame \in 0 .. FrameWindowSize - 1
      BY <1>1, <1>6
    <2>2. slot = frame
      BY <1>1, <2>1, ModSmall DEF slot
    <2>3. timesync.local[i] = 0
      BY <2>1 DEF Placed, WindowHoldsTheNewest
    <2> QED BY <1>1, <1>3, <2>1, <2>2, <2>3 DEF TimeSyncs, Windows
  <1>11. WindowHoldsTheNewest'
    BY <1>8, <1>9, <1>10 DEF WindowHoldsTheNewest
  <1> QED BY <1>7, <1>11 DEF Placed

-----------------------------------------------------------------------------
(* The lead.                                                               *)

(***************************************************************************)
(* The windows add up to the lead, and every advantage lies as far below   *)
(* the longest round trip as its frame's number.                           *)
(***************************************************************************)
WindowsAddUp ==
    /\ SumOf(timesync.local) + Lead = 0
    /\ \A i \in 0 .. FrameWindowSize - 1 : timesync.remote[i] = 0

AdvantagesFall ==
    /\ round_trip_time <= LongestTrip
    /\ local_frame_advantage <= LongestTrip - frame
    /\ \A i \in 1 .. Len(recent) :
        recent[Len(recent) + 1 - i] <= LongestTrip - (frame - i)

IInv == Placed /\ WindowsAddUp /\ AdvantagesFall

\* There is a longest round trip.
LEMMA LongestTripIs ==
    LongestTrip \in RoundTrips /\ \A u \in RoundTrips : u <= LongestTrip
  BY DEF LongestTrip

\* A new endpoint has added up nothing.
LEMMA InitAddsUp == Init => IInv
  <1> SUFFICES ASSUME Init PROVE IInv
    OBVIOUS
  <1>1. /\ recent = <<>> /\ round_trip_time = 0 /\ local_frame_advantage = 0
        /\ frame = 0
        /\ \A i \in 0 .. FrameWindowSize - 1 :
                timesync.local[i] = 0 /\ timesync.remote[i] = 0
    BY DEF Init, NewTimeSync
  <1>2. SumOf(timesync.local) = 0
    BY <1>1, TotalZero DEF SumOf
  <1>3. Lead = 0
    <2>1. Len(recent) = 0
      BY <1>1
    <2>2. Total([i \in 0 .. 0 - 1 |-> -recent[i + 1]], 0) = 0
      BY TotalZero
    <2> QED BY <2>1, <2>2 DEF Lead, LeadOver
  <1>4. WindowsAddUp
    <2>1. SumOf(timesync.local) + Lead = 0
      BY <1>2, <1>3
    <2> QED BY <1>1, <2>1 DEF WindowsAddUp
  <1>5. AdvantagesFall
    <2>1. LongestTrip \in Nat
      BY LongestTripIs
    <2>2. Len(recent) = 0
      BY <1>1
    <2> QED BY <1>1, <2>1, <2>2 DEF AdvantagesFall
  <1> QED BY <1>4, <1>5, InitEstablishes DEF IInv

\* The advantage that is recorded takes the place of the oldest in the sums.
LEMMA SendInputAddsUp ==
    ASSUME IInv, SendInput
    PROVE  WindowsAddUp'
  <1> DEFINE slot == frame % FrameWindowSize
             n == Len(recent)
             advantage == local_frame_advantage
             longer == Append(recent, advantage)
  <1>1. /\ timesync \in TimeSyncs /\ frame \in Nat /\ recent \in Seq(Int)
        /\ advantage \in Int
        /\ n = IF frame < FrameWindowSize THEN frame ELSE FrameWindowSize
    BY DEF IInv, Placed, TypeOK, WindowHoldsTheNewest
  <1>2. /\ slot \in 0 .. FrameWindowSize - 1
        /\ timesync'.local = [timesync.local EXCEPT ![slot] = advantage]
        /\ timesync'.remote = [timesync.remote EXCEPT ![slot] = 0]
    BY SendInputRecords DEF IInv
  <1>3. timesync.local \in Windows /\ timesync.remote \in Windows
    BY <1>1 DEF TimeSyncs
  <1>4. SumOf(timesync'.local) =
            SumOf(timesync.local) - timesync.local[slot] + advantage
    <2>1. timesync.local \in [0 .. FrameWindowSize - 1 -> Int]
      BY <1>3 DEF Windows
    <2>2. FrameWindowSize \in Nat
      OBVIOUS
    <2> HIDE DEF slot, advantage
    <2>3. slot \in 0 .. FrameWindowSize - 1 /\ advantage \in Int
      BY <1>1, <1>2
    <2>4. Total([timesync.local EXCEPT ![slot] = advantage], FrameWindowSize) =
            Total(timesync.local, FrameWindowSize) - timesync.local[slot]
                + advantage
      BY <2>1, <2>2, <2>3, TotalReplaced
    <2> QED BY <1>2, <2>4 DEF SumOf
  <1>5. SumOf(timesync.local) + Lead = 0 /\ Lead = LeadOver(recent)
    BY DEF IInv, WindowsAddUp, Lead
  <1>6. LeadOver(longer) = LeadOver(recent) - advantage
    BY <1>1, LeadAppended
  <1>7. timesync.local[slot] \in Int
    BY <1>2, <1>3 DEF Windows
  <1>8. LeadOver(recent) \in Int /\ SumOf(timesync.local) \in Int
    BY <1>1, <1>3, LeadTyped, TotalTyped DEF SumOf, Windows
  <1>9. LeadOver(recent') = LeadOver(longer) + timesync.local[slot]
    <2>1. recent' = IF n = FrameWindowSize THEN Tail(longer) ELSE longer
      BY <1>1 DEF SendInput, Newest
    <2>2. CASE frame < FrameWindowSize
      <3>1. slot = frame
        BY <1>1, <2>2, ModSmall
      <3>2. timesync.local[slot] = 0
        <4>1. frame \in frame .. FrameWindowSize - 1
          BY <1>1, <2>2
        <4> QED BY <3>1, <4>1 DEF IInv, Placed, WindowHoldsTheNewest
      <3>3. recent' = longer
        BY <1>1, <2>1, <2>2
      <3>4. LeadOver(longer) \in Int
        BY <1>1, <1>6, <1>8
      <3> QED BY <3>2, <3>3, <3>4
    <2>3. CASE ~(frame < FrameWindowSize)
      <3>1. n = FrameWindowSize /\ recent' = Tail(longer)
        BY <1>1, <2>1, <2>3
      <3>2. longer \in Seq(Int) /\ longer # <<>> /\ longer[1] = recent[1]
        BY <1>1, <3>1
      <3>3. (frame - FrameWindowSize) % FrameWindowSize = slot
        <4>1. frame \in Nat /\ frame >= FrameWindowSize
          BY <1>1, <2>3
        <4> QED BY <4>1, ModOnceAround
      <3>4. timesync.local[slot] = recent[1]
        <4>1. FrameWindowSize \in 1 .. n /\ n + 1 - FrameWindowSize = 1
          BY <3>1
        <4>2. timesync.local[(frame - FrameWindowSize) % FrameWindowSize] =
                recent[n + 1 - FrameWindowSize]
          BY <4>1 DEF IInv, Placed, WindowHoldsTheNewest
        <4> QED BY <3>3, <4>1, <4>2
      <3> QED BY <3>1, <3>2, <3>4, LeadTail
    <2> QED BY <2>2, <2>3
  <1> HIDE DEF slot, n, advantage, longer
  <1>10. SumOf(timesync'.local) + LeadOver(recent') = 0
    BY <1>1, <1>4, <1>5, <1>6, <1>7, <1>8, <1>9
  <1>11. \A i \in 0 .. FrameWindowSize - 1 : timesync'.remote[i] = 0
    BY <1>2, <1>3 DEF IInv, WindowsAddUp, Windows
  <1> QED BY <1>10, <1>11 DEF WindowsAddUp, Lead

\* The frame's advantage is recorded, the next one's is one less.
LEMMA SendInputFalls ==
    ASSUME IInv, SendInput
    PROVE  AdvantagesFall'
  <1>1. /\ frame \in Nat /\ recent \in Seq(Int) /\ round_trip_time \in Nat
        /\ local_frame_advantage \in Int /\ LongestTrip \in Nat
        /\ Len(recent) <= FrameWindowSize
    BY LongestTripIs DEF IInv, Placed, TypeOK, WindowHoldsTheNewest
  <1>2. /\ round_trip_time <= LongestTrip
        /\ local_frame_advantage <= LongestTrip - frame
        /\ \A i \in 1 .. Len(recent) :
            recent[Len(recent) + 1 - i] <= LongestTrip - (frame - i)
    BY DEF IInv, AdvantagesFall
  <1>3. /\ frame' = frame + 1 /\ round_trip_time' = round_trip_time
        /\ local_frame_advantage' = round_trip_time - (frame + 1)
        /\ recent' = Newest(Append(recent, local_frame_advantage))
    BY <1>1 DEF SendInput, AdvantageAt, LastReceivedFrame
  <1>4. /\ recent' \in Seq(Int)
        /\ Len(recent') = IF Len(recent) = FrameWindowSize THEN Len(recent)
                          ELSE Len(recent) + 1
        /\ recent'[Len(recent')] = local_frame_advantage
        /\ \A i \in 2 .. Len(recent') :
            recent'[Len(recent') + 1 - i] = recent[Len(recent) + 1 - (i - 1)]
    BY <1>1, <1>3, NewestAfterAppend
  <1>5. ASSUME NEW i \in 1 .. Len(recent')
        PROVE  recent'[Len(recent') + 1 - i] <= LongestTrip - (frame' - i)
    <2>1. i \in Nat /\ Len(recent) \in Nat /\ Len(recent') \in Nat
      BY <1>1, <1>4
    <2>2. CASE i = 1
      <3>1. Len(recent') + 1 - i = Len(recent') /\ frame' - i = frame
        BY <1>1, <1>3, <2>1, <2>2
      <3> QED BY <1>2, <1>4, <3>1
    <2>3. CASE i # 1
      <3>1. i - 1 \in 1 .. Len(recent) /\ i \in 2 .. Len(recent')
        BY <1>4, <2>1, <2>3
      <3>2. frame' - i = frame - (i - 1)
        BY <1>1, <1>3, <2>1
      <3>3. recent[Len(recent) + 1 - (i - 1)]
                <= LongestTrip - (frame - (i - 1))
        BY <1>2, <3>1
      <3> QED BY <1>4, <3>1, <3>2, <3>3
    <2> QED BY <2>2, <2>3
  <1>6. /\ round_trip_time' <= LongestTrip
        /\ local_frame_advantage' <= LongestTrip - frame'
    BY <1>1, <1>2, <1>3
  <1> QED BY <1>5, <1>6 DEF AdvantagesFall, LongestTrip

\* Every step keeps the window.
LEMMA NextPreserves == ASSUME Placed, [Next]_vars PROVE Placed'
  <1>1. CASE OnQualityReply
    BY <1>1 DEF OnQualityReply, Placed, TypeOK, WindowHoldsTheNewest
  <1>2. CASE SetLocalFrameNumber
    BY <1>2 DEF SetLocalFrameNumber, AdvantageAt, LastReceivedFrame, Placed,
                TypeOK, WindowHoldsTheNewest
  <1>3. CASE SendInput
    BY <1>3, SendInputPreserves
  <1>4. CASE UNCHANGED vars
    BY <1>4 DEF vars, Placed, TypeOK, WindowHoldsTheNewest
  <1> QED BY <1>1, <1>2, <1>3, <1>4 DEF Next

\* Every step keeps the sums.
LEMMA NextAddsUp == ASSUME IInv, [Next]_vars PROVE IInv'
  <1>1. Placed'
    BY NextPreserves DEF IInv
  <1>2. (WindowsAddUp /\ AdvantagesFall)'
    <2>1. CASE OnQualityReply
      <3>1. round_trip_time' <= LongestTrip
        BY <2>1, LongestTripIs DEF OnQualityReply
      <3> QED BY <2>1, <3>1 DEF OnQualityReply, IInv, WindowsAddUp,
                                AdvantagesFall, Lead, LongestTrip
    <2>2. CASE SetLocalFrameNumber
      <3>1. local_frame_advantage' <= LongestTrip - frame
        BY <2>2, LongestTripIs
           DEF SetLocalFrameNumber, AdvantageAt, LastReceivedFrame, IInv,
               Placed, TypeOK, AdvantagesFall
      <3> QED BY <2>2, <3>1 DEF SetLocalFrameNumber, IInv, WindowsAddUp,
                                AdvantagesFall, Lead, LongestTrip
    <2>3. CASE SendInput
      BY <2>3, SendInputAddsUp, SendInputFalls
    <2>4. CASE UNCHANGED vars
      BY <2>4 DEF vars, IInv, WindowsAddUp, AdvantagesFall, Lead, LongestTrip
    <2> QED BY <2>1, <2>2, <2>3, <2>4 DEF Next
  <1> QED BY <1>1, <1>2 DEF IInv

\* The windows are rings of the code's length, whatever the frame.
THEOREM TypeCorrect == Spec => []TypeOK
  <1>1. Placed /\ [Next]_vars => Placed'
    BY NextPreserves
  <1>2. Placed => TypeOK
    BY DEF Placed
  <1> QED BY <1>1, <1>2, InitEstablishes, PTL DEF Spec

\* However often the ring wrapped, it holds the newest advantages.
THEOREM WindowIsNewest == Spec => []WindowHoldsTheNewest
  <1>1. Placed /\ [Next]_vars => Placed'
    BY NextPreserves
  <1>2. Placed => WindowHoldsTheNewest
    BY DEF Placed
  <1> QED BY <1>1, <1>2, InitEstablishes, PTL DEF Spec

\* For a recommendation that depends on idle input, still players play on.
THEOREM StillPlayersPlayOn == Spec => []StillPlayersAreNotIdle
  <1>1. ASSUME \A i \in 0 .. MinUniqueFrames - 1 :
                    timesync.last_inputs[i].bits = timesync.last_inputs[0].bits
        PROVE  ~IsIdle(timesync)
    <2>1. 1 \in 0 .. MinUniqueFrames - 1 /\ 1 \in 1 .. MinUniqueFrames - 1
      OBVIOUS
    <2>2. timesync.last_inputs[1].bits = timesync.last_inputs[0].bits
      BY <1>1, <2>1
    <2> QED BY <2>1, <2>2 DEF IsIdle, Equal
  <1>2. StillPlayersAreNotIdle
    BY <1>1 DEF StillPlayersAreNotIdle, RecommendFrameWaitDuration
  <1> QED BY <1>2, PTL

\* A quotient and the interval that it stands for.
LEMMA Quotient ==
    ASSUME NEW a \in Nat, NEW L \in Nat \ {0}
    PROVE  /\ a \div L \in Nat
           /\ L * (a \div L) <= a
           /\ a < L * ((a \div L) + 1)
  <1> DEFINE q == a \div L
             r == a % L
  <1>1. a = L * q + r /\ q \in Nat /\ r \in 0 .. L - 1
    BY DivMod
  <1> HIDE DEF q, r
  <1>2. q \in Nat /\ L * q <= a /\ a < L * (q + 1)
    BY <1>1
  <1> QED BY <1>2 DEF q

(***************************************************************************)
(* For any two sums, the wait is half the difference of the averages, to   *)
(* the nearest frame and with a half rounded up, within its two limits.    *)
(***************************************************************************)
THEOREM WaitIsHalfTheDifference ==
    ASSUME NEW sum \in Int, NEW r_sum \in Int,
           NEW wait, wait = WaitFor(sum, r_sum)
    PROVE  LET lead == r_sum - sum IN
           \/ wait = 0 /\ lead < FrameWindowSize * (2 * MinFrameAdvantage - 1)
           \/ wait \in MinFrameAdvantage .. MaxFrameAdvantage
                /\ IsHalfOf(wait, lead)
           \/ /\ wait = MaxFrameAdvantage
              /\ lead >= FrameWindowSize * (2 * MaxFrameAdvantage - 1)
  <1> DEFINE lead == r_sum - sum
             double == 2 * FrameWindowSize
             quotient == (lead + FrameWindowSize) \div double
  <1>1. CASE lead <= 0
    <2>1. wait = 0
      BY <1>1 DEF WaitFor
    <2>2. FrameWindowSize * (2 * MinFrameAdvantage - 1) >= 1
      <3>1. \A a, b \in Nat \ {0} : a * b >= 1
        OBVIOUS
      <3>2. 2 * MinFrameAdvantage - 1 \in Nat \ {0}
        OBVIOUS
      <3> QED BY <3>1, <3>2
    <2> QED BY <1>1, <2>1, <2>2
  <1>2. CASE lead > 0
    <2>1. lead + FrameWindowSize \in Nat /\ double \in Nat \ {0} /\ lead \in Nat
      BY <1>2
    <2>2. /\ quotient \in Nat
          /\ double * quotient <= lead + FrameWindowSize
          /\ lead + FrameWindowSize < double * (quotient + 1)
      <3> DEFINE a == lead + FrameWindowSize
      <3>1. a \in Nat /\ double \in Nat \ {0}
        BY <2>1
      <3>2. quotient = a \div double
        OBVIOUS
      <3> HIDE DEF a, double, quotient
      <3>3. /\ quotient \in Nat /\ double * quotient <= a
            /\ a < double * (quotient + 1)
        BY <3>1, <3>2, Quotient
      <3> QED BY <3>3 DEF a
    <2>3. /\ lead >= FrameWindowSize * (2 * quotient - 1)
          /\ lead < FrameWindowSize * (2 * quotient + 1)
      <3> HIDE DEF quotient
      <3>1. /\ double * quotient = FrameWindowSize * (2 * quotient)
            /\ double * (quotient + 1) = FrameWindowSize * (2 * quotient + 2)
        BY <2>2
      <3> QED BY <2>1, <2>2, <3>1
    <2>4. wait = IF quotient < MinFrameAdvantage THEN 0
                 ELSE IF quotient > MaxFrameAdvantage THEN MaxFrameAdvantage
                 ELSE quotient
      BY <1>2 DEF WaitFor
    <2> HIDE DEF quotient
    <2>5. CASE quotient < MinFrameAdvantage
      <3>1. FrameWindowSize * (2 * quotient + 1)
                <= FrameWindowSize * (2 * MinFrameAdvantage - 1)
        <4>1. \A a, b, c \in Nat : a <= b => c * a <= c * b
          OBVIOUS
        <4>2. /\ 2 * quotient + 1 \in Nat /\ 2 * MinFrameAdvantage - 1 \in Nat
              /\ 2 * quotient + 1 <= 2 * MinFrameAdvantage - 1
          BY <2>2, <2>5
        <4> QED BY <4>1, <4>2
      <3> QED BY <2>1, <2>2, <2>3, <2>4, <2>5, <3>1
    <2>6. CASE quotient \in MinFrameAdvantage .. MaxFrameAdvantage
      BY <2>2, <2>3, <2>4, <2>6 DEF IsHalfOf
    <2>7. CASE quotient > MaxFrameAdvantage
      <3>1. FrameWindowSize * (2 * MaxFrameAdvantage - 1)
                <= FrameWindowSize * (2 * quotient - 1)
        <4>1. \A a, b, c \in Nat : a <= b => c * a <= c * b
          OBVIOUS
        <4>2. /\ 2 * quotient - 1 \in Nat /\ 2 * MaxFrameAdvantage - 1 \in Nat
              /\ 2 * MaxFrameAdvantage - 1 <= 2 * quotient - 1
          BY <2>2, <2>7
        <4> QED BY <4>1, <4>2
      <3> QED BY <2>1, <2>2, <2>3, <2>4, <2>7, <3>1
    <2> QED BY <2>2, <2>5, <2>6, <2>7
  <1> QED BY <1>1, <1>2

\* What is recommended when idle inputs are not required.
LEMMA WaitOfTheLead ==
    ASSUME IInv
    PROVE  /\ RecommendFrameWaitDuration(timesync, FALSE)
                = WaitFor(SumOf(timesync.local), 0)
           /\ SumOf(timesync.local) \in Int
           /\ Lead = 0 - SumOf(timesync.local)
  <1>1. timesync.local \in Windows /\ timesync.remote \in Windows
    BY DEF IInv, Placed, TypeOK, TimeSyncs
  <1>2. SumOf(timesync.local) \in Int
    BY <1>1, TotalTyped DEF SumOf, Windows
  <1>3. SumOf(timesync.remote) = 0
    BY TotalZero DEF SumOf, IInv, WindowsAddUp
  <1>4. Lead \in Int /\ SumOf(timesync.local) + Lead = 0
    BY LeadTyped DEF IInv, Placed, TypeOK, WindowsAddUp, Lead
  <1>5. Lead = 0 - SumOf(timesync.local)
    BY <1>2, <1>4
  <1> QED BY <1>2, <1>3, <1>5 DEF RecommendFrameWaitDuration

(***************************************************************************)
(* Through any game, the wait recommended is half the mean lead over the   *)
(* newest frames, within its limits, whatever the ring has overwritten.    *)
(***************************************************************************)
THEOREM WaitFollowsTheLead == Spec => []WaitIsHalfTheLead
  <1>1. IInv /\ [Next]_vars => IInv'
    BY NextAddsUp
  <1>2. IInv => WaitIsHalfTheLead
    <2> SUFFICES ASSUME IInv PROVE WaitIsHalfTheLead
      OBVIOUS
    <2> DEFINE wait == RecommendFrameWaitDuration(timesync, FALSE)
               sum == SumOf(timesync.local)
    <2>1. wait = WaitFor(sum, 0) /\ sum \in Int /\ Lead = 0 - sum
      BY WaitOfTheLead
    <2> HIDE DEF wait, sum
    <2>2. \/ wait = 0 /\ Lead < FrameWindowSize * (2 * MinFrameAdvantage - 1)
          \/ wait \in MinFrameAdvantage .. MaxFrameAdvantage
                /\ IsHalfOf(wait, Lead)
          \/ /\ wait = MaxFrameAdvantage
             /\ Lead >= FrameWindowSize * (2 * MaxFrameAdvantage - 1)
      BY <2>1, WaitIsHalfTheDifference
    <2> QED BY <2>2 DEF WaitIsHalfTheLead, wait
  <1> QED BY <1>1, <1>2, InitAddsUp, PTL DEF Spec

(***************************************************************************)
(* However long the round trips and whoever is ahead, a game that goes on  *)
(* is told to wait for as long as can be, from a known frame on.           *)
(***************************************************************************)
THEOREM LongGamesWait == Spec => []LongGamesAreToldToWait
  <1>1. IInv /\ [Next]_vars => IInv'
    BY NextAddsUp
  <1>2. IInv => LongGamesAreToldToWait
    <2> SUFFICES ASSUME IInv, frame >= LongGame
                 PROVE  RecommendFrameWaitDuration(timesync, FALSE)
                            = MaxFrameAdvantage
      BY DEF LongGamesAreToldToWait
    <2> DEFINE wait == RecommendFrameWaitDuration(timesync, FALSE)
               sum == SumOf(timesync.local)
               c == 2 * MaxFrameAdvantage
    <2>1. wait = WaitFor(sum, 0) /\ sum \in Int /\ Lead = 0 - sum
      BY WaitOfTheLead
    <2>2. /\ frame \in Nat /\ LongestTrip \in Nat /\ c \in Nat
          /\ frame >= LongestTrip + c + FrameWindowSize
      BY LongestTripIs DEF IInv, Placed, TypeOK, LongGame
    <2>3. recent \in Seq(Int) /\ Len(recent) = FrameWindowSize
      BY <2>2 DEF IInv, Placed, TypeOK, WindowHoldsTheNewest
    <2>4. ASSUME NEW i \in 1 .. Len(recent)
          PROVE  recent[Len(recent) + 1 - i] <= -c
      <3>1. i \in Nat /\ i <= FrameWindowSize
        BY <2>3
      <3>2. LongestTrip - (frame - i) <= -c
        BY <2>2, <3>1
      <3>3. recent[Len(recent) + 1 - i] <= LongestTrip - (frame - i)
        BY DEF IInv, AdvantagesFall
      <3>4. recent[Len(recent) + 1 - i] \in Int
        BY <2>3
      <3> QED BY <2>2, <3>1, <3>2, <3>3, <3>4
    <2> HIDE DEF wait, sum, c
    <2>5. Lead >= FrameWindowSize * c
      <3>1. c \in Int
        BY <2>2
      <3>2. LeadOver(recent) >= Len(recent) * c
        BY <2>3, <2>4, <3>1, LeadAtLeast
      <3> QED BY <2>3, <3>2 DEF Lead
    <2>6. \/ wait = 0 /\ Lead < FrameWindowSize * (2 * MinFrameAdvantage - 1)
          \/ wait \in MinFrameAdvantage .. MaxFrameAdvantage
                /\ IsHalfOf(wait, Lead)
          \/ wait = MaxFrameAdvantage
      BY <2>1, WaitIsHalfTheDifference
    <2>7. ASSUME NEW k \in Nat, Lead < FrameWindowSize * k PROVE c < k
      <3>1. FrameWindowSize * c < FrameWindowSize * k
        BY <2>1, <2>2, <2>5, <2>7
      <3>2. \A a, b \in Nat :
                a >= b => FrameWindowSize * a >= FrameWindowSize * b
        OBVIOUS
      <3> QED BY <2>2, <3>1, <3>2
    <2>8. CASE wait = 0 /\ Lead < FrameWindowSize * (2 * MinFrameAdvantage - 1)
      <3>1. 2 * MinFrameAdvantage - 1 \in Nat
        OBVIOUS
      <3>2. c < 2 * MinFrameAdvantage - 1
        BY <2>7, <2>8, <3>1
      <3> QED BY <3>2 DEF c
    <2>9. CASE wait \in MinFrameAdvantage .. MaxFrameAdvantage
                /\ IsHalfOf(wait, Lead)
      <3>1. 2 * wait + 1 \in Nat /\ Lead < FrameWindowSize * (2 * wait + 1)
        BY <2>9 DEF IsHalfOf
      <3>2. c < 2 * wait + 1
        BY <2>7, <3>1
      <3>3. wait = MaxFrameAdvantage
        BY <2>9, <3>2 DEF c
      <3> QED BY <3>3 DEF wait
    <2> QED BY <2>6, <2>8, <2>9 DEF wait
  <1> QED BY <1>1, <1>2, InitAddsUp, PTL DEF Spec
=============================================================================
