------------------------------ MODULE TxProofs ------------------------------
(***************************************************************************)
(* Proofs about TxStreamer: what a frame holds, how frames of a burst      *)
(* follow each other in time, and that ids tell of those missing between   *)
(* them, for every frame size, rate, clock, length of bursts and pattern   *)
(* of failed sends.                                                        *)
(***************************************************************************)
EXTENDS TxStreamer, TLAPS

BurstType == [length : Nat \ {0}, n : Nat, timeNs : Nat, trials : Nat, calls : Nat]

Types ==
  /\ bursts \in Nat /\ timeNsOld \in Nat /\ items_in_buf = 0
  /\ burst # None => burst \in BurstType

(* The samples n + 1 .. n + items of the burst, and zeros. *)
Part(n, items) == [k \in 1..FrameItems |-> IF k <= items THEN <<bursts, n + k>> ELSE Zero]

Duration(items) == (items * NanosPerSec) \div (SamplingFrequency * TS_TO_NS)

(* The frame of a call that takes this many samples. *)
FrameOf(items) ==
  [data |-> Part(burst.n, items), time |-> burst.timeNs \div TS_TO_NS,
   duration |-> Duration(items), id |-> tx_id % IdRange]

(* Bursts are numbered, and the last frame is of none that is to come. *)
FrameIsOld == frame # None => frame.data[1][1] \in 0..bursts

(* The last frame of the burst under way, and the time of what follows it. *)
Follows(n, items) ==
  /\ frame.data = Part(n, items)
  /\ n + items <= burst.n
  /\ burst.n = n + items =>
       \E t \in Nat : /\ frame.time = t \div TS_TO_NS /\ frame.duration = Duration(items)
                      /\ \/ burst.timeNs = t + SamplesToTimeNs(items)
                         \/ burst.n >= burst.length

LastFrame ==
  (frame # None /\ burst # None /\ frame.data[1][1] = bursts)
    => \E n \in Nat, items \in 1..FrameItems : Follows(n, items)

SendInv == Types /\ FrameIsOld /\ LastFrame

-----------------------------------------------------------------------------
(* Arithmetic *)

(* What division leaves. *)
LEMMA Quotient ==
  ASSUME NEW n \in Nat \ {0}, NEW a \in Nat
  PROVE  a \div n \in Nat /\ n * (a \div n) <= a /\ a < n * (a \div n) + n
OBVIOUS

(* A factor is left out of a comparison. *)
LEMMA Cancel == ASSUME NEW k \in Nat \ {0}, NEW a \in Int, NEW b \in Int, k * a < k * b PROVE a < b
OBVIOUS

(* The constants are what they stand for. *)
LEMMA Positive ==
  /\ SamplingFrequency \in Nat \ {0} /\ NanosPerSec \in Nat \ {0} /\ TS_TO_NS \in Nat \ {0}
  /\ FrameItems \in Nat \ {0}
BY TxAssumption

(* A number of samples lasts a whole number of nanoseconds. *)
LEMMA Lasts == ASSUME NEW i \in Nat PROVE SamplesToTimeNs(i) \in Nat
<1>1. 2 * SamplingFrequency \in Nat \ {0} /\ 2 * i * NanosPerSec + SamplingFrequency \in Nat
  BY Positive
<1> QED BY <1>1, Quotient DEF SamplesToTimeNs

(* No samples last no time. *)
LEMMA NoneLast == SamplesToTimeNs(0) = 0
<1> DEFINE q == SamplingFrequency \div (2 * SamplingFrequency)
<1>1. 2 * SamplingFrequency \in Nat \ {0} /\ SamplingFrequency \in Nat \ {0}
  BY Positive
<1>2. q \in Nat /\ (2 * SamplingFrequency) * q <= SamplingFrequency
  BY <1>1, Quotient
<1>3. 2 * 0 * NanosPerSec + SamplingFrequency = SamplingFrequency
  BY Positive
<1> HIDE DEF q
<1>4. q = 0
  <2> SUFFICES ASSUME q >= 1 PROVE FALSE
    BY <1>2
  <2>1. (2 * SamplingFrequency) * q >= 2 * SamplingFrequency
    BY <1>1, <1>2
  <2> QED BY <1>1, <1>2, <2>1
<1> QED BY <1>3, <1>4 DEF SamplesToTimeNs, q

(***************************************************************************)
(* Samples sent at t end, by the duration in their frame, at the tick that *)
(* the next samples' time falls in, or a tick before.                      *)
(***************************************************************************)
LEMMA NextTick ==
  ASSUME NEW t \in Nat, NEW i \in Nat
  PROVE  (t + SamplesToTimeNs(i)) \div TS_TO_NS - (t \div TS_TO_NS + Duration(i)) \in {0, 1}
<1> DEFINE F == SamplingFrequency
           S == TS_TO_NS
           x == i * NanosPerSec
           r == SamplesToTimeNs(i)
           d == Duration(i)
           a == t \div S
           c == (t + r) \div S
<1>1. F \in Nat \ {0} /\ S \in Nat \ {0} /\ x \in Nat
  BY Positive
<1>2. r \in Nat /\ (2 * F) * r <= 2 * x + F /\ 2 * x + F < (2 * F) * r + 2 * F
  <2>1. 2 * F \in Nat \ {0} /\ 2 * x + F \in Nat /\ 2 * i * NanosPerSec = 2 * x
    BY <1>1, Positive
  <2>2. r = (2 * x + F) \div (2 * F)
    BY <2>1 DEF SamplesToTimeNs
  <2> HIDE DEF F, x, r
  <2> QED BY <2>1, <2>2, Quotient
<1>3. d \in Nat /\ (F * S) * d <= x /\ x < (F * S) * d + F * S
  <2>1. F * S \in Nat \ {0}
    BY <1>1
  <2>2. d = x \div (F * S)
    BY DEF Duration
  <2> HIDE DEF F, x, d, S
  <2> QED BY <1>1, <2>1, <2>2, Quotient
<1> HIDE DEF F, S, x, r, d
<1>4. a \in Nat /\ S * a <= t /\ t < S * a + S
  BY <1>1, Quotient
<1>5. c \in Nat /\ S * c <= t + r /\ t + r < S * c + S
  <2>1. t + r \in Nat
    BY <1>2
  <2> QED BY <1>1, <2>1, Quotient
<1> HIDE DEF a, c
<1>6. S * d \in Nat /\ F * (S * d) = (F * S) * d
  BY <1>1, <1>3
<1>7. r >= S * d
  <2> DEFINE y == S * d
  <2>1. y \in Nat /\ F * y <= x
    BY <1>3, <1>6
  <2> HIDE DEF y
  <2> SUFFICES ASSUME r < y PROVE FALSE
    BY <1>2, <2>1 DEF y
  <2>2. r + 1 <= y /\ (2 * F) * y = 2 * (F * y)
    BY <1>1, <1>2, <2>1
  <2>3. (2 * F) * (r + 1) <= (2 * F) * y
    BY <1>1, <1>2, <2>1, <2>2
  <2>4. (2 * F) * (r + 1) = (2 * F) * r + 2 * F
    BY <1>1, <1>2
  <2> QED BY <1>1, <1>2, <2>1, <2>2, <2>3, <2>4
<1>8. r <= S * d + S
  <2> DEFINE z == S * d + S
  <2>1. z \in Nat /\ x < F * z
    <3>1. F * z = F * (S * d) + F * S
      BY <1>1, <1>6
    <3> QED BY <1>1, <1>3, <1>6, <3>1
  <2> HIDE DEF z
  <2>2. (2 * F) * r < (2 * F) * (z + 1)
    <3>1. (2 * F) * (z + 1) = 2 * (F * z) + 2 * F /\ F * z \in Nat
      BY <1>1, <2>1
    <3> QED BY <1>1, <1>2, <2>1, <3>1
  <2>3. r < z + 1
    <3>1. 2 * F \in Nat \ {0} /\ r \in Int /\ z + 1 \in Int
      BY <1>1, <1>2, <2>1
    <3> QED BY <2>2, <3>1, Cancel
  <2> QED BY <1>2, <2>1, <2>3 DEF z
<1>9. a + d <= c
  <2>1. S * (a + d) < S * (c + 1)
    <3>1. S * (a + d) = S * a + S * d /\ S * (c + 1) = S * c + S
      BY <1>1, <1>3, <1>4, <1>5
    <3> DEFINE p == S * a
               q == S * d
               u == S * c
    <3>2. p \in Nat /\ q \in Nat /\ u \in Nat /\ r \in Nat /\ S \in Nat
      BY <1>1, <1>2, <1>4, <1>5, <1>6
    <3>3. p <= t /\ t + r < u + S /\ r >= q
      BY <1>4, <1>5, <1>7
    <3>4. S * (a + d) = p + q /\ S * (c + 1) = u + S
      BY <3>1
    <3> HIDE DEF p, q, u
    <3>5. p + q < u + S
      BY <3>2, <3>3
    <3> QED BY <3>4, <3>5
  <2>2. a + d < c + 1
    <3>1. a + d \in Int /\ c + 1 \in Int
      BY <1>3, <1>4, <1>5
    <3> QED BY <1>1, <2>1, <3>1, Cancel
  <2> QED BY <1>3, <1>4, <1>5, <2>2
<1>10. c <= a + d + 1
  <2>1. S * c < S * (a + d + 2)
    <3>1. S * (a + d + 2) = S * a + S * d + S + S
      BY <1>1, <1>3, <1>4
    <3>2. S * a \in Nat /\ S * c \in Nat
      BY <1>1, <1>4, <1>5
    <3> QED BY <1>1, <1>2, <1>4, <1>5, <1>6, <1>8, <3>1, <3>2
  <2>2. c < a + d + 2
    <3>1. c \in Int /\ a + d + 2 \in Int
      BY <1>3, <1>4, <1>5
    <3> QED BY <1>1, <2>1, <3>1, Cancel
  <2> QED BY <1>3, <1>4, <1>5, <2>2
<1>11. c - (a + d) \in {0, 1}
  BY <1>3, <1>4, <1>5, <1>9, <1>10
<1> QED BY <1>11 DEF a, c, d, r, S

-----------------------------------------------------------------------------
(* Steps *)

(* Nothing was begun or sent. *)
LEMMA SendInit == ASSUME Init PROVE SendInv
<1>1. Types /\ FrameIsOld /\ LastFrame
  BY DEF Init, Types, FrameIsOld, LastFrame
<1> QED BY <1>1 DEF SendInv

(* A call fills a frame from its beginning with its samples. *)
LEMMA CallFills ==
  ASSUME SendInv, NEW sent \in BOOLEAN, WriteStream(sent)
  PROVE  LET items == Least(FrameItems, burst.length - burst.n) IN
           /\ items \in 1..FrameItems /\ items <= burst.length - burst.n
           /\ items = FrameItems \/ items = burst.length - burst.n
           /\ burst' = Advance(Returned(items, sent)) /\ items_in_buf' = 0
           /\ tx_buffer' = FrameOf(items) /\ tx_id' = tx_id + 1
           /\ sent => frame' = FrameOf(items)
           /\ sent => /\ frame'.data = Part(burst.n, items)
                      /\ frame'.time = burst.timeNs \div TS_TO_NS
                      /\ frame'.duration = Duration(items)
           /\ ~sent => frame' = frame
<1> DEFINE items == Least(FrameItems, burst.length - burst.n)
           full == Filled(items)
           out == [full EXCEPT !.data = ZeroFill(@, items)]
<1>1. /\ burst \in BurstType /\ items_in_buf = 0 /\ burst.n < burst.length
      /\ FrameItems \in Nat \ {0}
  BY Positive DEF WriteStream, SendInv, Types
<1>2. burst.n \in Nat /\ burst.length \in Nat
  BY <1>1 DEF BurstType
<1>3. /\ items \in 1..FrameItems /\ items <= burst.length - burst.n
      /\ items = FrameItems \/ items = burst.length - burst.n
  BY <1>1, <1>2 DEF Least
<1>4. FrameItems - items_in_buf = FrameItems
  BY <1>1
<1>5. /\ burst' = Advance(Returned(items, sent))
      /\ SendBuf(full, items_in_buf + items + MetaItems, sent)
  BY <1>4 DEF WriteStream
<1> HIDE DEF items
<1>6. /\ items_in_buf + items + MetaItems = items + 6 /\ items + 6 # 0
      /\ (items + 6) - MetaItems = items
  BY <1>1, <1>3 DEF MetaItems
<1>7. SendBuf(full, items + 6, sent)
  BY <1>5, <1>6
<1>8. /\ items_in_buf' = 0 /\ tx_buffer' = out /\ tx_id' = tx_id + 1
      /\ frame' = IF sent THEN out ELSE frame
  <2> HIDE DEF full
  <2> QED BY <1>6, <1>7 DEF SendBuf
<1>9. full.data = [k \in 1..FrameItems |->
                     IF k \in 0 + 1 .. 0 + items THEN <<bursts, burst.n + k - 0>>
                                                 ELSE tx_buffer.data[k]]
  BY <1>1 DEF Filled, CopySamples
<1>10. out.data = ZeroFill(full.data, items)
  BY DEF Filled
<1>11. out.data = Part(burst.n, items)
  <2>1. ASSUME NEW k \in 1..FrameItems
        PROVE  (IF k > items THEN Zero ELSE full.data[k])
                 = IF k <= items THEN <<bursts, burst.n + k>> ELSE Zero
    <3>1. k \in Int /\ k >= 1 /\ items \in Int /\ burst.n + k - 0 = burst.n + k
      BY <1>2, <1>3
    <3>2. CASE k <= items
      <4>1. k \in 0 + 1 .. 0 + items /\ ~(k > items)
        BY <3>1, <3>2
      <4> QED BY <1>9, <3>1, <3>2, <4>1
    <3>3. CASE ~(k <= items)
      BY <3>1, <3>3
    <3> QED BY <3>2, <3>3
  <2> HIDE DEF full, out
  <2> QED BY <1>10, <2>1 DEF ZeroFill, Part
<1>12. out.time = burst.timeNs \div TS_TO_NS /\ out.duration = Duration(items)
  BY DEF Filled, Duration
<1>13. out = [data |-> ZeroFill(full.data, items), time |-> burst.timeNs \div TS_TO_NS,
               duration |-> Duration(items), id |-> tx_id % IdRange]
  BY DEF Filled, Duration
<1> HIDE DEF out, full
<1>14. out = FrameOf(items)
  BY <1>10, <1>11, <1>13 DEF FrameOf
<1> QED BY <1>3, <1>5, <1>8, <1>11, <1>12, <1>14 DEF items

(* A call that sent its frame, or failed to. *)
LEMMA CallInv ==
  ASSUME SendInv, NEW sent \in BOOLEAN, WriteStream(sent)
  PROVE  SendInv'
<1> DEFINE items == Least(FrameItems, burst.length - burst.n)
           ret == Returned(items, sent)
<1>1. /\ items \in 1..FrameItems
      /\ burst' = Advance(ret) /\ items_in_buf' = 0
      /\ sent => /\ frame'.data = Part(burst.n, items)
                 /\ frame'.time = burst.timeNs \div TS_TO_NS
                 /\ frame'.duration = Duration(items)
      /\ ~sent => frame' = frame
  BY CallFills
<1>2. burst # None /\ bursts' = bursts /\ timeNsOld' = timeNsOld /\ burst.n < burst.length
  BY DEF WriteStream
<1>3. Types /\ burst \in BurstType /\ FrameIsOld /\ LastFrame /\ FrameItems \in Nat \ {0}
  BY <1>2, Positive DEF SendInv, Types
<1> HIDE DEF items
<1>4. ret \in Int /\ (sent => ret = items)
  BY <1>1, TxAssumption DEF Returned
<1> HIDE DEF ret
<1>5. /\ burst.n \in Nat /\ burst.length \in Nat \ {0} /\ burst.timeNs \in Nat
      /\ burst.trials \in Nat /\ burst.calls \in Nat
  BY <1>3 DEF BurstType
<1>6. ret >= 0 => /\ burst'.n = burst.n + ret /\ burst'.trials = burst.trials + 1
                  /\ burst'.length = burst.length /\ burst'.calls = burst.calls
                  /\ burst'.timeNs = IF ret < burst.length THEN burst.timeNs + SamplesToTimeNs(ret)
                                                           ELSE burst.timeNs
                  /\ burst' \in [length : {burst.length}, n : {burst.n + ret},
                                 timeNs : {burst'.timeNs}, trials : {burst.trials + 1},
                                 calls : {burst.calls}]
  BY <1>1, <1>3 DEF Advance, BurstType
<1>7. ~(ret >= 0) => /\ burst'.n = burst.n /\ burst'.trials = burst.trials + 1
                     /\ burst'.length = burst.length /\ burst'.calls = burst.calls
                     /\ burst'.timeNs = burst.timeNs
                     /\ burst' \in [length : {burst.length}, n : {burst.n},
                                    timeNs : {burst.timeNs}, trials : {burst.trials + 1},
                                    calls : {burst.calls}]
  BY <1>1, <1>3 DEF Advance, BurstType
<1>8. ret >= 0 => SamplesToTimeNs(ret) \in Nat
  BY <1>4, Lasts
<1>9. burst' \in BurstType
  <2>1. CASE ret >= 0
    <3>1. burst'.timeNs \in Nat
      BY <1>5, <1>6, <1>8, <2>1
    <3>2. burst.n + ret \in Nat /\ burst.trials + 1 \in Nat
      BY <1>4, <1>5, <2>1
    <3> QED BY <1>5, <1>6, <2>1, <3>1, <3>2 DEF BurstType
  <2>2. CASE ~(ret >= 0)
    BY <1>5, <1>7, <2>2 DEF BurstType
  <2> QED BY <2>1, <2>2
<1>10. Types'
  BY <1>1, <1>2, <1>3, <1>9 DEF Types
<1>11. sent => frame'.data[1] = <<bursts, burst.n + 1>>
  BY <1>1, <1>3 DEF Part
<1>12. FrameIsOld'
  <2>1. CASE sent
    BY <1>2, <1>3, <1>11, <2>1 DEF FrameIsOld, Types
  <2>2. CASE ~sent
    BY <1>1, <1>2, <1>3, <2>2 DEF FrameIsOld
  <2> QED BY <2>1, <2>2
<1>13. LastFrame'
  <2>1. CASE sent
    <3>1. ret = items /\ ret >= 0
      BY <1>1, <1>4, <2>1
    <3>2. burst'.n = burst.n + items
      BY <1>6, <3>1
    <3>3. \/ burst'.timeNs = burst.timeNs + SamplesToTimeNs(items)
          \/ burst'.n >= burst'.length
      <4>1. CASE items < burst.length
        BY <1>6, <3>1, <4>1
      <4>2. CASE ~(items < burst.length)
        BY <1>1, <1>5, <1>6, <3>1, <3>2, <4>2
      <4> QED BY <4>1, <4>2
    <3>5. /\ frame'.data = [k \in 1..FrameItems |->
                              IF k <= items THEN <<bursts', burst.n + k>> ELSE Zero]
      BY <1>1, <1>2, <2>1 DEF Part
    <3>6. \E t \in Nat : /\ frame'.time = t \div TS_TO_NS /\ frame'.duration = Duration(items)
                         /\ \/ burst'.timeNs = t + SamplesToTimeNs(items)
                            \/ burst'.n >= burst'.length
      BY <1>1, <1>5, <2>1, <3>3
    <3>7. burst.n + items <= burst'.n
      BY <1>1, <1>5, <3>2
    <3>8. \E n \in Nat, i \in 1..FrameItems :
            /\ frame'.data = [k \in 1..FrameItems |->
                                IF k <= i THEN <<bursts', n + k>> ELSE Zero]
            /\ n + i <= burst'.n
            /\ burst'.n = n + i =>
                 \E t \in Nat : /\ frame'.time = t \div TS_TO_NS /\ frame'.duration = Duration(i)
                                /\ \/ burst'.timeNs = t + SamplesToTimeNs(i)
                                   \/ burst'.n >= burst'.length
      BY <1>1, <1>5, <3>5, <3>6, <3>7
    <3> QED BY <3>8 DEF LastFrame, Follows, Part, Duration, SamplesToTimeNs
  <2>2. CASE ~sent
    <3> SUFFICES ASSUME frame # None, frame.data[1][1] = bursts
                 PROVE  \E n \in Nat, i \in 1..FrameItems : Follows(n, i)'
      BY <1>1, <1>2, <2>2 DEF LastFrame
    <3>1. PICK n \in Nat, i \in 1..FrameItems : Follows(n, i)
      BY <1>2, <1>3 DEF LastFrame
    <3>2. n + i <= burst'.n /\ frame.data = Part(n, i) /\ n + i <= burst.n
      BY <1>4, <1>5, <1>6, <1>7, <3>1 DEF Follows
    <3>3. ASSUME burst'.n = n + i
          PROVE  burst.n = n + i /\ (burst'.timeNs = burst.timeNs)
      <4>1. CASE ret >= 0
        <5>1. burst.n + ret = n + i /\ n + i <= burst.n
          BY <1>6, <3>2, <3>3, <4>1
        <5>2. n + i \in Int
          OBVIOUS
        <5>3. ret = 0 /\ burst.n = n + i
          BY <1>4, <1>5, <4>1, <5>1, <5>2
        <5>4. burst'.timeNs = burst.timeNs + SamplesToTimeNs(0)
          BY <1>5, <1>6, <4>1, <5>3
        <5> QED BY <1>5, <5>3, <5>4, NoneLast
      <4>2. CASE ~(ret >= 0)
        BY <1>7, <3>3, <4>2
      <4> QED BY <4>1, <4>2
    <3>4. burst'.n >= burst.n /\ burst'.length = burst.length
      BY <1>4, <1>5, <1>6, <1>7
    <3>5. ASSUME burst'.n = n + i
          PROVE  \E t \in Nat : /\ frame.time = t \div TS_TO_NS /\ frame.duration = Duration(i)
                                /\ \/ burst'.timeNs = t + SamplesToTimeNs(i)
                                   \/ burst'.n >= burst'.length
      BY <3>1, <3>3, <3>4, <3>5 DEF Follows
    <3>6. /\ frame'.data = [k \in 1..FrameItems |->
                              IF k <= i THEN <<bursts', n + k>> ELSE Zero]
          /\ n + i <= burst'.n /\ frame' = frame
      BY <1>1, <1>2, <2>2, <3>2 DEF Part
    <3>7. Follows(n, i)'
      BY <3>5, <3>6 DEF Follows, Part, Duration, SamplesToTimeNs
    <3> QED BY <3>7
  <2> QED BY <2>1, <2>2
<1> QED BY <1>10, <1>12, <1>13 DEF SendInv

(* A new burst has a number that no frame has. *)
LEMMA BeginInv ==
  ASSUME SendInv, NEW length \in Lengths, NEW t \in Times,
         BeginBurst(length, t) \/ TrxWrite(length, t)
  PROVE  SendInv'
<1>1. bursts \in Nat /\ timeNsOld \in Nat /\ items_in_buf = 0
  BY DEF SendInv, Types
<1>2. /\ bursts' = bursts + 1 /\ frame' = frame
      /\ items_in_buf' = 0
  BY <1>1 DEF BeginBurst, TrxWrite
<1>3. length \in Nat \ {0} /\ t \in Nat /\ Nudge \in Nat /\ MaxTrials \in Nat
  BY TxAssumption
<1>4. BurstTime(t) \in Nat
  BY <1>1, <1>3 DEF BurstTime
<1>5. SamplesToTimeNs(t) \in Nat
  BY <1>3, Lasts
<1>6. burst' \in BurstType /\ timeNsOld' \in Nat
  BY <1>1, <1>3, <1>4, <1>5 DEF BeginBurst, TrxWrite, BurstType
<1>7. Types'
  BY <1>1, <1>2, <1>6 DEF Types
<1>8. FrameIsOld' /\ LastFrame'
  BY <1>1, <1>2 DEF SendInv, FrameIsOld, LastFrame
<1> QED BY <1>7, <1>8 DEF SendInv

(* Nothing is left in the buffer for a flush, and an end sends nothing. *)
LEMMA RestInv ==
  ASSUME SendInv,
         TrxStart \/ EndBurst \/ (\E sent \in BOOLEAN : StopTx(sent)) \/ UNCHANGED vars
  PROVE  SendInv' /\ frame' = frame
<1>1. items_in_buf = 0
  BY DEF SendInv, Types
<1>2. /\ frame' = frame /\ bursts' = bursts /\ timeNsOld' = timeNsOld /\ items_in_buf' = 0
      /\ burst' = burst \/ burst' = None
  BY <1>1 DEF TrxStart, EndBurst, StopTx, vars, appVars
<1>3. Types' /\ FrameIsOld'
  BY <1>2 DEF SendInv, Types, FrameIsOld
<1>4. LastFrame'
  <2>1. CASE burst' = None
    BY <2>1 DEF LastFrame
  <2>2. CASE burst' = burst
    BY <1>2, <2>2 DEF SendInv, LastFrame, Follows, Part, Duration, SamplesToTimeNs
  <2> QED BY <1>2, <2>1, <2>2
<1> QED BY <1>2, <1>3, <1>4 DEF SendInv

(* Every step keeps the invariant. *)
LEMMA SendStep == ASSUME SendInv, [Next]_vars PROVE SendInv'
<1>1. CASE \E length \in Lengths, t \in Times : BeginBurst(length, t) \/ TrxWrite(length, t)
  BY <1>1, BeginInv
<1>2. CASE \E sent \in BOOLEAN : WriteStream(sent)
  BY <1>2, CallInv
<1>3. CASE TrxStart \/ EndBurst \/ (\E sent \in BOOLEAN : StopTx(sent)) \/ UNCHANGED vars
  BY <1>3, RestInv
<1> QED BY <1>1, <1>2, <1>3 DEF Next

(* A step that sends a frame is a call. *)
LEMMA OnlyCallsSend ==
  ASSUME SendInv, [Next]_vars, frame' # frame
  PROVE  WriteStream(TRUE)
<1>1. CASE \E length \in Lengths, t \in Times : BeginBurst(length, t) \/ TrxWrite(length, t)
  BY <1>1 DEF BeginBurst, TrxWrite
<1>2. CASE TrxStart \/ EndBurst \/ (\E sent \in BOOLEAN : StopTx(sent)) \/ UNCHANGED vars
  BY <1>2, RestInv
<1>3. CASE \E sent \in BOOLEAN : WriteStream(sent)
  <2>1. PICK sent \in BOOLEAN : WriteStream(sent)
    BY <1>3
  <2>2. ~sent => frame' = frame
    BY <2>1, CallFills
  <2>3. sent = TRUE
    BY <2>1, <2>2
  <2> QED BY <2>1, <2>3
<1> QED BY <1>1, <1>2, <1>3 DEF Next

(***************************************************************************)
(* A frame is sent by a call of writeStream only, and holds its samples    *)
(* with zeros behind them: tx_streamer sends nothing twice, whatever       *)
(* failed before, and the flush of deactivateStream sends nothing.         *)
(***************************************************************************)
THEOREM FramesHoldCalls == Spec => FrameHoldsCall
<1>1. Init => SendInv
  BY SendInit
<1>2. SendInv /\ [Next]_vars => SendInv'
  BY SendStep
<1>3. ASSUME SendInv, [Next]_vars
      PROVE  [frame' # frame =>
               /\ burst # None
               /\ frame'.data = [k \in 1..FrameItems |->
                    IF burst.n + k <= burst.length THEN <<bursts, burst.n + k>> ELSE Zero]]_vars
  <2> SUFFICES ASSUME frame' # frame
               PROVE  /\ burst # None
                      /\ frame'.data = [k \in 1..FrameItems |->
                           IF burst.n + k <= burst.length THEN <<bursts, burst.n + k>> ELSE Zero]
    OBVIOUS
  <2> DEFINE items == Least(FrameItems, burst.length - burst.n)
  <2>1. WriteStream(TRUE)
    BY <1>3, OnlyCallsSend
  <2>2. burst # None /\ burst \in BurstType
    BY <1>3, <2>1 DEF WriteStream, SendInv, Types
  <2>3. burst.n \in Nat /\ burst.length \in Nat /\ FrameItems \in Nat
    BY <2>2, Positive DEF BurstType
  <2>4. /\ items \in 1..FrameItems
        /\ items <= burst.length - burst.n
        /\ items = FrameItems \/ items = burst.length - burst.n
        /\ frame'.data = Part(burst.n, items)
    BY <1>3, <2>1, CallFills
  <2> HIDE DEF items
  <2>5. ASSUME NEW k \in 1..FrameItems
        PROVE  k <= items <=> burst.n + k <= burst.length
    BY <2>3, <2>4
  <2> QED BY <2>2, <2>4, <2>5 DEF Part
<1> QED BY <1>1, <1>2, <1>3, PTL DEF Spec, FrameHoldsCall

(***************************************************************************)
(* Frames of a burst with nothing missing between them are gapless in the  *)
(* board's clock: the second begins where the first ended or a tick later, *)
(* for every rate, clock and length, and whatever failed before.           *)
(***************************************************************************)
THEOREM FramesAreGapless == Spec => BackToBack
<1>1. Init => SendInv
  BY SendInit
<1>2. SendInv /\ [Next]_vars => SendInv'
  BY SendStep
<1>3. ASSUME SendInv, [Next]_vars
      PROVE  [frame # None /\ frame' # frame /\ Adjacent(frame, frame') =>
                frame'.time - (frame.time + frame.duration) \in {0, 1}]_vars
  <2> SUFFICES ASSUME frame # None, frame' # frame, Adjacent(frame, frame')
               PROVE  frame'.time - (frame.time + frame.duration) \in {0, 1}
    OBVIOUS
  <2>1. WriteStream(TRUE)
    BY <1>3, OnlyCallsSend
  <2>2. burst # None /\ burst \in BurstType /\ burst.n < burst.length /\ LastFrame
    BY <1>3, <2>1 DEF WriteStream, SendInv, Types
  <2>3. burst.n \in Nat /\ burst.length \in Nat /\ FrameItems \in Nat \ {0}
    BY <2>2, Positive DEF BurstType
  <2>4. PICK m \in 1..FrameItems : /\ frame'.data = Part(burst.n, m)
                                   /\ frame'.time = burst.timeNs \div TS_TO_NS
    BY <1>3, <2>1, CallFills
  <2>5. frame'.data[1] = <<bursts, burst.n + 1>>
    BY <2>3, <2>4 DEF Part
  <2>6. PICK b \in 1..MaxBursts :
          /\ frame.data[1][1] = b /\ frame'.data[1][1] = b
          /\ frame'.data[1][2] - 1 \in Indices(frame, b)
    BY DEF Adjacent
  <2>7. b = bursts /\ b # 0 /\ burst.n \in Indices(frame, bursts)
    <3>1. b = bursts /\ b # 0
      BY <2>5, <2>6
    <3>2. frame'.data[1][2] - 1 = burst.n
      BY <2>3, <2>5
    <3> QED BY <2>6, <3>1, <3>2
  <2>8. PICK n \in Nat, i \in 1..FrameItems : Follows(n, i)
    BY <2>2, <2>6, <2>7 DEF LastFrame
  <2>9. burst.n <= n + i
    <3>1. PICK k \in 1..FrameItems : frame.data[k][1] = bursts /\ burst.n = frame.data[k][2]
      BY <2>7 DEF Indices
    <3>2. frame.data[k] = IF k <= i THEN <<bursts, n + k>> ELSE Zero
      BY <2>8 DEF Follows, Part
    <3>3. Zero[1] = 0 /\ bursts # 0
      BY <2>7 DEF Zero
    <3>4. k <= i
      BY <3>1, <3>2, <3>3
    <3>5. burst.n = n + k
      BY <3>1, <3>2, <3>4
    <3> QED BY <2>3, <3>4, <3>5
  <2>10. burst.n = n + i
    <3>1. n + i <= burst.n
      BY <2>8 DEF Follows
    <3> QED BY <2>3, <2>9, <3>1
  <2>11. PICK t \in Nat : /\ frame.time = t \div TS_TO_NS /\ frame.duration = Duration(i)
                          /\ \/ burst.timeNs = t + SamplesToTimeNs(i)
                             \/ burst.n >= burst.length
    BY <2>8, <2>10 DEF Follows
  <2>12. burst.timeNs = t + SamplesToTimeNs(i)
    BY <2>2, <2>3, <2>11
  <2>13. i \in Nat
    BY <2>3
  <2> QED BY <2>4, <2>11, <2>12, <2>13, NextTick
<1> QED BY <1>1, <1>2, <1>3, PTL DEF Spec, BackToBack

-----------------------------------------------------------------------------
(***************************************************************************)
(* Types                                                                   *)
(***************************************************************************)

(* The constants are numbers. *)
LEMMA Bounds ==
  /\ MaxTrials \in Nat \ {0} /\ MaxBursts \in Nat /\ IdRange \in Nat \ {0} /\ Nudge \in Nat
  /\ Lengths \subseteq Nat \ {0} /\ Times \subseteq Nat /\ SOAPY_SDR_ERROR \in Int
BY TxAssumption

(* The cleared buffer is a frame. *)
LEMMA ZeroIsFrame == ZeroBuffer \in Frame
<1>1. Zero \in Sample /\ 0 \in 0..IdRange - 1
  BY Bounds DEF Zero, Sample
<1> QED BY <1>1 DEF ZeroBuffer, Frame

(* What a call sends is a frame. *)
LEMMA FrameOfTypes ==
  ASSUME bursts \in 0..MaxBursts, burst.n \in Nat, burst.timeNs \in Nat, tx_id \in Nat,
         NEW items \in Nat
  PROVE  FrameOf(items) \in Frame
<1>1. Part(burst.n, items) \in [1..FrameItems -> Sample]
  <2>1. ASSUME NEW k \in 1..FrameItems
        PROVE  (IF k <= items THEN <<bursts, burst.n + k>> ELSE Zero) \in Sample
    <3>1. burst.n + k \in Nat /\ 0 \in 0..MaxBursts
      BY Bounds
    <3> QED BY <3>1 DEF Sample, Zero
  <2> QED BY <2>1 DEF Part
<1>2. burst.timeNs \div TS_TO_NS \in Nat
  BY Positive, Quotient
<1>3. Duration(items) \in Nat
  <2>1. items * NanosPerSec \in Nat /\ SamplingFrequency * TS_TO_NS \in Nat \ {0}
    BY Positive
  <2> QED BY <2>1, Quotient DEF Duration
<1>4. tx_id % IdRange \in 0..IdRange - 1
  BY Bounds
<1> HIDE DEF FrameOf
<1> QED BY <1>1, <1>2, <1>3, <1>4 DEF FrameOf, Frame

(* Every step keeps the types. *)
LEMMA TxTypeStep == ASSUME SendInv, TypeOK, [Next]_vars PROVE TypeOK'
<1>1. /\ user \in {"program", "adapter"} /\ active \in BOOLEAN /\ bursts \in 0..MaxBursts
      /\ burst \in Burst \cup {None} /\ timeNsOld \in Nat /\ tx_buffer \in Frame
      /\ items_in_buf = 0 /\ tx_id \in Nat /\ frame \in Frame \cup {None}
  BY DEF TypeOK
<1>2. ASSUME /\ user' \in {"program", "adapter"} /\ active' \in BOOLEAN /\ bursts' \in 0..MaxBursts
             /\ burst' \in Burst \cup {None} /\ timeNsOld' \in Nat /\ tx_buffer' \in Frame
             /\ items_in_buf' = 0 /\ tx_id' \in Nat /\ frame' \in Frame \cup {None}
      PROVE  TypeOK'
  BY <1>2 DEF TypeOK, Burst, Frame, Sample
<1>3. ASSUME NEW length \in Lengths, NEW t \in Times, BeginBurst(length, t) PROVE TypeOK'
  <2>1. /\ bursts < MaxBursts /\ bursts' = bursts + 1 /\ timeNsOld' = BurstTime(t) /\ active' = TRUE
        /\ burst' = [length |-> length, n |-> 0, timeNs |-> BurstTime(t), trials |-> 0,
                     calls |-> MaxTrials]
        /\ (tx_buffer' = tx_buffer /\ items_in_buf' = items_in_buf)
           \/ (tx_buffer' = ZeroBuffer /\ items_in_buf' = 0)
        /\ UNCHANGED <<user, tx_id, frame>>
    BY <1>3 DEF BeginBurst
  <2>2. BurstTime(t) \in Nat
    BY <1>1, Bounds DEF BurstTime
  <2>3. burst' \in Burst /\ bursts' \in 0..MaxBursts
    BY <1>1, <2>1, <2>2, Bounds DEF Burst
  <2> QED BY <1>1, <1>2, <2>1, <2>2, <2>3, ZeroIsFrame
<1>4. ASSUME NEW length \in Lengths, NEW t \in Times, TrxWrite(length, t) PROVE TypeOK'
  <2>1. /\ bursts < MaxBursts /\ bursts' = bursts + 1
        /\ burst' = [length |-> length, n |-> 0, timeNs |-> SamplesToTimeNs(t), trials |-> 0,
                     calls |-> 1]
        /\ UNCHANGED <<user, active, timeNsOld, tx_buffer, items_in_buf, tx_id, frame>>
    BY <1>4 DEF TrxWrite
  <2>2. SamplesToTimeNs(t) \in Nat
    BY Bounds, Lasts
  <2>3. burst' \in Burst /\ bursts' \in 0..MaxBursts
    BY <1>1, <2>1, <2>2, Bounds DEF Burst
  <2> QED BY <1>1, <1>2, <2>1, <2>3
<1>5. ASSUME NEW sent \in BOOLEAN, WriteStream(sent) PROVE TypeOK'
  <2> DEFINE items == Least(FrameItems, burst.length - burst.n)
             ret == Returned(items, sent)
  <2>1. /\ burst # None /\ burst.trials < burst.calls
        /\ UNCHANGED <<user, active, bursts, timeNsOld>>
    BY <1>5 DEF WriteStream
  <2>2. /\ items \in 1..FrameItems /\ burst' = Advance(ret) /\ items_in_buf' = 0
        /\ tx_buffer' = FrameOf(items) /\ tx_id' = tx_id + 1
        /\ sent => frame' = FrameOf(items)
        /\ ~sent => frame' = frame
    BY <1>5, CallFills
  <2> HIDE DEF items
  <2>3. /\ burst \in Burst /\ burst.length \in Lengths /\ burst.n \in Nat /\ burst.timeNs \in Nat
        /\ burst.trials \in 0..MaxTrials /\ burst.calls \in {1, MaxTrials}
    BY <1>1, <2>1 DEF Burst
  <2>4. items \in Nat /\ ret \in Int
    BY <2>2, Positive, Bounds DEF Returned
  <2> HIDE DEF ret
  <2>5. FrameOf(items) \in Frame
    BY <1>1, <2>3, <2>4, FrameOfTypes
  <2>6. burst.trials + 1 \in 0..MaxTrials
    BY <2>1, <2>3, Bounds
  <2>7. burst' \in Burst
    <3>1. CASE ret >= 0
      <4>1. ret \in Nat
        BY <2>4, <3>1
      <4>2. SamplesToTimeNs(ret) \in Nat
        BY <4>1, Lasts
      <4> DEFINE n == burst.n + ret
                 time == IF ret < burst.length THEN burst.timeNs + SamplesToTimeNs(ret) ELSE burst.timeNs
      <4>3. n \in Nat /\ time \in Nat
        BY <2>3, <4>1, <4>2
      <4>4. burst' = [burst EXCEPT !.n = n, !.trials = burst.trials + 1, !.timeNs = time]
        BY <2>2, <3>1 DEF Advance
      <4> HIDE DEF n, time
      <4> QED BY <2>3, <2>6, <4>3, <4>4 DEF Burst
    <3>2. CASE ~(ret >= 0)
      <4>1. burst' = [burst EXCEPT !.trials = burst.trials + 1]
        BY <2>2, <3>2 DEF Advance
      <4> QED BY <2>3, <2>6, <4>1 DEF Burst
    <3> QED BY <3>1, <3>2
  <2> QED BY <1>1, <1>2, <2>1, <2>2, <2>5, <2>7
<1>6. CASE TrxStart \/ EndBurst \/ UNCHANGED vars
  <2>1. /\ bursts' = bursts /\ burst' \in {burst, None} /\ timeNsOld' = timeNsOld
        /\ tx_buffer' \in {tx_buffer, ZeroBuffer} /\ items_in_buf' \in {items_in_buf, 0}
        /\ active' \in {active, TRUE} /\ UNCHANGED <<user, tx_id, frame>>
    BY <1>6 DEF TrxStart, EndBurst, vars, appVars
  <2> QED BY <1>1, <1>2, <2>1, ZeroIsFrame
<1>7. ASSUME NEW sent \in BOOLEAN, StopTx(sent) PROVE TypeOK'
  <2>1. /\ active' = FALSE /\ tx_buffer' = ZeroBuffer /\ items_in_buf' = 0
        /\ UNCHANGED <<user, bursts, burst, timeNsOld, frame, tx_id>>
    BY <1>1, <1>7 DEF StopTx
  <2> QED BY <1>1, <1>2, <2>1, ZeroIsFrame
<1> QED BY <1>3, <1>4, <1>5, <1>6, <1>7 DEF Next

(* The first state has the types. *)
LEMMA TxInit == Init => SendInv /\ TypeOK
<1>1. 0 \in 0..MaxBursts
  BY Bounds
<1>2. Init => TypeOK
  <2> SUFFICES ASSUME Init PROVE TypeOK
    OBVIOUS
  <2>1. user \in {"program", "adapter"} /\ burst \in Burst \cup {None}
    BY DEF Init
  <2>2. active \in BOOLEAN
    BY DEF Init
  <2>3. bursts \in 0..MaxBursts /\ timeNsOld \in Nat /\ items_in_buf = 0 /\ tx_id \in Nat
    BY <1>1 DEF Init
  <2>4. tx_buffer \in Frame /\ frame \in Frame \cup {None}
    BY ZeroIsFrame DEF Init
  <2> QED BY <2>1, <2>2, <2>3, <2>4 DEF TypeOK
<1> QED BY <1>2, SendInit

(***************************************************************************)
(* The state has the declared types, a burst no more trials than it may    *)
(* have, and the buffer is empty between two calls.                        *)
(***************************************************************************)
THEOREM TxTypes == Spec => []TypeOK
<1>1. Init => SendInv /\ TypeOK
  BY TxInit
<1>2. SendInv /\ TypeOK /\ [Next]_vars => (SendInv /\ TypeOK)'
  BY SendStep, TxTypeStep
<1> QED BY <1>1, <1>2, PTL DEF Spec

-----------------------------------------------------------------------------
(***************************************************************************)
(* Frames that are lost                                                    *)
(***************************************************************************)

(* A burst takes no more calls than there are ids. *)
IdsOutlastBurst == MaxTrials <= IdRange

(* The last frame of the burst under way had this id, before it wrapped:
   every call since took one, and samples are missing only if there was one. *)
Numbered(n, items, id) ==
  /\ frame.data = Part(n, items)
  /\ frame.id = id % IdRange
  /\ id < tx_id /\ tx_id - id <= burst.trials
  /\ tx_id = id + 1 => burst.n = n + items

LastId ==
  (frame # None /\ burst # None /\ frame.data[1][1] = bursts)
    => \E n \in Nat, items \in 1..FrameItems, id \in Nat : Numbered(n, items, id)

(* What the rest of a division is. *)
LEMMA RestOf ==
  ASSUME NEW m \in Nat \ {0}, NEW r \in 0..m - 1, NEW q \in Int, NEW x \in Int, x = q * m + r
  PROVE  x % m = r
OBVIOUS

(* Of the next m numbers only the next has the next number's rest. *)
LEMMA NextRest ==
  ASSUME NEW m \in Nat \ {0}, NEW id \in Nat, NEW next \in Nat, id < next, next - id <= m,
         next % m = ((id % m) + 1) % m
  PROVE  next = id + 1
<1> DEFINE q == id \div m
           r == id % m
           d == next - id
           after == r + 1
           s == IF r + d < m THEN r + d ELSE r + d - m
           t == IF r + 1 < m THEN r + 1 ELSE 0
           p == IF r + d < m THEN q ELSE q + 1
           o == IF r + 1 < m THEN 0 ELSE 1
<1>1. q \in Nat /\ r \in 0..m - 1 /\ id = q * m + r
  OBVIOUS
<1>2. d \in 1..m /\ next = id + d
  OBVIOUS
<1>3. next % m = after % m
  OBVIOUS
<1> HIDE DEF q, r, d
<1>4. s \in 0..m - 1 /\ p \in Int /\ next = p * m + s
  <2>1. (q + 1) * m = q * m + m
    BY <1>1
  <2> QED BY <1>1, <1>2, <2>1
<1>5. t \in 0..m - 1 /\ o \in Int /\ after \in Int /\ after = o * m + t
  BY <1>1
<1> HIDE DEF s, t, p, o, after
<1>6. next % m = s
  BY <1>4, RestOf
<1>7. after % m = t
  BY <1>5, RestOf
<1>8. s = t
  BY <1>3, <1>6, <1>7
<1> QED BY <1>1, <1>2, <1>8 DEF s, t

(* A burst that is under way has a number. *)
IdInv == LastId /\ (burst # None => bursts > 0)

(* A call takes an id. *)
LEMMA CallNumbers ==
  ASSUME SendInv, TypeOK, LastId, NEW sent \in BOOLEAN, WriteStream(sent) PROVE LastId'
<1> DEFINE items == Least(FrameItems, burst.length - burst.n)
           ret == Returned(items, sent)
<1>1. /\ items \in 1..FrameItems /\ burst' = Advance(ret)
      /\ tx_id' = tx_id + 1
      /\ sent => frame' = FrameOf(items)
      /\ ~sent => frame' = frame
  BY CallFills
<1>2. burst # None /\ burst \in Burst /\ bursts' = bursts /\ tx_id \in Nat
  BY DEF WriteStream, TypeOK
<1>3. burst.n \in Nat /\ burst.trials \in Nat
  BY <1>2, Bounds DEF Burst
<1> HIDE DEF items
<1>4. ret \in Int /\ (sent => ret = items /\ ret >= 0)
  BY <1>1, Positive, Bounds DEF Returned
<1> HIDE DEF ret
<1>5. burst'.trials = burst.trials + 1 /\ (ret >= 0 => burst'.n = burst.n + ret)
  BY <1>1, <1>2 DEF Advance, Burst
<1>6. CASE sent
  <2>1. /\ frame'.data = Part(burst.n, items) /\ frame'.id = tx_id % IdRange
    BY <1>1, <1>6 DEF FrameOf
  <2>2. burst'.n = burst.n + items
    BY <1>4, <1>5, <1>6
  <2>3. tx_id < tx_id' /\ tx_id' - tx_id <= burst'.trials
    BY <1>1, <1>2, <1>3, <1>5
  <2>4. frame'.data = [k \in 1..FrameItems |->
                         IF k <= items THEN <<bursts', burst.n + k>> ELSE Zero]
    BY <1>2, <2>1 DEF Part
  <2>5. \E n \in Nat, i \in 1..FrameItems, id \in Nat :
          /\ frame'.data = [k \in 1..FrameItems |-> IF k <= i THEN <<bursts', n + k>> ELSE Zero]
          /\ frame'.id = id % IdRange
          /\ id < tx_id' /\ tx_id' - id <= burst'.trials
          /\ tx_id' = id + 1 => burst'.n = n + i
    BY <1>1, <1>2, <1>3, <2>1, <2>2, <2>3, <2>4
  <2> QED BY <2>5 DEF LastId, Numbered, Part
<1>7. CASE ~sent
  <2> SUFFICES ASSUME frame # None, frame.data[1][1] = bursts
               PROVE  \E n \in Nat, i \in 1..FrameItems, id \in Nat : Numbered(n, i, id)'
    BY <1>1, <1>2, <1>7 DEF LastId
  <2>1. PICK n \in Nat, i \in 1..FrameItems, id \in Nat : Numbered(n, i, id)
    BY <1>2 DEF LastId
  <2>2. /\ frame.data = Part(n, i) /\ frame.id = id % IdRange
        /\ id < tx_id /\ tx_id - id <= burst.trials
    BY <2>1 DEF Numbered
  <2>3. id < tx_id' /\ tx_id' - id <= burst'.trials /\ tx_id' # id + 1
    BY <1>1, <1>2, <1>3, <1>5, <2>2
  <2>4. frame'.data = [k \in 1..FrameItems |-> IF k <= i THEN <<bursts', n + k>> ELSE Zero]
    BY <1>1, <1>2, <1>7, <2>2 DEF Part
  <2>5. Numbered(n, i, id)'
    BY <1>1, <1>7, <2>2, <2>3, <2>4 DEF Numbered, Part
  <2> QED BY <2>5
<1> QED BY <1>6, <1>7

(* A new burst has no frame yet. *)
LEMMA BeginNumbers ==
  ASSUME SendInv, NEW length \in Lengths, NEW t \in Times,
         BeginBurst(length, t) \/ TrxWrite(length, t)
  PROVE  IdInv'
<1>1. bursts \in Nat /\ FrameIsOld
  BY DEF SendInv, Types
<1>2. bursts' = bursts + 1 /\ frame' = frame
  BY DEF BeginBurst, TrxWrite
<1> QED BY <1>1, <1>2 DEF IdInv, LastId, FrameIsOld

(* Nothing else takes an id while a burst is under way. *)
LEMMA RestNumbers ==
  ASSUME SendInv, IdInv,
         TrxStart \/ EndBurst \/ (\E sent \in BOOLEAN : StopTx(sent)) \/ UNCHANGED vars
  PROVE  IdInv'
<1>1. items_in_buf = 0
  BY DEF SendInv, Types
<1>2. /\ frame' = frame /\ bursts' = bursts /\ tx_id' = tx_id
      /\ burst' = burst \/ burst' = None
  BY <1>1 DEF TrxStart, EndBurst, StopTx, vars, appVars
<1>3. CASE burst' = None
  BY <1>3 DEF IdInv, LastId
<1>4. CASE burst' = burst
  BY <1>2, <1>4, ZenonT(40) DEF IdInv, LastId, Numbered, Part
<1> QED BY <1>2, <1>3, <1>4

(* Every step keeps the ids. *)
LEMMA IdStep == ASSUME SendInv, TypeOK, IdInv, [Next]_vars PROVE IdInv'
<1>1. CASE \E length \in Lengths, t \in Times : BeginBurst(length, t) \/ TrxWrite(length, t)
  BY <1>1, BeginNumbers
<1>2. CASE \E sent \in BOOLEAN : WriteStream(sent)
  <2>1. PICK sent \in BOOLEAN : WriteStream(sent)
    BY <1>2
  <2>2. LastId'
    BY <2>1, CallNumbers DEF IdInv
  <2>3. burst # None /\ bursts' = bursts
    BY <2>1 DEF WriteStream
  <2> QED BY <2>2, <2>3 DEF IdInv
<1>3. CASE TrxStart \/ EndBurst \/ (\E sent \in BOOLEAN : StopTx(sent)) \/ UNCHANGED vars
  BY <1>3, RestNumbers
<1> QED BY <1>1, <1>2, <1>3 DEF Next

(* A frame with the id after the last one's continues its samples. *)
LEMMA NextIdContinues ==
  ASSUME IdsOutlastBurst, SendInv, TypeOK, IdInv, WriteStream(TRUE),
         frame # None, frame'.data[1][1] = frame.data[1][1],
         frame'.id = (frame.id + 1) % IdRange
  PROVE  Adjacent(frame, frame')
<1> DEFINE items == Least(FrameItems, burst.length - burst.n)
<1>1. items \in 1..FrameItems /\ frame' = FrameOf(items)
  BY CallFills
<1>2. /\ burst # None /\ burst \in Burst /\ burst.trials < burst.calls
      /\ bursts \in 0..MaxBursts /\ bursts > 0 /\ tx_id \in Nat /\ LastId
  BY DEF WriteStream, TypeOK, IdInv
<1>3. burst.n \in Nat /\ burst.trials \in Nat /\ burst.calls \in {1, MaxTrials}
  BY <1>2, Bounds DEF Burst
<1> HIDE DEF items
<1>4. frame'.data[1] = <<bursts, burst.n + 1>> /\ frame'.id = tx_id % IdRange
  BY <1>1, Positive DEF FrameOf, Part
<1>5. frame.data[1][1] = bursts
  BY <1>4
<1>6. PICK n \in Nat, i \in 1..FrameItems, id \in Nat : Numbered(n, i, id)
  BY <1>2, <1>5 DEF LastId
<1>7. /\ frame.data = Part(n, i) /\ frame.id = id % IdRange
      /\ id < tx_id /\ tx_id - id <= burst.trials
      /\ tx_id = id + 1 => burst.n = n + i
  BY <1>6 DEF Numbered
<1>8. tx_id - id <= IdRange
  BY <1>2, <1>3, <1>7, Bounds DEF IdsOutlastBurst
<1>9. tx_id % IdRange = ((id % IdRange) + 1) % IdRange
  BY <1>4, <1>7
<1>10. tx_id = id + 1
  BY <1>2, <1>7, <1>8, <1>9, Bounds, NextRest
<1>11. burst.n = n + i
  BY <1>7, <1>10
<1>12. ASSUME NEW k \in 1..FrameItems
       PROVE  frame.data[k] = IF k <= i THEN <<bursts, n + k>> ELSE Zero
  BY <1>7 DEF Part
<1>13. burst.n \in Indices(frame, bursts)
  <2>1. frame.data[i] = IF i <= i THEN <<bursts, n + i>> ELSE Zero
    BY <1>12
  <2>2. i \in Int
    BY Positive
  <2>3. frame.data[i] = <<bursts, burst.n>>
    BY <1>11, <2>1, <2>2
  <2> QED BY <2>3 DEF Indices
<1>14. burst.n + 1 \notin Indices(frame, bursts)
  <2> SUFFICES ASSUME NEW k \in 1..FrameItems, frame.data[k][1] = bursts,
                      frame.data[k][2] = burst.n + 1
               PROVE  FALSE
    BY DEF Indices
  <2>1. frame.data[k] = IF k <= i THEN <<bursts, n + k>> ELSE Zero
    BY <1>12
  <2>2. Zero[1] = 0 /\ bursts # 0
    BY <1>2 DEF Zero
  <2>3. k <= i
    BY <2>1, <2>2
  <2>4. n + k = burst.n + 1
    BY <2>1, <2>3
  <2>5. k \in Int /\ i \in Int /\ n \in Int
    BY Positive
  <2> QED BY <1>11, <2>3, <2>4, <2>5
<1>15. frame'.data[1][2] - 1 = burst.n /\ frame'.data[1][2] = burst.n + 1
       /\ frame'.data[1][1] = bursts
  BY <1>3, <1>4
<1>16. bursts \in 1..MaxBursts
  BY <1>2
<1> QED BY <1>5, <1>13, <1>14, <1>15, <1>16 DEF Adjacent

(***************************************************************************)
(* Two frames of a burst with consecutive ids have nothing missing between *)
(* them: what send_buf counts lets the board find every frame that was not *)
(* sent, however often the ids wrap, when a burst has no more calls than   *)
(* there are ids.                                                          *)
(***************************************************************************)
THEOREM LossesShow == ASSUME IdsOutlastBurst PROVE Spec => LossShowsInIds
<1> DEFINE Inv == SendInv /\ TypeOK /\ IdInv
           Shown == (/\ frame # None /\ frame' # frame
                     /\ frame'.data[1][1] = frame.data[1][1]
                     /\ frame'.id = (frame.id + 1) % IdRange) => Adjacent(frame, frame')
<1>1. Init => Inv
  <2>1. Init => SendInv /\ TypeOK
    BY TxInit
  <2>2. Init => IdInv
    BY DEF Init, IdInv, LastId
  <2> QED BY <2>1, <2>2
<1>2. Inv /\ [Next]_vars => Inv'
  <2> SUFFICES ASSUME SendInv, TypeOK, IdInv, [Next]_vars PROVE (SendInv /\ TypeOK /\ IdInv)'
    OBVIOUS
  <2>1. SendInv'
    BY SendStep
  <2>2. TypeOK'
    BY TxTypeStep
  <2>3. IdInv'
    BY IdStep
  <2> QED BY <2>1, <2>2, <2>3
<1>3. ASSUME Inv, [Next]_vars PROVE [Shown]_vars
  <2> SUFFICES ASSUME frame # None, frame' # frame, frame'.data[1][1] = frame.data[1][1],
                      frame'.id = (frame.id + 1) % IdRange
               PROVE  Adjacent(frame, frame')
    OBVIOUS
  <2>1. WriteStream(TRUE)
    BY <1>3, OnlyCallsSend
  <2> QED BY <1>3, <2>1, NextIdContinues
<1> QED BY <1>1, <1>2, <1>3, PTL DEF Spec, LossShowsInIds
=============================================================================
