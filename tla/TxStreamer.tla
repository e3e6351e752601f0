----------------------------- MODULE TxStreamer -----------------------------
(***************************************************************************)
(* The host's transmit stream: tx_streamer of AdrvSDR_Streaming.cpp, and   *)
(* the loop around writeStream with which tests/standalone/main.cpp sends  *)
(* a burst (rf_soapy_send_timed_multi).  A call of writeStream fills one   *)
(* frame, sends it, and returns how many samples it took; the loop goes on *)
(* with the rest, at a later time.  The UDP send may fail.                 *)
(*                                                                         *)
(* The other user is the OpenAirInterface adapter, whose trx_adrv_write    *)
(* calls writeStream once and takes every sample for sent.                 *)
(*                                                                         *)
(* Sample k of burst b is <<b, k>>.                                        *)
(***************************************************************************)
EXTENDS Integers

CONSTANTS
  FrameItems,        \* samples in a frame, without the metadata: buffer_size - 6
  Lengths,           \* nsamples of a burst
  Times,             \* the times a burst is asked for, in nanoseconds
  SamplingFrequency, \* samples in a second
  NanosPerSec,       \* 1e9
  TS_TO_NS,          \* nanoseconds in a tick of the board's clock
  Nudge,             \* 1000000: a millisecond
  Window,            \* 100000000: a time this far back is taken as it is
  IdRange,           \* ids are uint16_t in the frame: 2^16
  SOAPY_SDR_ERROR,   \* the log level of that name in SoapySDR's Logger.h: 3
  MaxTrials,         \* calls of writeStream in a burst: 100
  MaxBursts,         \* bound on the bursts of a behaviour
  None               \* no burst, no frame

ASSUME TxAssumption ==
  /\ {FrameItems, SamplingFrequency, NanosPerSec, TS_TO_NS, IdRange, MaxTrials} \subseteq Nat \ {0}
  /\ Lengths \subseteq Nat \ {0} /\ Times \subseteq Nat
  /\ {Nudge, Window, MaxBursts} \subseteq Nat
  /\ SOAPY_SDR_ERROR \in Int

VARIABLES
  user,         \* "program" or "adapter"
  active,       \* tx_stream_active of the application; the adapter has started
  bursts,       \* bursts begun
  burst,        \* the burst that is being sent: its length, n, timeNs and trials,
                \* and the calls of writeStream it may take
  timeNsOld,
  tx_buffer,    \* its samples and the metadata behind them
  items_in_buf, \* counts the metadata as 6 samples
  tx_id,
  frame         \* the frame sent last

appVars == <<user, active, bursts, burst, timeNsOld>>
vars == <<appVars, tx_buffer, items_in_buf, tx_id, frame>>

MetaItems == 6
Zero == <<0, 0>>
ZeroBuffer == [data |-> [k \in 1..FrameItems |-> Zero], time |-> 0, duration |-> 0, id |-> 0]

Init ==
  /\ user \in {"program", "adapter"}
  /\ active = FALSE /\ bursts = 0 /\ burst = None /\ timeNsOld = 0
  /\ tx_buffer = ZeroBuffer /\ items_in_buf = 0 /\ tx_id = 0
  /\ frame = None

-----------------------------------------------------------------------------
(* tx_streamer *)

Least(a, b) == IF a <= b THEN a ELSE b

CopySamples(data, at, items) ==
  [k \in 1..FrameItems |->
     IF k \in at + 1 .. at + items THEN <<bursts, burst.n + k - at>> ELSE data[k]]

(* The time is stored in ticks, the duration in ticks of the clock too. *)
Filled(items) ==
  [data     |-> CopySamples(tx_buffer.data, items_in_buf, items),
   time     |-> burst.timeNs \div TS_TO_NS,
   duration |-> (items * NanosPerSec) \div (SamplingFrequency * TS_TO_NS),
   id       |-> tx_id % IdRange]

(* Mutant of ZeroFill: the rest of the frame is sent as it is. *)
ZeroFill_None(data, from) == data

ZeroFill(data, from) == [k \in 1..FrameItems |-> IF k > from THEN Zero ELSE data[k]]

(* Mutant of SendBuf: the count is reset only when the frame was sent. *)
SendBuf_ResetOnSuccess(buffer, held, sent) ==
  IF held = 0 THEN /\ tx_buffer' = buffer
                   /\ UNCHANGED <<items_in_buf, tx_id, frame>>
  ELSE
    LET out == [buffer EXCEPT !.data = ZeroFill(@, held - MetaItems)] IN
      /\ tx_buffer' = out
      /\ tx_id' = tx_id + 1
      /\ items_in_buf' = IF sent THEN 0 ELSE held
      /\ frame' = IF sent THEN out ELSE frame

(* Mutant of SendBuf: the id counts only the frames that were sent. *)
SendBuf_IdOnSuccess(buffer, held, sent) ==
  IF held = 0 THEN /\ tx_buffer' = buffer
                   /\ UNCHANGED <<items_in_buf, tx_id, frame>>
  ELSE
    LET out == [buffer EXCEPT !.data = ZeroFill(@, held - MetaItems)] IN
      /\ tx_buffer' = out
      /\ tx_id' = IF sent THEN tx_id + 1 ELSE tx_id
      /\ items_in_buf' = 0
      /\ frame' = IF sent THEN out ELSE frame

(* send_buf with what items_in_buf holds then.  A full frame has nothing to fill. *)
SendBuf(buffer, held, sent) ==
  IF held = 0 THEN /\ tx_buffer' = buffer
                   /\ UNCHANGED <<items_in_buf, tx_id, frame>>
  ELSE
    LET out == [buffer EXCEPT !.data = ZeroFill(@, held - MetaItems)] IN
      /\ tx_buffer' = out
      /\ tx_id' = tx_id + 1
      /\ items_in_buf' = 0
      /\ frame' = IF sent THEN out ELSE frame

(* What send returns: on a failed send_buf a log level, which is no error code. *)
Returned(items, sent) == IF sent THEN items ELSE SOAPY_SDR_ERROR

-----------------------------------------------------------------------------
(* The application *)

(* A time equal to that of the burst before, or a little earlier, is moved to a
   millisecond after it. *)
BurstTime(t) ==
  IF t = timeNsOld \/ (t < timeNsOld /\ timeNsOld # 0 /\ timeNsOld - t < Window)
  THEN timeNsOld + Nudge
  ELSE t

(* SoapySDR_ticksToTimeNs, which rounds to the nearest nanosecond. *)
SamplesToTimeNs(samples) ==
  (2 * samples * NanosPerSec + SamplingFrequency) \div (2 * SamplingFrequency)

BeginBurst(length, t) ==
  /\ user = "program"
  /\ burst = None
  /\ bursts < MaxBursts
  /\ bursts' = bursts + 1
  /\ timeNsOld' = BurstTime(t)
  /\ burst' = [length |-> length, n |-> 0, timeNs |-> BurstTime(t), trials |-> 0,
               calls |-> MaxTrials]
  /\ active' = TRUE
  /\ IF active THEN UNCHANGED <<tx_buffer, items_in_buf>>
               ELSE tx_buffer' = ZeroBuffer /\ items_in_buf' = 0
  /\ UNCHANGED <<user, tx_id, frame>>

(* trx_adrv_start, on the transmit side. *)
TrxStart ==
  /\ user = "adapter" /\ ~active
  /\ active' = TRUE
  /\ tx_buffer' = ZeroBuffer /\ items_in_buf' = 0
  /\ UNCHANGED <<user, bursts, burst, timeNsOld, tx_id, frame>>

(* trx_adrv_write of nsamps samples for a time in ticks of the sampling rate.
   It returns nsamps, whatever writeStream did.  (Without flags it calls no
   writeStream.) *)
TrxWrite(nsamps, timestamp) ==
  /\ user = "adapter" /\ active /\ burst = None
  /\ bursts < MaxBursts
  /\ bursts' = bursts + 1
  /\ burst' = [length |-> nsamps, n |-> 0, timeNs |-> SamplesToTimeNs(timestamp),
               trials |-> 0, calls |-> 1]
  /\ UNCHANGED <<user, active, timeNsOld, tx_buffer, items_in_buf, tx_id, frame>>

(* Mutant of Advance: the rest of the burst gets the time of its beginning. *)
Advance_SameTime(ret) ==
  IF ret >= 0
  THEN [burst EXCEPT !.n = @ + ret, !.trials = @ + 1]
  ELSE [burst EXCEPT !.trials = @ + 1]

(* A result that is no error counts as that many samples. *)
Advance(ret) ==
  IF ret >= 0
  THEN [burst EXCEPT !.n = @ + ret, !.trials = @ + 1,
                     !.timeNs = IF ret < burst.length THEN @ + SamplesToTimeNs(ret) ELSE @]
  ELSE [burst EXCEPT !.trials = @ + 1]

WriteStream(sent) ==
  /\ burst # None
  /\ burst.n < burst.length /\ burst.trials < burst.calls
  /\ LET items == Least(FrameItems - items_in_buf, burst.length - burst.n) IN
       /\ SendBuf(Filled(items), items_in_buf + items + MetaItems, sent)
       /\ burst' = Advance(Returned(items, sent))
  /\ UNCHANGED <<user, active, bursts, timeNsOld>>

EndBurst ==
  /\ burst # None
  /\ burst.n >= burst.length \/ burst.trials = burst.calls
  /\ burst' = None
  /\ UNCHANGED <<user, active, bursts, timeNsOld, tx_buffer, items_in_buf, tx_id, frame>>

(* deactivateStream flushes, then stop clears the buffer. *)
StopTx(sent) ==
  /\ burst = None
  /\ active
  /\ active' = FALSE
  /\ tx_buffer' = ZeroBuffer /\ items_in_buf' = 0
  /\ IF items_in_buf > 0
     THEN /\ frame' = IF sent THEN [tx_buffer EXCEPT !.data = ZeroFill(@, items_in_buf - MetaItems)]
                              ELSE frame
          /\ tx_id' = tx_id + 1
     ELSE UNCHANGED <<frame, tx_id>>
  /\ UNCHANGED <<user, bursts, burst, timeNsOld>>

-----------------------------------------------------------------------------
Next ==
  \/ \E length \in Lengths, t \in Times : BeginBurst(length, t) \/ TrxWrite(length, t)
  \/ TrxStart
  \/ \E sent \in BOOLEAN : WriteStream(sent) \/ StopTx(sent)
  \/ EndBurst

Spec == Init /\ [][Next]_vars

-----------------------------------------------------------------------------
Sample == (0..MaxBursts) \X Nat
Frame == [data : [1..FrameItems -> Sample], time : Nat, duration : Nat, id : 0..IdRange - 1]
Burst == [length : Lengths, n : Nat, timeNs : Nat, trials : 0..MaxTrials,
          calls : {1, MaxTrials}]

TypeOK ==
  /\ user \in {"program", "adapter"}
  /\ active \in BOOLEAN /\ bursts \in 0..MaxBursts
  /\ burst \in Burst \cup {None} /\ timeNsOld \in Nat
  /\ tx_buffer \in Frame
  /\ items_in_buf = 0
  /\ tx_id \in Nat
  /\ frame \in Frame \cup {None}

(* The samples of burst b in a frame, as indices. *)
Indices(f, b) == {f.data[k][2] : k \in {j \in 1..FrameItems : f.data[j][1] = b}}

(* Frames g and f hold a stretch of one burst without a hole or an overlap. *)
Adjacent(f, g) ==
  \E b \in 1..MaxBursts :
    /\ f.data[1][1] = b /\ g.data[1][1] = b
    /\ g.data[1][2] - 1 \in Indices(f, b)
    /\ g.data[1][2] \notin Indices(f, b)

(***************************************************************************)
(* A frame is sent by a call of writeStream only, and holds the samples of *)
(* that call, with zeros behind them: nothing of an earlier frame, burst   *)
(* or failed call is sent again, and the flush of deactivateStream never   *)
(* finds anything to send.                                                 *)
(***************************************************************************)
FrameHoldsCall ==
  [][frame' # frame =>
       /\ burst # None
       /\ frame'.data = [k \in 1..FrameItems |->
            IF burst.n + k <= burst.length THEN <<bursts, burst.n + k>> ELSE Zero]]_vars

(***************************************************************************)
(* A burst that is cut into frames is gapless in the board's clock: each   *)
(* frame begins where the one before ended, or a tick later, and never     *)
(* before, whatever is rounded on the way.                                 *)
(***************************************************************************)
BackToBack ==
  [][frame # None /\ frame' # frame /\ Adjacent(frame, frame') =>
       frame'.time - (frame.time + frame.duration) \in {0, 1}]_vars

(***************************************************************************)
(* Lost samples show in the ids: two frames of a burst with consecutive    *)
(* ids have nothing missing between them, so the board's count of ids      *)
(* tells of every call whose frame was not sent.                           *)
(***************************************************************************)
LossShowsInIds ==
  [][(/\ frame # None /\ frame' # frame
      /\ frame'.data[1][1] = frame.data[1][1]
      /\ frame'.id = (frame.id + 1) % IdRange) => Adjacent(frame, frame')]_vars

(***************************************************************************)
(* "Tx was ok" (tests/standalone/main.cpp:651): the samples that the       *)
(* application counts as written have been sent in a frame.  The code      *)
(* returns SOAPY_SDR_ERROR when the send failed, which is positive.        *)
(***************************************************************************)
TakenMeansSent ==
  [][(burst # None /\ burst' # None /\ burst'.n # burst.n)
       => frame' # frame /\ burst.n + 1 .. burst'.n \subseteq Indices(frame', bursts)]_vars
=============================================================================
