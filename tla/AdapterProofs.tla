--------------------------- MODULE AdapterProofs ---------------------------
(***************************************************************************)
(* Proofs about Adapter: trx_adrv_read hands out the stream, and stamps it *)
(* with the time of its first chunk, for every size of its reads, frames,  *)
(* rates and clock, as long as it is not called during a start or a stop.  *)
(***************************************************************************)
EXTENDS Adapter, RxProofs, FiniteSetTheorems

Reads ==
  [nsamps : Nat, samples_received : Nat, timeNs : Int,
   first : Int, firstChunk : Int, last : Int, drops : Int, epochs : SUBSET Nat]

Marks == [first : Int, last : Int, time : Int, epoch : Nat]

(* None is no count, no frame, no chunk and no read. *)
NoneIsNothing == None \notin Nat \cup Frame \cup Marks \cup Reads

(* A tick of the sampling rate is at least two of the board's clock. *)
ClockIsFiner == 2 * SamplingFrequency <= TicksPerSec

-----------------------------------------------------------------------------
(* The invariants *)

(* The buffer holds a frame while a call can find samples in it. *)
HeldFrame ==
  (epoch > 0 /\ control = "idle" /\ items_in_buffer # 0) => rx_buffer # None

(* Who reads, and when. *)
Turns ==
  /\ copied # None => chunk # None
  /\ user # "adapter" => read = None /\ answer = None
  /\ (user = "adapter" /\ read = None) => copied = None
  /\ read # None => read \in Reads /\ control = "idle" /\ epoch > 0

(* The time is that of the sample, but for the two roundings. *)
TimeOf(time, sample) ==
  LET error == SamplingFrequency * time - NanosPerSec * sample IN
    -SamplingFrequency * TS_TO_NS < error /\ error < SamplingFrequency

TimedRead ==
  (read # None /\ read.samples_received > 0) =>
    TimeOf(read.timeNs, read.firstChunk)

(* The ticks of an answer are the number of the last sample of its first chunk. *)
TimestampOfFirstChunk ==
  (answer # None /\ answer.samples_received > 0) => answer.ticks = answer.firstChunk

CallInv == ReceiveInv /\ RxTypeInv /\ HeldFrame /\ Turns
TimeInv == CallInv /\ TimedRead /\ TimestampOfFirstChunk

(* What the read has with the chunk that is not accounted for yet. *)
Pending == copied # None
First == read.samples_received = 0 /\ Pending
Got == read.samples_received + (IF Pending THEN copied ELSE 0)
GotFirst == IF First THEN chunk.first ELSE read.first
GotLast == IF Pending THEN chunk.last ELSE read.last
GotDrops == IF First THEN rxdrops ELSE read.drops
GotEpochs == read.epochs \cup (IF Pending THEN {chunk.epoch} ELSE {})

(* All its samples are of this start of the stream. *)
Only(e) == GotEpochs = {e}

(* The samples of a read that is under way. *)
Contiguous ==
  read # None =>
    /\ Got <= read.nsamps
    /\ IsFiniteSet(read.epochs)
    /\ Got = 0 <=> GotEpochs = {}
    /\ Got > 0 =>
         /\ chunk # None /\ GotLast = chunk.last /\ chunk.epoch \in GotEpochs
         /\ \A e : Only(e) =>
              GotLast + 1 - GotFirst = Got + FrameItems * (rxdrops - GotDrops)

(* ... and those since the answer before it. *)
Follows(e) ==
  /\ answer # None
  /\ answer.epochs = {e}
  /\ read # None /\ Got > 0 => Only(e)

Continued ==
  \A e : Follows(e) =>
    /\ chunk # None /\ chunk.epoch = e
    /\ answer.last \in Int /\ answer.counted \in Int
    /\ chunk.last - answer.last =
         (IF read = None THEN 0 ELSE Got) + FrameItems * (rxdrops - answer.counted)

SampleInv == CallInv /\ GapInv /\ Contiguous /\ Continued

-----------------------------------------------------------------------------
(* The calls *)

(* The sizes are those of a call. *)
LEMMA CallSizes ==
  /\ FrameItems \in Nat \ {0} /\ SizeRange \in Nat \ {0} /\ ReadSizes \subseteq Nat \ {0}
BY StreamerAssumption, ReadSizesAssumption

(* What is asked for is something, and no more than is missing. *)
LEMMA Asked ==
  ASSUME read \in Reads, ~Filled, read # None
  PROVE  ReqNum \in Nat \ {0} /\ read.samples_received + ReqNum <= read.nsamps
<1>1. read.nsamps \in Nat /\ read.samples_received \in Nat /\ read.samples_received < read.nsamps
  BY DEF Reads, Filled
<1> QED BY <1>1, CallSizes DEF ReqNum, Least, MTU

(* A frame of the socket is a frame. *)
LEMMA HeadIsFrame ==
  ASSUME RxTypeInv, socket # <<>> PROVE Head(socket) \in FullFrame /\ Head(socket) \in Frame
<1>1. Head(socket) \in FullFrame
  BY DEF RxTypeInv
<1> QED BY <1>1, FullFrames

(* A copy from a frame leaves a chunk. *)
LEMMA CopyLeavesChunk ==
  ASSUME NoneIsNothing, NEW n, n \in Nat, NEW f, f \in FullFrame, NEW held \in Nat, NEW at \in Nat,
         rxTimestampNS' \in Nat, reg_timeNs \in Nat, Copy(n, f, held, at)
  PROVE  chunk' # None
<1> DEFINE items == Least(held, n)
           remain == held - items
           past == (remain * NanosPerSec) \div SamplingFrequency
<1>1. items \in Nat /\ remain \in Nat
  BY DEF Least
<1>2. reg_timeNs' \in Nat
  <2>1. f \in FullFrame \cup {None}
    OBVIOUS
  <2> QED BY <2>1, CopyTypes
<1>3. f # None /\ f.last \in Nat /\ f.epoch \in Nat
  BY FullFrames DEF NoneIsNothing, FullFrame
<1>4. chunk' = [first |-> f.last - FrameItems + at + 1, last |-> f.last - FrameItems + at + items,
                time |-> ChunkTime(reg_timeNs', remain), epoch |-> f.epoch]
  BY <1>3 DEF Copy
<1> HIDE DEF items, remain
<1>5. remain * NanosPerSec \in Nat /\ SamplingFrequency \in Nat \ {0} /\ FrameItems \in Nat
  BY <1>1, StreamerAssumption DEF NanosPerSec
<1>6. past \in Nat
  BY <1>5, Quotient
<1> HIDE DEF past
<1>7. ChunkTime(reg_timeNs', remain) \in Int
  BY <1>2, <1>6 DEF ChunkTime, past
<1>8. f.last - FrameItems + at + 1 \in Int /\ f.last - FrameItems + at + items \in Int
  BY <1>1, <1>3, <1>5
<1> QED BY <1>3, <1>4, <1>7, <1>8 DEF NoneIsNothing, Marks

(* A call of readStream leaves a chunk, and the buffer with its frame. *)
LEMMA ReadLeavesChunk ==
  ASSUME NoneIsNothing, OneAtATime, RxTypeInv, HeldFrame, NEW n, n \in Nat,
         ReadHeld(n) \/ ReadFrame(n)
  PROVE  /\ copied = None /\ control = "idle" /\ epoch > 0 /\ UNCHANGED <<control, epoch>>
         /\ chunk' # None /\ HeldFrame'
<1>1. copied = None /\ control = "idle" /\ epoch > 0 /\ UNCHANGED <<control, epoch>>
  BY DEF ReadHeld, ReadFrame, MayRead, OneAtATime, boardVars
<1>2. RxTypeInv'
  BY RxTypeStep
<1>3. rxTimestampNS' \in Nat /\ reg_timeNs \in Nat /\ items_in_buffer \in Nat /\ offset \in Nat
      /\ FrameItems \in Nat
  BY <1>2, CallSizes DEF RxTypeInv, TypeOK
<1>4. CASE ReadHeld(n)
  <2>1. /\ Copy(n, rx_buffer, items_in_buffer, offset) /\ items_in_buffer # 0
        /\ UNCHANGED <<rx_buffer, items_in_buffer>>
    BY <1>4 DEF ReadHeld, bufferVars
  <2>2. rx_buffer # None /\ rx_buffer \in FullFrame
    BY <1>1, <2>1 DEF HeldFrame, RxTypeInv
  <2>3. chunk' # None
    BY <1>3, <2>1, <2>2, CopyLeavesChunk
  <2> QED BY <1>1, <2>1, <2>2, <2>3 DEF HeldFrame
<1>5. CASE ReadFrame(n)
  <2>1. socket # <<>> /\ rx_buffer' = Head(socket) /\ Copy(n, Head(socket), FrameItems, 0)
    BY <1>5 DEF ReadFrame
  <2>2. Head(socket) \in FullFrame /\ Head(socket) # None
    BY <2>1, HeadIsFrame DEF NoneIsNothing
  <2>3. 0 \in Nat
    OBVIOUS
  <2>4. chunk' # None
    BY <1>3, <2>1, <2>2, <2>3, CopyLeavesChunk
  <2> QED BY <1>1, <2>1, <2>2, <2>4 DEF HeldFrame
<1> QED BY <1>1, <1>4, <1>5

-----------------------------------------------------------------------------
(* Turns *)

(* Nothing was read before the first call. *)
LEMMA CallInit == ASSUME AdapterInit PROVE CallInv
<1>1. ReceiveInv /\ RxTypeInv
  BY ReceiveInit, RxTypeInit DEF AdapterInit
<1>2. HeldFrame /\ Turns
  BY DEF AdapterInit, Init, HeldFrame, Turns
<1> QED BY <1>1, <1>2 DEF CallInv

(* The steps of the program, the board and the thread that starts and stops. *)
LEMMA HeldStep ==
  ASSUME NoneIsNothing, OneAtATime, ReceiveInv, RxTypeInv, HeldFrame, copied # None => chunk # None,
         [Next]_vars
  PROVE  HeldFrame' /\ (copied' # None => chunk' # None)
<1>1. ASSUME NEW n \in Requests, ReadHeld(n) \/ ReadFrame(n)
      PROVE  HeldFrame' /\ (copied' # None => chunk' # None)
  BY <1>1, ReadLeavesChunk, StreamerAssumption
<1>2. CASE Account
  <2>1. /\ copied # None /\ copied' = None /\ UNCHANGED <<rx_buffer, epoch, control>>
        /\ items_in_buffer' = (items_in_buffer - copied) % SizeRange
    BY <1>2 DEF Account, boardVars
  <2>2. copied \in Nat /\ copied <= items_in_buffer /\ items_in_buffer \in Nat
    BY <2>1 DEF ReceiveInv, CopyInBuffer, Types
  <2>3. items_in_buffer = 0 => items_in_buffer' = 0
    <3>1. ASSUME items_in_buffer = 0 PROVE items_in_buffer' = 0
      <4>1. items_in_buffer - copied = 0
        BY <2>2, <3>1
      <4>2. 0 % SizeRange = 0
        BY CallSizes, Small
      <4> QED BY <2>1, <4>1, <4>2
    <3> QED BY <3>1
  <2> QED BY <2>1, <2>3 DEF HeldFrame
<1>3. CASE FillFrame \/ Idle \/ UNCHANGED vars
  <2>1. UNCHANGED <<epoch, control, items_in_buffer, rx_buffer, copied, chunk>>
    BY <1>3 DEF FillFrame, Idle, vars, boardVars, bufferVars
  <2> QED BY <2>1 DEF HeldFrame
<1>4. CASE \E then \in {"stop", "start"} : StopSend(then)
  BY <1>4 DEF StopSend, HeldFrame
<1>5. CASE StopDone
  <2>1. control # "idle" /\ items_in_buffer' = 0 /\ copied' = copied
    BY <1>5 DEF StopDone
  <2>2. copied = None
    BY <2>1 DEF ReceiveInv, CopyInBuffer
  <2> QED BY <2>1, <2>2 DEF HeldFrame
<1> QED BY <1>1, <1>2, <1>3, <1>4, <1>5 DEF Next

(* The steps of the adapter that are steps of the program, or no steps of it. *)
LEMMA AdapterSteps ==
  ASSUME NoneIsNothing, OneAtATime, CallInv, [AdapterNext]_<<vars, adapterVars>>
  PROVE  \/ [Next]_vars
         \/ /\ user = "adapter" /\ read # None /\ ~Filled
            /\ ReqNum \in Nat \ {0} /\ read.samples_received + ReqNum <= read.nsamps
            /\ ReadHeld(ReqNum) \/ ReadFrame(ReqNum)
            /\ UNCHANGED adapterVars
<1>1. CASE ReadChunk
  <2>1. read # None /\ read \in Reads /\ ~Filled /\ user = "adapter"
    BY <1>1 DEF ReadChunk, CallInv, Turns
  <2> QED BY <1>1, <2>1, Asked DEF ReadChunk
<1>2. CASE ~ReadChunk
  BY <1>2 DEF AdapterNext, BeginRead, EndChunk, EndRead, TrxControl, Next
<1> QED BY <1>1, <1>2

(* What readStream gives back is added to the read. *)
LEMMA ReadAdds ==
  ASSUME CallInv, EndChunk
  PROVE  /\ copied \in Nat /\ chunk # None /\ chunk \in Chunk /\ read \in Reads /\ rxdrops \in Nat
         /\ read' \in Reads
         /\ read'.nsamps = read.nsamps
         /\ read'.samples_received = read.samples_received + copied
         /\ read'.last = chunk.last /\ read'.epochs = read.epochs \cup {chunk.epoch}
         /\ read.samples_received = 0 =>
              /\ read'.timeNs = chunk.time /\ read'.first = chunk.first
              /\ read'.firstChunk = chunk.last /\ read'.drops = rxdrops
         /\ read.samples_received # 0 =>
              /\ read'.timeNs = read.timeNs /\ read'.first = read.first
              /\ read'.firstChunk = read.firstChunk /\ read'.drops = read.drops
<1>1. /\ read # None /\ copied # None
      /\ read' = [read EXCEPT
           !.samples_received = @ + copied,
           !.timeNs = TimeOfRead,
           !.first = IF read.samples_received = 0 THEN chunk.first ELSE @,
           !.firstChunk = IF read.samples_received = 0 THEN chunk.last ELSE @,
           !.last = chunk.last,
           !.drops = IF read.samples_received = 0 THEN rxdrops ELSE @,
           !.epochs = @ \cup {chunk.epoch}]
  BY DEF EndChunk, Account
<1>2. copied \in Nat /\ chunk # None /\ chunk \in Chunk /\ read \in Reads /\ rxdrops \in Nat
  BY <1>1, CallSizes DEF CallInv, Turns, RxTypeInv, TypeOK
<1>3. chunk.first \in Nat /\ chunk.last \in Nat /\ chunk.time \in Int /\ chunk.epoch \in Nat
  BY <1>2 DEF Chunk
<1>4. read.samples_received + copied \in Nat /\ read.epochs \cup {chunk.epoch} \in SUBSET Nat
  BY <1>2, <1>3 DEF Reads
<1> DEFINE new == read.samples_received = 0
           time == IF new THEN chunk.time ELSE read.timeNs
           first == IF new THEN chunk.first ELSE read.first
           firstChunk == IF new THEN chunk.last ELSE read.firstChunk
           drops == IF new THEN rxdrops ELSE read.drops
<1>5. read' = [read EXCEPT !.samples_received = read.samples_received + copied, !.timeNs = time,
                 !.first = first, !.firstChunk = firstChunk, !.last = chunk.last,
                 !.drops = drops, !.epochs = read.epochs \cup {chunk.epoch}]
  BY <1>1 DEF TimeOfRead
<1>6. time \in Int /\ first \in Int /\ firstChunk \in Int /\ drops \in Int /\ chunk.last \in Int
  BY <1>2, <1>3 DEF Reads
<1>7. /\ new => time = chunk.time /\ first = chunk.first /\ firstChunk = chunk.last /\ drops = rxdrops
      /\ ~new => time = read.timeNs /\ first = read.first /\ firstChunk = read.firstChunk
                 /\ drops = read.drops
  OBVIOUS
<1> HIDE DEF time, first, firstChunk, drops
<1>8. read' = [nsamps |-> read.nsamps, samples_received |-> read.samples_received + copied,
               timeNs |-> time, first |-> first, firstChunk |-> firstChunk, last |-> chunk.last,
               drops |-> drops, epochs |-> read.epochs \cup {chunk.epoch}]
  BY <1>2, <1>5 DEF Reads
<1>9. read' \in Reads
  BY <1>2, <1>4, <1>6, <1>8 DEF Reads
<1> QED BY <1>2, <1>7, <1>8, <1>9

(* Every step leaves the buffer and the turns in order. *)
LEMMA CallStep ==
  ASSUME NoneIsNothing, OneAtATime, CallInv, [AdapterNext]_<<vars, adapterVars>> PROVE CallInv'
<1>0. ReceiveInv /\ RxTypeInv /\ HeldFrame /\ Turns
  BY DEF CallInv
<1>1. /\ ReceiveInv' /\ RxTypeInv' /\ HeldFrame' /\ (copied' # None => chunk' # None)
  <2>1. CASE [Next]_vars
    BY <1>0, <2>1, ReceiveStep, RxTypeStep, HeldStep DEF Turns
  <2>2. CASE ReqNum \in Nat \ {0} /\ (ReadHeld(ReqNum) \/ ReadFrame(ReqNum))
    <3>1. PICK n \in Nat : ReadHeld(n) \/ ReadFrame(n)
      BY <2>2
    <3> QED BY <1>0, <3>1, ReadHeldInv, ReadFrameInv, RxTypeStep, ReadLeavesChunk
  <2> QED BY <2>1, <2>2, AdapterSteps
<1> SUFFICES Turns'
  BY <1>1 DEF CallInv
<1>2. ASSUME UNCHANGED adapterVars, read = None \/ UNCHANGED <<control, epoch>>,
             (user = "adapter" /\ read = None) => copied' = copied
      PROVE  Turns'
  BY <1>0, <1>1, <1>2 DEF Turns, adapterVars
<1>3. CASE user = "program" /\ Next /\ UNCHANGED adapterVars
  BY <1>0, <1>2, <1>3 DEF Turns
<1>4. CASE user = "adapter" /\ (FillFrame \/ Idle) /\ UNCHANGED adapterVars
  <2>1. UNCHANGED <<control, epoch, copied>>
    BY <1>4 DEF FillFrame, Idle
  <2> QED BY <1>2, <1>4, <2>1
<1>5. CASE \E n \in ReadSizes : BeginRead(n)
  <2>1. PICK n \in ReadSizes : BeginRead(n)
    BY <1>5
  <2>2. /\ user = "adapter" /\ epoch > 0 /\ control = "idle" /\ read = None /\ read' = NewRead(n)
        /\ UNCHANGED <<control, epoch, copied, user, answer>>
    BY <2>1 DEF BeginRead, vars, boardVars
  <2>3. NewRead(n) \in Reads
    BY CallSizes DEF NewRead, Reads
  <2> QED BY <1>0, <1>1, <2>2, <2>3 DEF Turns
<1>6. CASE ReadChunk
  <2>1. read # None /\ UNCHANGED adapterVars
    BY <1>6 DEF ReadChunk
  <2>2. UNCHANGED <<control, epoch>>
    BY <1>6 DEF ReadChunk, ReadHeld, ReadFrame, boardVars
  <2> QED BY <1>2, <2>1, <2>2
<1>7. CASE EndChunk
  <2>1. read # None /\ copied' = None /\ UNCHANGED <<control, epoch, user, answer>>
    BY <1>7 DEF EndChunk, Account, boardVars
  <2> QED BY <1>0, <1>1, <1>7, <2>1, ReadAdds DEF Turns
<1>8. CASE EndRead
  <2>1. read # None /\ copied = None /\ copied' = None /\ read' = None /\ user' = user
    BY <1>8 DEF EndRead, vars
  <2> QED BY <1>0, <1>1, <2>1 DEF Turns
<1>9. CASE TrxControl
  <2>1. user = "adapter" /\ read = None /\ answer' = None /\ copied' = copied /\ UNCHANGED <<user, read>>
    BY <1>9 DEF TrxControl, StopSend, StopDone
  <2> QED BY <1>0, <1>1, <2>1 DEF Turns
<1>10. CASE UNCHANGED <<vars, adapterVars>>
  <2>1. UNCHANGED adapterVars /\ UNCHANGED <<control, epoch, copied>>
    BY <1>10 DEF vars, boardVars
  <2> QED BY <1>2, <2>1
<1> QED BY <1>3, <1>4, <1>5, <1>6, <1>7, <1>8, <1>9, <1>10 DEF AdapterNext

-----------------------------------------------------------------------------
(* Time *)

(* Rounding to the nearest tick undoes the two roundings of the time. *)
LEMMA NearestTick ==
  ASSUME ClockIsFiner, NEW time \in Int, NEW sample \in Int, TimeOf(time, sample)
  PROVE  TimeNsToTicks(time) = sample
<1> DEFINE F == SamplingFrequency
           N == NanosPerSec
           e == F * time - N * sample
           t == F * TS_TO_NS
<1>1. F \in Nat \ {0} /\ TicksPerSec \in Nat \ {0} /\ TS_TO_NS \in Nat \ {0}
  BY StreamerAssumption
<1>2. N \in Nat \ {0} /\ t \in Nat /\ 2 * t <= N /\ 2 * F <= N
  <2>1. (2 * F) * TS_TO_NS <= TicksPerSec * TS_TO_NS
    BY <1>1, Scaled DEF ClockIsFiner
  <2>2. (2 * F) * TS_TO_NS = 2 * t
    BY <1>1
  <2>3. TicksPerSec <= TicksPerSec * TS_TO_NS
    BY <1>1
  <2> QED BY <1>1, <2>1, <2>2, <2>3 DEF NanosPerSec, ClockIsFiner
<1>3. -t < e /\ e < F /\ e \in Int
  <2>1. -SamplingFrequency * TS_TO_NS = -t
    BY <1>1
  <2>2. N * sample \in Int /\ F * time \in Int
    BY <1>1, <1>2
  <2> QED BY <2>1, <2>2 DEF TimeOf
<1>4. 2 * time * F = 2 * e + sample * (2 * N)
  BY <1>1, <1>2
<1> HIDE DEF F, N, e, t
<1>5. 2 * e + N \in 0..2 * N - 1
  BY <1>1, <1>2, <1>3 DEF F
<1>6. TimeNsToTicks(time) = (2 * e + sample * (2 * N) + N) \div (2 * N)
  BY <1>4 DEF TimeNsToTicks, F, N
<1>7. \A m \in Nat \ {0} : \A r \in 0..m - 1 : \A q \in Int : (r + q * m) \div m = q
  OBVIOUS
<1>8. 2 * N \in Nat \ {0} /\ 2 * e + sample * (2 * N) + N = (2 * e + N) + sample * (2 * N)
  BY <1>2, <1>3
<1> QED BY <1>5, <1>6, <1>7, <1>8

(* Every step keeps the times of the read under way and of the answer. *)
LEMMA TimeStep ==
  ASSUME NoneIsNothing, OneAtATime, ClockIsFiner, TimeInv, [AdapterNext]_<<vars, adapterVars>>
  PROVE  TimeInv'
<1>0. CallInv' /\ CallInv
  BY CallStep DEF TimeInv
<1>1. ASSUME UNCHANGED <<read, answer>> PROVE TimeInv'
  BY <1>0, <1>1 DEF TimeInv, TimedRead, TimeOf, TimestampOfFirstChunk
<1>2. CASE \E n \in ReadSizes : BeginRead(n)
  <2>1. (read' = None \/ read'.samples_received = 0) /\ answer' = answer
    BY <1>2 DEF BeginRead, NewRead
  <2> QED BY <1>0, <2>1 DEF TimeInv, TimedRead, TimestampOfFirstChunk
<1>3. CASE EndChunk
  <2>1. read # None /\ answer' = answer
    BY <1>3 DEF EndChunk
  <2>2. TimedRead'
    <3>1. CASE read.samples_received = 0
      <4>1. read'.timeNs = chunk.time /\ read'.firstChunk = chunk.last /\ chunk # None
        BY <1>0, <1>3, <3>1, ReadAdds
      <4>2. TimeOf(chunk.time, chunk.last)
        BY <4>1 DEF TimeInv, CallInv, ReceiveInv, TimeOfLastSample, TimeOf
      <4> QED BY <4>1, <4>2 DEF TimedRead, TimeOf
    <3>2. CASE read.samples_received # 0
      <4>1. read'.timeNs = read.timeNs /\ read'.firstChunk = read.firstChunk
        BY <1>0, <1>3, <3>2, ReadAdds
      <4>2. read.samples_received > 0
        BY <1>0, <2>1, <3>2 DEF CallInv, Turns, Reads
      <4> QED BY <2>1, <4>1, <4>2 DEF TimeInv, TimedRead, TimeOf
    <3> QED BY <3>1, <3>2
  <2> QED BY <1>0, <2>1, <2>2 DEF TimeInv, TimestampOfFirstChunk
<1>4. CASE EndRead
  <2>1. /\ read # None /\ read' = None
        /\ answer'.samples_received = read.samples_received
        /\ answer'.ticks = TimeNsToTicks(read.timeNs) /\ answer'.firstChunk = read.firstChunk
    BY <1>4 DEF EndRead
  <2>2. read \in Reads
    BY <1>0, <2>1 DEF CallInv, Turns
  <2>3. ASSUME read.samples_received > 0 PROVE TimeNsToTicks(read.timeNs) = read.firstChunk
    <3>1. read.timeNs \in Int /\ read.firstChunk \in Int
      BY <2>2 DEF Reads
    <3>2. TimeOf(read.timeNs, read.firstChunk)
      BY <2>1, <2>3 DEF TimeInv, TimedRead
    <3> QED BY <3>1, <3>2, NearestTick
  <2> QED BY <1>0, <2>1, <2>3 DEF TimeInv, TimedRead, TimestampOfFirstChunk
<1>5. CASE TrxControl
  <2>1. read' = read /\ answer' = None
    BY <1>5 DEF TrxControl
  <2> QED BY <1>0, <2>1 DEF TimeInv, TimedRead, TimeOf, TimestampOfFirstChunk
<1> QED BY <1>1, <1>2, <1>3, <1>4, <1>5 DEF AdapterNext, ReadChunk, adapterVars

(***************************************************************************)
(* The timestamp of trx_adrv_read is the number of the last sample of its  *)
(* first chunk: adding the later chunks, and the rounding of the board's   *)
(* stamp, of the chunk's time and of the conversion to ticks, do not move  *)
(* it, as long as the board's clock is twice as fine as the samples.       *)
(***************************************************************************)
THEOREM ReadsAreStamped ==
  ASSUME NoneIsNothing, OneAtATime, ClockIsFiner PROVE AdapterSpec => []TimestampOfFirstChunk
<1>1. AdapterInit => TimeInv
  BY CallInit DEF AdapterInit, TimeInv, TimedRead, TimestampOfFirstChunk
<1>2. TimeInv /\ [AdapterNext]_<<vars, adapterVars>> => TimeInv'
  BY TimeStep
<1>3. TimeInv => TimestampOfFirstChunk
  BY DEF TimeInv
<1> QED BY <1>1, <1>2, <1>3, PTL DEF AdapterSpec

-----------------------------------------------------------------------------
(* Samples *)

(* A copy takes what is asked for, or what is there. *)
LEMMA CopyTakes ==
  ASSUME NoWrap, NEW n, n \in Nat \ {0}, NEW f, f.last \in Nat, NEW held, held \in Nat \ {0},
         NEW at \in Nat, Copy(n, f, held, at), chunk' # None
  PROVE  /\ copied' \in Nat \ {0} /\ copied' <= n /\ copied' # None
         /\ chunk'.last + 1 - chunk'.first = copied'
<1>1. copied' = Least(held, n) /\ Least(held, n) \in Nat \ {0} /\ Least(held, n) <= n
  BY DEF Copy, Least
<1>2. copied' # None
  BY <1>1 DEF NoWrap
<1>3. chunk'.first = f.last - FrameItems + at + 1 /\ chunk'.last = f.last - FrameItems + at + copied'
  <2>1. f # None
    BY DEF Copy
  <2>2. chunk' = [first |-> f.last - FrameItems + at + 1,
                  last  |-> f.last - FrameItems + at + Least(held, n),
                  time  |-> ChunkTime(reg_timeNs', held - Least(held, n)),
                  epoch |-> f.epoch]
    BY <2>1 DEF Copy
  <2> QED BY <1>1, <2>2
<1>4. (f.last - FrameItems + at + copied') + 1 - (f.last - FrameItems + at + 1) = copied'
  BY <1>1, CallSizes
<1> QED BY <1>1, <1>2, <1>3, <1>4

(* A call of readStream goes on where the one before it ended, but for the
   frames it counts as lost. *)
LEMMA ReadGoesOn ==
  ASSUME NoneIsNothing, NoWrap, CallInv, GapInv, NEW n, n \in Nat \ {0}, ReadHeld(n) \/ ReadFrame(n)
  PROVE  /\ GapInv' /\ copied = None /\ chunk' # None /\ chunk' \in Chunk
         /\ rxdrops \in Nat /\ rxdrops' \in Nat
         /\ copied' \in Nat \ {0} /\ copied' <= n /\ copied' # None
         /\ chunk'.last + 1 - chunk'.first = copied'
         /\ chunk # None => chunk \in Chunk
         /\ (chunk # None /\ chunk.epoch = chunk'.epoch)
              => chunk'.first = chunk.last + 1 + FrameItems * (rxdrops' - rxdrops)
<1>0. /\ n \in Nat /\ OneAtATime /\ ReceiveInv /\ RxTypeInv /\ HeldFrame
      /\ rx_buffer # None => rx_buffer.last \in Nat
  BY Sizes DEF CallInv, RxTypeInv, FullFrame
<1>1. RxTypeInv' /\ copied = None /\ chunk' # None /\ control = "idle" /\ epoch > 0
  BY <1>0, RxTypeStep, ReadLeavesChunk
<1>2. /\ chunk' \in Chunk /\ rxdrops' \in Nat /\ rxdrops \in Nat /\ (chunk # None => chunk \in Chunk)
      /\ items_in_buffer \in Nat /\ offset \in Nat
  BY <1>0, <1>1, CallSizes DEF RxTypeInv, TypeOK
<1>3. CASE ReadHeld(n)
  <2>1. Copy(n, rx_buffer, items_in_buffer, offset) /\ items_in_buffer # 0
    BY <1>3 DEF ReadHeld
  <2>2. rx_buffer.last \in Nat
    BY <1>0, <1>1, <2>1 DEF HeldFrame
  <2>3. items_in_buffer \in Nat \ {0}
    BY <1>2, <2>1
  <2>4. /\ copied' \in Nat \ {0} /\ copied' <= n /\ copied' # None
        /\ chunk'.last + 1 - chunk'.first = copied'
    BY <1>1, <1>2, <2>1, <2>2, <2>3, CopyTakes
  <2>5. GapInv' /\ rxdrops' = rxdrops /\ (chunk # None => chunk'.first = chunk.last + 1)
    BY <1>0, <1>1, <1>3, ReadHeldGap
  <2>6. FrameItems * (rxdrops' - rxdrops) = 0
    BY <1>2, <2>5, CallSizes
  <2>7. chunk # None => chunk.last + 1 + 0 = chunk.last + 1
    BY <1>2 DEF Chunk
  <2> QED BY <1>1, <1>2, <2>4, <2>5, <2>6, <2>7
<1>4. CASE ReadFrame(n)
  <2>1. socket # <<>> /\ Copy(n, Head(socket), FrameItems, 0)
    BY <1>4 DEF ReadFrame
  <2>2. Head(socket).last \in Nat
    BY <1>0, <2>1, HeadIsFrame DEF FullFrame
  <2>3. 0 \in Nat /\ FrameItems \in Nat \ {0}
    BY CallSizes
  <2>4. /\ copied' \in Nat \ {0} /\ copied' <= n /\ copied' # None
        /\ chunk'.last + 1 - chunk'.first = copied'
    BY <1>1, <2>1, <2>2, <2>3, CopyTakes
  <2>5. GapInv' /\ (chunk # None /\ chunk'.epoch = chunk.epoch
                     => chunk'.first = chunk.last + 1 + FrameItems * (rxdrops' - rxdrops))
    BY <1>0, <1>1, <1>4, ReadFrameGap
  <2> QED BY <1>1, <1>2, <2>4, <2>5
<1> QED BY <1>3, <1>4

(* The frames lost before a count and after it. *)
LEMMA Summed ==
  ASSUME NEW k \in Int, NEW a \in Int, NEW b \in Int, NEW c \in Int
  PROVE  /\ k * (b - a) + k * (c - b) = k * (c - a)
         /\ k * (b - a) \in Int /\ k * (c - b) \in Int /\ k * (c - a) \in Int
OBVIOUS

(* No frames are lost since now. *)
LEMMA NoneLost == ASSUME NEW k \in Int, NEW a \in Int PROVE k * (a - a) = 0
OBVIOUS

(* A call of readStream adds to the read. *)
LEMMA ChunkStep ==
  ASSUME NoneIsNothing, NoWrap, SampleInv, read # None, UNCHANGED <<user, read, answer>>,
         NEW n, n \in Nat \ {0}, read.samples_received + n <= read.nsamps,
         ReadHeld(n) \/ ReadFrame(n)
  PROVE  Contiguous' /\ Continued'
<1> DEFINE got == read.samples_received
<1>1. /\ copied = None /\ chunk' # None /\ chunk' \in Chunk
      /\ rxdrops \in Nat /\ rxdrops' \in Nat
      /\ copied' \in Nat \ {0} /\ copied' <= n /\ copied' # None
      /\ chunk'.last + 1 - chunk'.first = copied'
      /\ chunk # None => chunk \in Chunk
      /\ (chunk # None /\ chunk.epoch = chunk'.epoch)
           => chunk'.first = chunk.last + 1 + FrameItems * (rxdrops' - rxdrops)
  BY ReadGoesOn DEF SampleInv
<1>2. read \in Reads /\ got \in Nat /\ read.nsamps \in Nat /\ FrameItems \in Int
  BY CallSizes DEF SampleInv, CallInv, Turns, Reads
<1>3. /\ Got = got /\ GotEpochs = read.epochs /\ GotLast = read.last /\ GotFirst = read.first
      /\ GotDrops = read.drops
  BY <1>1, <1>2 DEF Got, GotEpochs, GotLast, GotFirst, GotDrops, First, Pending
<1>4. /\ Got' = got + copied' /\ GotEpochs' = read.epochs \cup {chunk'.epoch} /\ GotLast' = chunk'.last
      /\ got = 0 => GotFirst' = chunk'.first /\ GotDrops' = rxdrops'
      /\ got # 0 => GotFirst' = read.first /\ GotDrops' = read.drops
  BY <1>1 DEF Got, GotEpochs, GotLast, GotFirst, GotDrops, First, Pending
<1>5. /\ IsFiniteSet(read.epochs) /\ (got = 0 <=> read.epochs = {})
      /\ got > 0 => /\ chunk # None /\ read.last = chunk.last /\ chunk.epoch \in read.epochs
                    /\ \A e : read.epochs = {e} =>
                         read.last + 1 - read.first = got + FrameItems * (rxdrops - read.drops)
  BY <1>3 DEF SampleInv, Contiguous, Only
<1>6. Got' \in Nat /\ Got' > 0 /\ Got' <= read.nsamps
  BY <1>1, <1>2, <1>4
<1>7. FrameItems * (rxdrops' - rxdrops') = 0
  <2>1. rxdrops' \in Int
    BY <1>1
  <2> QED BY <1>2, <2>1, NoneLost
<1>8. got = 0 => GotLast' + 1 - GotFirst' = Got' + FrameItems * (rxdrops' - GotDrops')
  BY <1>1, <1>4, <1>7
<1>9. ASSUME NEW e, read.epochs \cup {chunk'.epoch} = {e}, got > 0
      PROVE  GotLast' + 1 - GotFirst' = Got' + FrameItems * (rxdrops' - GotDrops')
  <2>1. read.epochs = {e} /\ chunk'.epoch = e /\ chunk.epoch = e
    BY <1>5, <1>9
  <2>2. /\ read.last + 1 - read.first = got + FrameItems * (rxdrops - read.drops)
        /\ read.last = chunk.last /\ chunk # None
    BY <1>5, <1>9, <2>1
  <2>3. /\ read.first \in Int /\ read.last \in Int /\ read.drops \in Int
        /\ chunk'.first \in Int /\ chunk'.last \in Int
    BY <1>1, <1>2 DEF Reads, Chunk
  <2>4. chunk'.first = read.last + 1 + FrameItems * (rxdrops' - rxdrops)
    BY <1>1, <2>1, <2>2
  <2>5. rxdrops \in Int /\ rxdrops' \in Int /\ got \in Int /\ copied' \in Int
    BY <1>1, <1>2
  <2>6. /\ FrameItems * (rxdrops - read.drops) + FrameItems * (rxdrops' - rxdrops)
             = FrameItems * (rxdrops' - read.drops)
        /\ FrameItems * (rxdrops - read.drops) \in Int /\ FrameItems * (rxdrops' - rxdrops) \in Int
    BY <1>2, <2>3, <2>5, Summed
  <2>7. chunk'.last + 1 - chunk'.first = copied'
    BY <1>1
  <2>8. chunk'.last + 1 - read.first = (got + copied') + FrameItems * (rxdrops' - read.drops)
    BY <2>2, <2>3, <2>4, <2>5, <2>6, <2>7
  <2> QED BY <1>4, <1>9, <2>8
<1>10. Contiguous'
  <2>1. GotLast' = chunk'.last /\ chunk'.epoch \in GotEpochs' /\ GotEpochs' # {}
    BY <1>4
  <2>2. ASSUME NEW e, Only(e)'
        PROVE  GotLast' + 1 - GotFirst' = Got' + FrameItems * (rxdrops' - GotDrops')
    <3>1. read.epochs \cup {chunk'.epoch} = {e}
      BY <1>4, <2>2 DEF Only
    <3>2. got = 0 \/ got > 0
      BY <1>2
    <3> QED BY <1>8, <1>9, <3>1, <3>2
  <2> QED BY <1>1, <1>5, <1>6, <2>1, <2>2 DEF Contiguous
<1>11. ASSUME NEW e, Follows(e)'
      PROVE  /\ chunk'.epoch = e /\ answer.last \in Int /\ answer.counted \in Int
             /\ chunk'.last - answer.last = Got' + FrameItems * (rxdrops' - answer.counted)
  <2>1. answer # None /\ answer.epochs = {e} /\ GotEpochs' = {e}
    BY <1>6, <1>11 DEF Follows, Only
  <2>2. chunk'.epoch = e /\ (got > 0 => read.epochs = {e})
    BY <1>2, <1>4, <1>5, <2>1
  <2>3. Follows(e)
    BY <1>3, <2>1, <2>2 DEF Follows, Only
  <2>4. /\ chunk # None /\ chunk.epoch = e /\ answer.last \in Int /\ answer.counted \in Int
        /\ chunk.last - answer.last = got + FrameItems * (rxdrops - answer.counted)
    BY <1>3, <2>3 DEF SampleInv, Continued
  <2>5. chunk'.first = chunk.last + 1 + FrameItems * (rxdrops' - rxdrops)
    BY <1>1, <2>2, <2>4
  <2>6. /\ chunk.last \in Int /\ chunk'.first \in Int /\ chunk'.last \in Int
        /\ rxdrops \in Int /\ rxdrops' \in Int /\ got \in Int /\ copied' \in Int
    BY <1>1, <1>2, <2>4 DEF Chunk
  <2>7. /\ FrameItems * (rxdrops - answer.counted) + FrameItems * (rxdrops' - rxdrops)
             = FrameItems * (rxdrops' - answer.counted)
        /\ FrameItems * (rxdrops - answer.counted) \in Int /\ FrameItems * (rxdrops' - rxdrops) \in Int
    BY <1>2, <2>4, <2>6, Summed
  <2>8. chunk'.last + 1 - chunk'.first = copied'
    BY <1>1
  <2>9. chunk'.last - answer.last = (got + copied') + FrameItems * (rxdrops' - answer.counted)
    BY <2>4, <2>5, <2>6, <2>7, <2>8
  <2> QED BY <1>4, <2>2, <2>4, <2>9
<1>12. Continued'
  <2>1. read' # None /\ answer' = answer
    OBVIOUS
  <2> QED BY <1>1, <1>11, <2>1 DEF Continued
<1> QED BY <1>10, <1>12

(* No sample was read. *)
LEMMA SampleInit == ASSUME NoWrap, AdapterInit PROVE SampleInv
<1>1. read = None /\ answer = None /\ Init
  BY DEF AdapterInit
<1> QED BY <1>1, CallInit, GapInit DEF SampleInv, Contiguous, Continued, Follows

(* The frames are in order, whoever reads them. *)
LEMMA GapCallStep ==
  ASSUME NoneIsNothing, NoWrap, CallInv, GapInv, [AdapterNext]_<<vars, adapterVars>> PROVE GapInv'
<1>1. OneAtATime /\ ReceiveInv
  BY Sizes DEF CallInv
<1>2. CASE [Next]_vars
  BY <1>1, <1>2, GapStep
<1>3. CASE ReqNum \in Nat \ {0} /\ (ReadHeld(ReqNum) \/ ReadFrame(ReqNum))
  BY <1>3, ReadGoesOn
<1> QED BY <1>1, <1>2, <1>3, AdapterSteps

(* A read begins where the answer before it ended. *)
LEMMA BeginSamples ==
  ASSUME NoneIsNothing, CallInv, Continued, NEW n \in ReadSizes, BeginRead(n)
  PROVE  Contiguous' /\ Continued'
<1>1. /\ user = "adapter" /\ read = None /\ read' = NewRead(n)
      /\ UNCHANGED <<chunk, copied, rxdrops, answer>>
  BY DEF BeginRead, vars, statVars
<1>2. copied' = None
  BY <1>1 DEF CallInv, Turns
<1>3. /\ read'.samples_received = 0 /\ read'.epochs = {} /\ read'.nsamps = n /\ n \in Nat
  BY <1>1, CallSizes DEF NewRead
<1>4. Got' = 0 /\ GotEpochs' = {}
  BY <1>2, <1>3 DEF Got, GotEpochs, Pending
<1>5. Contiguous'
  BY <1>3, <1>4, FS_EmptySet DEF Contiguous
<1>6. \A e : Follows(e)' => Follows(e)
  BY <1>1 DEF Follows
<1>7. (IF read' = None THEN 0 ELSE Got') = 0
  BY <1>4
<1>8. Continued'
  BY <1>1, <1>6, <1>7 DEF Continued
<1> QED BY <1>5, <1>8

(* The return of readStream moves what is pending into the read. *)
LEMMA EndChunkSamples ==
  ASSUME NoneIsNothing, CallInv, Contiguous, Continued, EndChunk
  PROVE  Contiguous' /\ Continued'
<1>1. /\ read # None /\ copied # None /\ copied' = None
      /\ UNCHANGED <<chunk, rxdrops, answer>>
  BY DEF EndChunk, Account, statVars
<1>2. /\ copied \in Nat /\ read \in Reads /\ read' \in Reads
      /\ read'.nsamps = read.nsamps
      /\ read'.samples_received = read.samples_received + copied
      /\ read'.last = chunk.last /\ read'.epochs = read.epochs \cup {chunk.epoch}
      /\ read.samples_received = 0 => read'.first = chunk.first /\ read'.drops = rxdrops
      /\ read.samples_received # 0 => read'.first = read.first /\ read'.drops = read.drops
  BY ReadAdds
<1>3. read' # None
  BY <1>2 DEF NoneIsNothing
<1>4. Got' = Got /\ GotEpochs' = GotEpochs /\ GotLast' = GotLast
  <2>1. Got = read.samples_received + copied /\ Got' = read'.samples_received + 0
    BY <1>1 DEF Got, Pending
  <2>2. read'.samples_received + 0 = read'.samples_received
    BY <1>2 DEF Reads
  <2> QED BY <1>1, <1>2, <2>1, <2>2 DEF GotEpochs, GotLast, Pending
<1>5. GotFirst' = GotFirst /\ GotDrops' = GotDrops
  BY <1>1, <1>2 DEF GotFirst, GotDrops, First, Pending
<1>6. IsFiniteSet(read.epochs) => IsFiniteSet(read'.epochs)
  BY <1>2, FS_AddElement
<1>7. \A e : Only(e)' => Only(e)
  BY <1>4 DEF Only
<1>8. Contiguous'
  BY <1>1, <1>2, <1>4, <1>5, <1>6, <1>7 DEF Contiguous
<1>9. \A e : Follows(e)' => Follows(e)
  BY <1>1, <1>3, <1>4, <1>7 DEF Follows, Only
<1>10. Continued'
  BY <1>1, <1>3, <1>4, <1>9 DEF Continued
<1> QED BY <1>8, <1>10

(* What the answer says of its samples. *)
Answered ==
  (answer' # answer /\ answer' # None /\ Cardinality(answer'.epochs) = 1) =>
     /\ answer'.samples_received <= answer'.nsamps
     /\ answer'.last + 1 - answer'.first = answer'.samples_received + FrameItems * answer'.drops
     /\ (answer # None /\ answer.epochs = answer'.epochs) =>
          answer'.last - answer.last =
            answer'.samples_received + FrameItems * (answer'.counted - answer.counted)

(* A read is answered. *)
LEMMA EndReadSamples ==
  ASSUME NoneIsNothing, CallInv, Contiguous, Continued, EndRead
  PROVE  Contiguous' /\ Continued' /\ Answered
<1>1. /\ read # None /\ copied = None /\ read' = None /\ UNCHANGED <<chunk, rxdrops>>
      /\ answer'.nsamps = read.nsamps /\ answer'.samples_received = read.samples_received
      /\ answer'.first = read.first /\ answer'.last = read.last
      /\ answer'.drops = rxdrops - read.drops /\ answer'.counted = rxdrops
      /\ answer'.epochs = read.epochs
  BY DEF EndRead, vars, statVars
<1>2. read \in Reads /\ rxdrops \in Nat /\ read.last \in Int /\ FrameItems \in Int
      /\ read.samples_received \in Nat
  BY <1>1, CallSizes DEF CallInv, Turns, RxTypeInv, TypeOK, Reads
<1>3. /\ Got = read.samples_received /\ GotEpochs = read.epochs
      /\ GotLast = read.last /\ GotFirst = read.first /\ GotDrops = read.drops
  <2>1. read.samples_received + 0 = read.samples_received
    BY <1>2
  <2> QED BY <1>1, <2>1 DEF Got, GotEpochs, GotLast, GotFirst, GotDrops, First, Pending
<1>4. /\ IsFiniteSet(read.epochs) /\ read.samples_received <= read.nsamps
      /\ \A e : read.epochs = {e} =>
           /\ read.samples_received > 0 /\ chunk # None /\ read.last = chunk.last /\ chunk.epoch = e
           /\ read.last + 1 - read.first = read.samples_received + FrameItems * (rxdrops - read.drops)
  <2>1. ASSUME NEW e, read.epochs = {e} PROVE read.samples_received > 0
    <3>1. read.samples_received # 0
      BY <1>1, <1>3, <2>1 DEF Contiguous
    <3> QED BY <1>2, <3>1
  <2> QED BY <1>1, <1>3, <2>1 DEF Contiguous, Only
<1>5. Contiguous'
  BY <1>1 DEF Contiguous
<1>6. Continued'
  <2> SUFFICES ASSUME NEW e, Follows(e)'
               PROVE  /\ chunk' # None /\ chunk'.epoch = e
                      /\ answer'.last \in Int /\ answer'.counted \in Int
                      /\ chunk'.last - answer'.last = 0 + FrameItems * (rxdrops' - answer'.counted)
    BY <1>1 DEF Continued
  <2>1. read.epochs = {e}
    BY <1>1 DEF Follows
  <2>2. chunk # None /\ chunk.epoch = e /\ chunk.last = read.last
    BY <1>4, <2>1
  <2>3. FrameItems * (rxdrops - rxdrops) = 0
    BY <1>2, NoneLost
  <2>4. chunk'.last - answer'.last = 0
    <3>1. chunk'.last = answer'.last /\ answer'.last \in Int
      BY <1>1, <1>2, <2>2
    <3> QED BY <3>1
  <2>5. rxdrops' = rxdrops /\ answer'.counted = rxdrops /\ answer'.last \in Int /\ rxdrops \in Int
    BY <1>1, <1>2
  <2> QED BY <1>1, <2>2, <2>3, <2>4, <2>5
<1>7. Answered
  <2> SUFFICES ASSUME Cardinality(read.epochs) = 1
               PROVE  /\ read.samples_received <= read.nsamps
                      /\ read.last + 1 - read.first = read.samples_received + FrameItems * (rxdrops - read.drops)
                      /\ (answer # None /\ answer.epochs = read.epochs) =>
                           read.last - answer.last =
                             read.samples_received + FrameItems * (rxdrops - answer.counted)
    BY <1>1 DEF Answered
  <2>1. PICK e : read.epochs = {e}
    BY <1>4, FS_Singleton
  <2>2. ASSUME answer # None, answer.epochs = read.epochs
        PROVE  read.last - answer.last = read.samples_received + FrameItems * (rxdrops - answer.counted)
    <3>1. Follows(e)
      BY <1>3, <2>1, <2>2 DEF Follows, Only
    <3>2. chunk.last - answer.last = Got + FrameItems * (rxdrops - answer.counted)
      BY <1>1, <3>1 DEF Continued
    <3>3. chunk.last = read.last
      BY <1>4, <2>1
    <3> QED BY <1>3, <3>2, <3>3
  <2> QED BY <1>4, <2>1, <2>2
<1> QED BY <1>5, <1>6, <1>7

(* Every step keeps the samples together, and answers with them. *)
LEMMA SampleStep ==
  ASSUME NoneIsNothing, NoWrap, SampleInv, [AdapterNext]_<<vars, adapterVars>>
  PROVE  SampleInv' /\ Answered
<1>1. CallInv /\ GapInv /\ Contiguous /\ Continued
  BY DEF SampleInv
<1>2. CallInv' /\ GapInv'
  BY <1>1, GapCallStep, CallStep, Sizes
<1>3. ASSUME UNCHANGED <<read, answer, chunk, copied, rxdrops>>
      PROVE  Contiguous' /\ Continued' /\ Answered
  <2>1. /\ Got' = Got /\ GotEpochs' = GotEpochs /\ GotLast' = GotLast
        /\ GotFirst' = GotFirst /\ GotDrops' = GotDrops
    BY <1>3 DEF Got, GotEpochs, GotLast, GotFirst, GotDrops, First, Pending
  <2> QED BY <1>1, <1>3, <2>1 DEF Contiguous, Continued, Follows, Only, Answered
<1>4. CASE user = "program" /\ Next /\ UNCHANGED adapterVars
  <2>1. read' = None /\ answer' = None
    BY <1>1, <1>4 DEF CallInv, Turns, adapterVars
  <2> QED BY <1>2, <2>1 DEF SampleInv, Contiguous, Continued, Follows, Answered
<1>5. CASE user = "adapter" /\ (FillFrame \/ Idle) /\ UNCHANGED adapterVars
  <2>1. UNCHANGED <<read, answer, chunk, copied, rxdrops>>
    BY <1>5 DEF FillFrame, Idle, adapterVars, statVars
  <2> QED BY <1>2, <1>3, <2>1 DEF SampleInv
<1>6. ASSUME NEW n \in ReadSizes, BeginRead(n) PROVE SampleInv' /\ Answered
  <2>1. answer' = answer
    BY <1>6 DEF BeginRead
  <2> QED BY <1>1, <1>2, <1>6, <2>1, BeginSamples DEF SampleInv, Answered
<1>7. CASE ReadChunk
  <2>1. read # None /\ read \in Reads /\ ~Filled /\ UNCHANGED <<user, read, answer>>
    BY <1>1, <1>7 DEF ReadChunk, CallInv, Turns, adapterVars
  <2>2. ReqNum \in Nat \ {0} /\ read.samples_received + ReqNum <= read.nsamps
    BY <2>1, Asked
  <2>3. ReadHeld(ReqNum) \/ ReadFrame(ReqNum)
    BY <1>7 DEF ReadChunk
  <2>4. Contiguous' /\ Continued'
    BY <2>1, <2>2, <2>3, ChunkStep
  <2> QED BY <1>2, <2>1, <2>4 DEF SampleInv, Answered
<1>8. CASE EndChunk
  <2>1. answer' = answer
    BY <1>8 DEF EndChunk
  <2> QED BY <1>1, <1>2, <1>8, <2>1, EndChunkSamples DEF SampleInv, Answered
<1>9. CASE EndRead
  BY <1>1, <1>2, <1>9, EndReadSamples DEF SampleInv
<1>10. CASE TrxControl
  <2>1. read' = None /\ answer' = None
    BY <1>10 DEF TrxControl
  <2> QED BY <1>2, <2>1 DEF SampleInv, Contiguous, Continued, Follows, Answered
<1>11. CASE UNCHANGED <<vars, adapterVars>>
  <2>1. UNCHANGED <<read, answer, chunk, copied, rxdrops>>
    BY <1>11 DEF vars, statVars, adapterVars
  <2> QED BY <1>2, <1>3, <2>1 DEF SampleInv
<1> QED BY <1>4, <1>5, <1>6, <1>7, <1>8, <1>9, <1>10, <1>11 DEF AdapterNext

(***************************************************************************)
(* A read of trx_adrv_read has no more samples than were asked for, and    *)
(* samples are missing in it, or between it and the read before, only if   *)
(* rxdrops counted their frames, however many calls of readStream it took  *)
(* and wherever they cut the frames.                                       *)
(***************************************************************************)
THEOREM ReadsFollow ==
  ASSUME NoneIsNothing, NoWrap PROVE AdapterSpec => ReadsAreContiguous
<1>1. AdapterInit => SampleInv
  BY SampleInit
<1>2. SampleInv /\ [AdapterNext]_<<vars, adapterVars>> => SampleInv' /\ Answered
  BY SampleStep
<1>3. Answered =>
        [(answer' # answer /\ answer' # None /\ Cardinality(answer'.epochs) = 1) =>
           /\ answer'.samples_received <= answer'.nsamps
           /\ answer'.last + 1 - answer'.first = answer'.samples_received + FrameItems * answer'.drops
           /\ (answer # None /\ answer.epochs = answer'.epochs) =>
                answer'.last - answer.last =
                  answer'.samples_received + FrameItems * (answer'.counted - answer.counted)]_answer
  BY DEF Answered
<1> QED BY <1>1, <1>2, <1>3, PTL DEF AdapterSpec, ReadsAreContiguous

-----------------------------------------------------------------------------
(* The stream under the adapter *)

(***************************************************************************)
(* What readStream promises its callers it promises the adapter, whose     *)
(* calls ask for any number of samples: chunks lie in their frames and     *)
(* have the time of their last sample.                                     *)
(***************************************************************************)
THEOREM AdapterReceives ==
  ASSUME NoneIsNothing, OneAtATime
  PROVE  AdapterSpec => [](TypeOK /\ BufferBounds /\ TimeOfLastSample)
<1>1. AdapterInit => CallInv
  BY CallInit
<1>2. CallInv /\ [AdapterNext]_<<vars, adapterVars>> => CallInv'
  BY CallStep
<1>3. CallInv => TypeOK /\ BufferBounds /\ TimeOfLastSample
  BY DEF CallInv, RxTypeInv, ReceiveInv
<1> QED BY <1>1, <1>2, <1>3, PTL DEF AdapterSpec

(* A step of the adapter leaves no gap that is not counted, and counts its
   length. *)
LEMMA LostStep ==
  ASSUME NoneIsNothing, NoWrap, FramesTakeTicks, CallInv, GapInv, UnderInv,
         [AdapterNext]_<<vars, adapterVars>>
  PROVE  UnderInv' /\ Gapless /\ Underflow
<1>1. OneAtATime /\ ReceiveInv /\ RxTypeInv /\ rxunderflows \in Int
  BY Sizes DEF CallInv, RxTypeInv, TypeOK
<1>2. CASE [Next]_vars
  BY <1>1, <1>2, GapStep, UnderStep
<1>3. CASE ReqNum \in Nat \ {0} /\ (ReadHeld(ReqNum) \/ ReadFrame(ReqNum))
  <2>1. PICK n \in Nat \ {0} : ReadHeld(n) \/ ReadFrame(n)
    BY <1>3
  <2>2. Gapless
    BY <2>1, ReadGoesOn DEF Gapless
  <2>3. CASE ReadFrame(n)
    BY <1>1, <2>2, <2>3, ReadFrameUnder
  <2>4. CASE ReadHeld(n)
    <3>1. UNCHANGED <<clock, rx_buffer, nextId, socket, rxTimestampNS, rxidcounter, rxidOffset, rxdrops>>
      BY <2>4 DEF ReadHeld, boardVars, bufferVars
    <3> QED BY <1>1, <2>2, <3>1, QuietUnder DEF Underflow
  <2> QED BY <2>1, <2>3, <2>4
<1> QED BY <1>1, <1>2, <1>3, AdapterSteps

(***************************************************************************)
(* ... samples are missing only where rxdrops counts their frames, and     *)
(* those are counted as underflows of their length.                        *)
(***************************************************************************)
THEOREM AdapterLosses ==
  ASSUME NoneIsNothing, NoWrap, FramesTakeTicks
  PROVE  AdapterSpec => NoSilentGap /\ DropsAreUnderflows
<1> DEFINE Inv == CallInv /\ GapInv /\ UnderInv
<1>1. AdapterInit => Inv
  BY CallInit, GapInit, UnderInit DEF AdapterInit
<1>2. Inv /\ [AdapterNext]_<<vars, adapterVars>> => Inv' /\ Gapless /\ Underflow
  BY CallStep, GapCallStep, LostStep, Sizes
<1>3. Gapless =>
        [(chunk # None /\ chunk' # None /\ chunk' # chunk /\ chunk'.epoch = chunk.epoch)
           => chunk'.first = chunk.last + 1 + FrameItems * (rxdrops' - rxdrops)]_vars
  BY DEF Gapless
<1>4. Underflow =>
        [rxidcounter # 0 /\ rxdrops' # rxdrops /\ 2 * (rxTimestampNS' - rxTimestampNS) < IntRange
           => rxunderflows' - rxunderflows >=
                (rxdrops' - rxdrops) * (FrameDuration - SamplingFrequency * TS_TO_NS)]_vars
  BY DEF Underflow
<1> QED BY <1>1, <1>2, <1>3, <1>4, PTL DEF AdapterSpec, NoSilentGap, DropsAreUnderflows
=============================================================================
