------------------------------ MODULE RxProofs ------------------------------
(***************************************************************************)
(* Proofs about RxStreamer: what readStream copies lies in the frame, each *)
(* chunk has the time of its last sample, and the samples missing between  *)
(* two chunks are counted as dropped frames and as underflows of their     *)
(* length, for every frame size, every sequence of calls and losses, every *)
(* rate and clock, as long as nobody starts or stops the stream in the     *)
(* middle of a call.                                                       *)
(***************************************************************************)
EXTENDS RxStreamer, TLAPS

(* Reader and controlling thread take turns. *)
OneAtATime == ~Overlap

Sent == [id : Nat, last : Nat, epoch : Nat]

Types ==
  /\ clock \in Nat /\ nextId \in Nat /\ epoch \in Nat
  /\ socket \in Seq(Sent)
  /\ rx_buffer # None => rx_buffer \in Sent
  /\ items_in_buffer \in Nat /\ offset \in Nat
  /\ rxTimestampNS \in Int /\ reg_timeNs \in Int

(* What was copied is part of what is there, and accounted for before the
   stream is stopped. *)
CopyInBuffer ==
  copied # None => /\ copied \in Nat /\ copied <= items_in_buffer
                   /\ control = "idle" /\ epoch > 0

(* The times kept are those of the frame that is held. *)
HeldStamp ==
  (epoch > 0 /\ items_in_buffer # 0 /\ rx_buffer # None)
    => rxTimestampNS = StampOf(rx_buffer) /\ reg_timeNs = StampOf(rx_buffer)

ReceiveInv == Types /\ BufferBounds /\ CopyInBuffer /\ HeldStamp /\ TimeOfLastSample

-----------------------------------------------------------------------------
(* Arithmetic *)

(* What division leaves. *)
LEMMA Quotient ==
  ASSUME NEW n \in Nat \ {0}, NEW a \in Nat
  PROVE  a \div n \in Nat /\ n * (a \div n) <= a /\ a < n * (a \div n) + n
OBVIOUS

(* A product keeps the order of its factor. *)
LEMMA Scaled ==
  ASSUME NEW k \in Nat \ {0}, NEW a \in Int, NEW b \in Int
  PROVE  (a <= b => a * k <= b * k) /\ (a < b => a * k < b * k)
OBVIOUS

(* Less than the modulus, a number is its own rest. *)
LEMMA Small == ASSUME NEW n \in Nat \ {0}, NEW a \in Nat, a < n PROVE a % n = a
OBVIOUS

(* The stamp of a frame less the time of the samples that remain is the time
   of the last sample copied, but for the two roundings. *)
LEMMA TimeOfPart ==
  ASSUME NEW last \in Nat, NEW remain \in Nat
  PROVE  LET stamp == ((last * TicksPerSec) \div SamplingFrequency) * TS_TO_NS
             error == SamplingFrequency * ChunkTime(stamp, remain) - NanosPerSec * (last - remain)
         IN  -SamplingFrequency * TS_TO_NS < error /\ error < SamplingFrequency
<1> DEFINE F == SamplingFrequency
           q == (last * TicksPerSec) \div F
           r == (remain * NanosPerSec) \div F
<1>1. F \in Nat \ {0} /\ TicksPerSec \in Nat \ {0} /\ TS_TO_NS \in Nat \ {0}
  BY StreamerAssumption
<1>2. NanosPerSec \in Nat /\ last * TicksPerSec \in Nat
  BY <1>1 DEF NanosPerSec
<1>3. remain * NanosPerSec \in Nat
  BY <1>2
<1>4. q \in Nat /\ F * q <= last * TicksPerSec /\ last * TicksPerSec < F * q + F
  BY <1>1, <1>2, Quotient
<1>5. r \in Nat /\ F * r <= remain * NanosPerSec /\ remain * NanosPerSec < F * r + F
  BY <1>1, <1>3, Quotient
<1> HIDE DEF F, q, r
<1>6. F * q \in Int /\ F * q + F \in Int
  BY <1>1, <1>4
<1>7. /\ (F * q) * TS_TO_NS <= (last * TicksPerSec) * TS_TO_NS
      /\ (last * TicksPerSec) * TS_TO_NS < (F * q + F) * TS_TO_NS
  BY <1>1, <1>2, <1>4, <1>6, Scaled
<1>8. /\ (last * TicksPerSec) * TS_TO_NS = NanosPerSec * last
      /\ (F * q) * TS_TO_NS = F * (q * TS_TO_NS)
      /\ (F * q + F) * TS_TO_NS = F * (q * TS_TO_NS) + F * TS_TO_NS
  BY <1>1, <1>4 DEF NanosPerSec
<1>9. /\ NanosPerSec * (last - remain) = NanosPerSec * last - remain * NanosPerSec
      /\ F * (q * TS_TO_NS - r) = F * (q * TS_TO_NS) - F * r
  BY <1>1, <1>2, <1>4, <1>5
<1>10. /\ F * (q * TS_TO_NS) \in Int /\ F * r \in Int /\ F * TS_TO_NS \in Int
       /\ NanosPerSec * last \in Int /\ remain * NanosPerSec \in Int
       /\ -F * TS_TO_NS = -(F * TS_TO_NS)
  BY <1>1, <1>2, <1>4, <1>5
<1>11. /\ -(F * TS_TO_NS) < (F * (q * TS_TO_NS) - F * r) - (NanosPerSec * last - remain * NanosPerSec)
       /\ (F * (q * TS_TO_NS) - F * r) - (NanosPerSec * last - remain * NanosPerSec) < F
  <2> DEFINE a == F * (q * TS_TO_NS)
             b == F * r
             c == F * TS_TO_NS
             d == NanosPerSec * last
             e == remain * NanosPerSec
  <2>1. a \in Int /\ b \in Int /\ c \in Int /\ d \in Int /\ e \in Int /\ F \in Int
    BY <1>1, <1>10
  <2>2. a <= d /\ d < a + c /\ b <= e /\ e < b + F
    BY <1>5, <1>7, <1>8
  <2> HIDE DEF a, b, c, d, e
  <2>3. -c < (a - b) - (d - e) /\ (a - b) - (d - e) < F
    BY <2>1, <2>2
  <2> QED BY <2>3 DEF a, b, c, d, e
<1> QED BY <1>9, <1>10, <1>11 DEF ChunkTime, F, q, r

-----------------------------------------------------------------------------
(* Steps *)

(* The constructor's values do not matter: nothing is read before a start. *)
LEMMA ReceiveInit == ASSUME Init PROVE ReceiveInv
<1>1. Types
  BY StreamerAssumption DEF Init, Types
<1>2. BufferBounds /\ CopyInBuffer /\ HeldStamp /\ TimeOfLastSample
  BY DEF Init, BufferBounds, CopyInBuffer, HeldStamp, TimeOfLastSample
<1> QED BY <1>1, <1>2 DEF ReceiveInv

(* What a call copies is there, and stamped with the time of its last sample:
   f is the frame it is copied from, of which held samples are left at at. *)
LEMMA CopyInv ==
  ASSUME OneAtATime, NEW n \in Nat, NEW f, NEW held \in Nat, NEW at \in Nat,
         held + at = FrameItems, f # None => f \in Sent,
         f # None => rxTimestampNS' = StampOf(f) /\ (at # 0 => reg_timeNs = StampOf(f)),
         reg_timeNs \in Int, rxTimestampNS' \in Int, Copy(n, f, held, at)
  PROVE  /\ copied' \in Nat /\ copied' <= held
         /\ reg_timeNs' \in Int /\ (f # None => reg_timeNs' = StampOf(f))
         /\ TimeOfLastSample'
<1> DEFINE items == Least(held, n)
           remain == held - items
<1>1. n \in Nat /\ FrameItems \in Nat
  BY StreamerAssumption
<1>2. items \in Nat /\ items <= held /\ remain \in Nat
  BY <1>1 DEF Least
<1>3. copied' = items /\ reg_timeNs' = IF at = 0 THEN rxTimestampNS' ELSE reg_timeNs
  BY DEF Copy
<1>4. f # None => reg_timeNs' = StampOf(f)
  BY <1>3
<1>5. reg_timeNs' \in Int
  BY <1>3
<1>6. TimeOfLastSample'
  <2>1. CASE f = None
    BY <2>1 DEF Copy, TimeOfLastSample
  <2>2. CASE f # None
    <3>1. f.last \in Nat
      BY <2>2 DEF Sent
    <3>2. chunk' = [first |-> f.last - FrameItems + at + 1,
                    last  |-> f.last - FrameItems + at + items,
                    time  |-> ChunkTime(reg_timeNs', remain),
                    epoch |-> f.epoch]
      BY <2>2 DEF Copy
    <3>3. chunk'.time = ChunkTime(StampOf(f), remain)
      BY <3>2, <1>4, <2>2
    <3>a. f.last - FrameItems + at + items = f.last - remain
      BY <1>1, <1>2, <3>1
    <3>4. chunk'.last = f.last - remain
      BY <3>2, <3>a
    <3> HIDE DEF remain
    <3>5. LET error == SamplingFrequency * ChunkTime(StampOf(f), remain)
                       - NanosPerSec * (f.last - remain)
          IN  -SamplingFrequency * TS_TO_NS < error /\ error < SamplingFrequency
      BY <1>2, <3>1, TimeOfPart DEF StampOf
    <3>6. LET error == SamplingFrequency * chunk'.time - NanosPerSec * chunk'.last
          IN  -SamplingFrequency * TS_TO_NS < error /\ error < SamplingFrequency
      BY <3>3, <3>4, <3>5
    <3> QED BY <3>6 DEF TimeOfLastSample
  <2> QED BY <2>1, <2>2
<1> QED BY <1>2, <1>3, <1>4, <1>5, <1>6

(* A stamp is a number. *)
LEMMA StampIsInt == ASSUME NEW f \in Sent PROVE StampOf(f) \in Int
<1>1. f.last * TicksPerSec \in Nat /\ SamplingFrequency \in Nat \ {0} /\ TS_TO_NS \in Nat
  BY StreamerAssumption DEF Sent
<1>2. (f.last * TicksPerSec) \div SamplingFrequency \in Nat
  BY <1>1, Quotient
<1> QED BY <1>1, <1>2 DEF StampOf

(* A call that finds samples in the buffer. *)
LEMMA ReadHeldInv ==
  ASSUME OneAtATime, ReceiveInv, NEW n \in Nat, ReadHeld(n) PROVE ReceiveInv'
<1>1. /\ epoch > 0 /\ control = "idle" /\ items_in_buffer # 0
      /\ rxTimestampNS' = rxTimestampNS /\ Copy(n, rx_buffer, items_in_buffer, offset)
      /\ UNCHANGED <<clock, nextId, epoch, socket, rx_buffer, items_in_buffer, offset, control>>
  BY DEF ReadHeld, MayRead, OneAtATime, boardVars, bufferVars
<1>2. /\ Types /\ items_in_buffer + offset = FrameItems
      /\ rx_buffer # None => rxTimestampNS = StampOf(rx_buffer) /\ reg_timeNs = StampOf(rx_buffer)
  BY <1>1 DEF ReceiveInv, BufferBounds, HeldStamp, Types
<1>3. /\ copied' \in Nat /\ copied' <= items_in_buffer
      /\ reg_timeNs' \in Int /\ (rx_buffer # None => reg_timeNs' = StampOf(rx_buffer))
      /\ TimeOfLastSample'
  <2>1. /\ items_in_buffer \in Nat /\ offset \in Nat /\ reg_timeNs \in Int
        /\ rxTimestampNS' \in Int /\ (rx_buffer # None => rx_buffer \in Sent)
    BY <1>1, <1>2 DEF Types
  <2>2. rx_buffer # None => /\ rxTimestampNS' = StampOf(rx_buffer)
                            /\ offset # 0 => reg_timeNs = StampOf(rx_buffer)
    BY <1>1, <1>2
  <2> QED BY <1>1, <1>2, <2>1, <2>2, CopyInv
<1>4. Types'
  BY <1>1, <1>2, <1>3 DEF Types
<1>5. BufferBounds' /\ CopyInBuffer'
  BY <1>1, <1>2, <1>3 DEF BufferBounds, CopyInBuffer
<1>6. HeldStamp'
  BY <1>1, <1>2, <1>3 DEF HeldStamp, StampOf
<1> QED BY <1>3, <1>4, <1>5, <1>6 DEF ReceiveInv

(* A call that takes a new frame. *)
LEMMA ReadFrameInv ==
  ASSUME OneAtATime, ReceiveInv, NEW n \in Nat, ReadFrame(n) PROVE ReceiveInv'
<1> DEFINE f == Head(socket)
<1>1. /\ epoch > 0 /\ control = "idle" /\ socket # <<>> /\ socket' = Tail(socket)
      /\ rxTimestampNS' = StampOf(f) /\ rx_buffer' = f
      /\ items_in_buffer' = FrameItems /\ offset' = 0
      /\ Copy(n, f, FrameItems, 0)
      /\ UNCHANGED <<clock, nextId, epoch, control>>
  BY DEF ReadFrame, MayRead, OneAtATime, boardVars, CountUnderflows
<1>2. Types /\ FrameItems \in Nat
  BY StreamerAssumption DEF ReceiveInv
<1>3. f \in Sent /\ Tail(socket) \in Seq(Sent)
  BY <1>1, <1>2 DEF Types
<1>4. StampOf(f) \in Int
  BY <1>3, StampIsInt
<1> HIDE DEF f
<1>5. /\ copied' \in Nat /\ copied' <= FrameItems
      /\ reg_timeNs' \in Int /\ (f # None => reg_timeNs' = StampOf(f))
      /\ TimeOfLastSample'
  <2>1. 0 \in Nat /\ FrameItems + 0 = FrameItems /\ reg_timeNs \in Int /\ rxTimestampNS' \in Int
    BY <1>1, <1>2, <1>4 DEF Types
  <2>2. f # None => rxTimestampNS' = StampOf(f) /\ (0 # 0 => reg_timeNs = StampOf(f))
    BY <1>1
  <2> QED BY <1>1, <1>2, <1>3, <2>1, <2>2, CopyInv
<1>6. Types'
  BY <1>1, <1>2, <1>3, <1>4, <1>5 DEF Types
<1>7. BufferBounds' /\ CopyInBuffer'
  BY <1>1, <1>2, <1>5 DEF BufferBounds, CopyInBuffer
<1>8. HeldStamp'
  BY <1>1, <1>5 DEF HeldStamp, StampOf
<1> QED BY <1>5, <1>6, <1>7, <1>8 DEF ReceiveInv

(* What was copied is taken off, and the offset moves by as much. *)
LEMMA AccountInv == ASSUME OneAtATime, ReceiveInv, Account PROVE ReceiveInv'
<1>1. /\ copied # None /\ copied' = None
      /\ items_in_buffer' = (items_in_buffer - copied) % SizeRange
      /\ offset' = offset + copied
      /\ UNCHANGED <<clock, nextId, epoch, socket, rx_buffer, rxTimestampNS, reg_timeNs, chunk>>
  BY DEF Account, boardVars, statVars
<1>2. /\ Types /\ epoch > 0 /\ copied \in Nat /\ copied <= items_in_buffer
      /\ items_in_buffer = 0 \/ items_in_buffer + offset = FrameItems
  BY <1>1 DEF ReceiveInv, CopyInBuffer, BufferBounds, Types
<1>3. /\ items_in_buffer - copied \in Nat /\ items_in_buffer - copied < SizeRange
      /\ SizeRange \in Nat \ {0}
  <2>1. SizeRange \in Nat \ {0} /\ FrameItems \in Nat /\ FrameItems < SizeRange
    BY StreamerAssumption DEF OneAtATime
  <2>2. items_in_buffer \in Nat /\ offset \in Nat
    BY <1>2 DEF Types
  <2> QED BY <1>2, <2>1, <2>2
<1>4. items_in_buffer' = items_in_buffer - copied
  BY <1>1, <1>3, Small
<1>5. Types'
  BY <1>1, <1>2, <1>3, <1>4 DEF Types
<1>6. items_in_buffer' = 0 \/ (items_in_buffer' + offset' = FrameItems /\ items_in_buffer # 0)
  <2>1. items_in_buffer \in Nat /\ offset \in Nat /\ copied \in Nat /\ copied <= items_in_buffer
    BY <1>2 DEF Types
  <2>2. offset' = offset + copied
    BY <1>1
  <2>3. CASE items_in_buffer = 0
    BY <1>4, <2>1, <2>3
  <2>4. CASE items_in_buffer # 0
    <3>1. items_in_buffer + offset = FrameItems
      BY <1>2, <2>4
    <3>2. (items_in_buffer - copied) + (offset + copied) = items_in_buffer + offset
      BY <2>1
    <3> QED BY <1>4, <2>2, <2>4, <3>1, <3>2
  <2> QED BY <2>3, <2>4
<1>7. BufferBounds' /\ CopyInBuffer' /\ HeldStamp'
  BY <1>1, <1>6 DEF ReceiveInv, BufferBounds, CopyInBuffer, HeldStamp, StampOf
<1>8. TimeOfLastSample'
  BY <1>1 DEF ReceiveInv, TimeOfLastSample
<1> QED BY <1>5, <1>7, <1>8 DEF ReceiveInv

(* The board and the controlling thread. *)
LEMMA OthersInv ==
  ASSUME OneAtATime, ReceiveInv,
         FillFrame \/ Idle \/ (\E then \in {"stop", "start"} : StopSend(then)) \/ StopDone
         \/ UNCHANGED vars
  PROVE  ReceiveInv'
<1>0. FrameItems \in Nat /\ IdRange \in Nat \ {0} /\ Types
  BY StreamerAssumption DEF ReceiveInv
<1>1. CASE FillFrame \/ Idle
  <2>1. /\ clock' = clock + FrameItems
        /\ nextId' = (nextId + 1) % IdRange \/ nextId' = nextId
        /\ \/ socket' = Append(socket, [id |-> nextId, last |-> clock', epoch |-> epoch])
           \/ socket' = socket
        /\ UNCHANGED <<epoch, rx_buffer, items_in_buffer, offset, rxTimestampNS, reg_timeNs,
                       copied, control, chunk>>
    BY <1>1 DEF FillFrame, Idle, Passes, bufferVars, statVars
  <2>2. clock' \in Nat /\ nextId' \in Nat
    BY <1>0, <2>1 DEF Types
  <2>3. [id |-> nextId, last |-> clock', epoch |-> epoch] \in Sent
    BY <1>0, <2>2 DEF Types, Sent
  <2>4. Types'
    BY <1>0, <2>1, <2>2, <2>3 DEF Types
  <2> QED BY <2>1, <2>4
       DEF ReceiveInv, BufferBounds, CopyInBuffer, HeldStamp, StampOf, TimeOfLastSample
<1>2. CASE \E then \in {"stop", "start"} : StopSend(then)
  <2>1. /\ copied = None /\ rx_buffer' = None
        /\ UNCHANGED <<clock, nextId, epoch, socket, items_in_buffer, offset, rxTimestampNS,
                       reg_timeNs, copied, chunk>>
    BY <1>2 DEF StopSend, MayControl, OneAtATime, statVars
  <2> QED BY <2>1 DEF ReceiveInv, Types, BufferBounds, CopyInBuffer, HeldStamp, TimeOfLastSample
<1>3. CASE StopDone
  <2>1. /\ control # "idle" /\ items_in_buffer' = 0 /\ offset' = 0 /\ chunk' = None
        /\ epoch' = epoch \/ epoch' = epoch + 1
        /\ UNCHANGED <<clock, nextId, socket, rx_buffer, rxTimestampNS, reg_timeNs, copied>>
    BY <1>3 DEF StopDone, statVars
  <2>2. epoch' \in Nat
    BY <1>0, <2>1 DEF Types
  <2> QED BY <2>1, <2>2
       DEF ReceiveInv, Types, BufferBounds, CopyInBuffer, HeldStamp, TimeOfLastSample
<1>4. CASE UNCHANGED vars
  BY <1>4 DEF vars, boardVars, bufferVars, statVars, ReceiveInv, Types, BufferBounds,
       CopyInBuffer, HeldStamp, StampOf, TimeOfLastSample
<1> QED BY <1>1, <1>2, <1>3, <1>4

(* Every step keeps the invariant. *)
LEMMA ReceiveStep == ASSUME OneAtATime, ReceiveInv, [Next]_vars PROVE ReceiveInv'
<1>1. CASE \E n \in Requests : ReadHeld(n) \/ ReadFrame(n)
  BY <1>1, ReadHeldInv, ReadFrameInv, StreamerAssumption
<1>2. CASE Account
  BY <1>2, AccountInv
<1>3. CASE FillFrame \/ Idle \/ (\E then \in {"stop", "start"} : StopSend(then)) \/ StopDone
           \/ UNCHANGED vars
  BY <1>3, OthersInv
<1> QED BY <1>1, <1>2, <1>3 DEF Next

(***************************************************************************)
(* receive never copies from beyond the samples of its frame: not behind   *)
(* them, where the metadata are, and not before the start of the stream    *)
(* has set what the constructor leaves open.                               *)
(***************************************************************************)
THEOREM ChunksInFrame == ASSUME OneAtATime PROVE Spec => []BufferBounds
<1>1. Init => ReceiveInv
  BY ReceiveInit
<1>2. ReceiveInv /\ [Next]_vars => ReceiveInv'
  BY ReceiveStep
<1>3. ReceiveInv => BufferBounds
  BY DEF ReceiveInv
<1> QED BY <1>1, <1>2, <1>3, PTL DEF Spec

(***************************************************************************)
(* The time readStream gives with a chunk is that of its last sample, with *)
(* an error less than the stamp's tick below and a nanosecond above,       *)
(* however the frame was cut.                                              *)
(***************************************************************************)
THEOREM ChunksAreStamped == ASSUME OneAtATime PROVE Spec => []TimeOfLastSample
<1>1. Init => ReceiveInv
  BY ReceiveInit
<1>2. ReceiveInv /\ [Next]_vars => ReceiveInv'
  BY ReceiveStep
<1>3. ReceiveInv => TimeOfLastSample
  BY DEF ReceiveInv
<1> QED BY <1>1, <1>2, <1>3, PTL DEF Spec

-----------------------------------------------------------------------------
(***************************************************************************)
(* Samples that are missing                                                *)
(***************************************************************************)

(* The ids last for the samples of the behaviour, and a count holds them. *)
NoWrap ==
  /\ OneAtATime /\ IdRange <= SizeRange /\ None \notin Nat
  /\ \A first \in FirstIds : FrameItems * first + MaxClock < FrameItems * IdRange

-----------------------------------------------------------------------------
(* The invariant *)

IdsLeft == clock <= MaxClock /\ FrameItems * nextId + (MaxClock - clock) < FrameItems * IdRange

InOrder ==
  \A i \in 1..Len(socket) :
    socket[i].id < nextId /\ \A j \in 1..Len(socket) : i < j => socket[i].id < socket[j].id

(* The frames on the host. *)
Frames == {socket[i] : i \in 1..Len(socket)} \cup ({rx_buffer} \ {None})

(* Within a start of the stream the ids tell the time. *)
Paced ==
  /\ \A f, g \in Frames : f.epoch = g.epoch => g.last - f.last = FrameItems * (g.id - f.id)
  /\ \A f \in Frames :
       /\ f.epoch <= epoch
       /\ (on /\ f.epoch = epoch) => clock = f.last + FrameItems * (nextId - f.id - 1)

(* The frame taken last had this id, counted from base: rxidOffset, or that
   less the range of the count when the first id was 0. *)
Taken(id) ==
  /\ id < nextId /\ \A i \in 1..Len(socket) : id < socket[i].id
  /\ rx_buffer # None => rx_buffer.id = id
  /\ rxidOffset \in Int /\ rxdrops \in Nat
  /\ \E base \in {rxidOffset, rxidOffset - SizeRange} :
       /\ base < id /\ IdRange - 2 - base < SizeRange
       /\ rxidcounter = id - base /\ rxdrops < rxidcounter

Counted ==
  \/ rxidcounter = 0 /\ rxdrops = 0 /\ rx_buffer = None
  \/ \E id \in Nat : Taken(id)

(* The last chunk ends where the rest of the buffer begins. *)
ChunkEnds ==
  chunk # None /\ control = "idle" =>
    /\ rx_buffer # None /\ chunk.epoch = rx_buffer.epoch
    /\ items_in_buffer + offset = FrameItems
    /\ chunk.last = rx_buffer.last - FrameItems + offset + (IF copied = None THEN 0 ELSE copied)

GapInv == IdsLeft /\ InOrder /\ Paced /\ Counted /\ ChunkEnds

-----------------------------------------------------------------------------
(* Arithmetic *)

(* A number, and one that is too small by the modulus. *)
LEMMA Rest ==
  ASSUME NEW n \in Nat \ {0}, NEW a \in Nat, a < n PROVE a % n = a /\ (a - n) % n = a
OBVIOUS

(* A factor is left out of a comparison. *)
LEMMA Cancel == ASSUME NEW k \in Nat \ {0}, NEW a \in Int, NEW b \in Int, k * a < k * b PROVE a < b
OBVIOUS

(* A frame's samples pass: p of range are gone, and one frame's more. *)
LEMMA Passed ==
  ASSUME NEW k \in Int, NEW p \in Int, NEW range \in Int, NEW now \in Int, NEW end \in Int,
         now + k <= end, p + (end - now) < range
  PROVE  p + k < range /\ (p + k) + (end - (now + k)) < range
OBVIOUS

(* A distance backwards. *)
LEMMA Backwards ==
  ASSUME NEW k \in Int, NEW a \in Int, NEW b \in Int
  PROVE  k * (a - b) = -(k * (b - a)) /\ k * (b - a) \in Int
<1>1. a - b = -(b - a) /\ b - a \in Int
  OBVIOUS
<1> QED BY <1>1

(* A frame's end is one frame after a clock that was ahead by the frames between. *)
LEMMA Ahead ==
  ASSUME NEW k \in Int, NEW p \in Int, NEW last \in Int, NEW now \in Int, now = last + (p - k)
  PROVE  (now + k) - last = p /\ last - (now + k) = -p
OBVIOUS

(* Taking off what was copied moves the offset. *)
LEMMA Moved ==
  ASSUME NEW k \in Int, NEW held \in Int, NEW at \in Int, NEW c \in Int, NEW last \in Int,
         held + at = k
  PROVE  (held - c) + (at + c) = k /\ last - k + at + c = last - k + (at + c)
OBVIOUS

(* The samples between a frame of k samples and one that ended p earlier. *)
LEMMA Between ==
  ASSUME NEW k \in Int, NEW p \in Int, NEW last \in Int, NEW earlier \in Int, last - earlier = p
  PROVE  last - k + 0 + 1 = earlier + 1 + (p - k)
OBVIOUS

(* What CountDrops adds for a frame with id f after one with this id. *)
LEMMA NextDrops ==
  ASSUME NEW n \in Nat \ {0}, NEW off \in Int, NEW base \in {off, off - n},
         NEW id \in Nat, NEW f \in Nat, id < f, base < id, f - base < n,
         NEW drops \in Nat, drops < id - base
  PROVE  /\ (f - off) % n = f - base
         /\ ((f - base) - (id - base)) % n = f - id
         /\ drops + (f - id) - 1 \in Nat /\ drops + (f - id) - 1 < f - base
         /\ (drops + (f - id) - 1) % n = drops + (f - id) - 1
<1>1. f - base \in Nat /\ f - base < n
  OBVIOUS
<1>2. f - off = f - base \/ f - off = (f - base) - n
  OBVIOUS
<1>3. (f - off) % n = f - base
  BY <1>1, <1>2, Rest
<1>4. f - id \in Nat /\ f - id < n /\ (f - base) - (id - base) = f - id
  OBVIOUS
<1>5. ((f - base) - (id - base)) % n = f - id
  BY <1>4, Rest
<1>6. drops + (f - id) - 1 \in Nat /\ drops + (f - id) - 1 < f - base
  OBVIOUS
<1>7. drops + (f - id) - 1 < n
  BY <1>1, <1>6
<1> QED BY <1>3, <1>5, <1>6, <1>7, Rest

(* ... and for the first. *)
LEMMA FirstDrops ==
  ASSUME NEW n \in Nat \ {0}, NEW range \in Nat, range <= n, NEW f \in Nat, f <= range - 2
  PROVE  LET off == (f - 1) % range
         IN  /\ off \in Int
             /\ \E base \in {off, off - n} :
                  /\ base < f /\ range - 2 - base < n
                  /\ (f - off) % n = f - base /\ (f - base) % n = f - base
                  /\ (f - base - 1) % n = f - base - 1
<1>1. range \in Nat \ {0}
  OBVIOUS
<1>2. CASE f = 0
  <2>1. (f - 1) % range = range - 1
    <3>1. range - 1 \in Nat /\ range - 1 < range /\ (range - 1) - range = f - 1
      BY <1>2
    <3> QED BY <1>1, <3>1, Rest
  <2>2. n - range + 1 \in Nat /\ n - range + 1 < n /\ f - (range - 1) = (n - range + 1) - n
    BY <1>2
  <2>3. (f - (range - 1)) % n = n - range + 1 /\ (n - range + 1) % n = n - range + 1
    BY <2>2, Rest
  <2>4. n - range \in Nat /\ n - range < n
    BY <1>1
  <2>5. (n - range) % n = n - range
    BY <2>4, Rest
  <2>6. f - (range - 1 - n) = n - range + 1 /\ f - (range - 1 - n) - 1 = n - range
    BY <1>2
  <2> QED BY <1>2, <2>1, <2>3, <2>5, <2>6
<1>3. CASE f # 0
  <2>1. f - 1 \in Nat /\ f - 1 < range
    BY <1>3
  <2>2. (f - 1) % range = f - 1
    BY <1>1, <2>1, Rest
  <2>3. 1 < n /\ f - (f - 1) = 1 /\ f - (f - 1) - 1 = 0
    BY <1>3
  <2>4. 1 % n = 1 /\ 0 % n = 0
    BY <2>3, Rest
  <2> QED BY <1>3, <2>2, <2>3, <2>4
<1> QED BY <1>2, <1>3

-----------------------------------------------------------------------------
(* Steps *)

(* The constants are what they stand for. *)
LEMMA Sizes ==
  ASSUME NoWrap
  PROVE  /\ FrameItems \in Nat \ {0} /\ IdRange \in Nat \ {0} /\ SizeRange \in Nat \ {0}
         /\ MaxClock \in Nat /\ IdRange <= SizeRange /\ FrameItems < SizeRange
         /\ OneAtATime
BY StreamerAssumption DEF NoWrap, OneAtATime

(* Nothing was sent. *)
LEMMA GapInit == ASSUME NoWrap, Init PROVE GapInv
<1>1. clock = 0 /\ nextId \in FirstIds /\ socket = <<>> /\ rx_buffer = None /\ chunk = None
  BY DEF Init
<1>2. nextId \in Nat /\ FrameItems * nextId \in Nat
  BY <1>1, StreamerAssumption
<1>3. IdsLeft
  BY <1>1, <1>2, Sizes DEF IdsLeft, NoWrap
<1>4. InOrder
  BY <1>1 DEF InOrder
<1>5. Frames = {}
  BY <1>1 DEF Frames
<1>6. Paced /\ Counted /\ ChunkEnds
  BY <1>5 DEF Init, Paced, Counted, ChunkEnds
<1> QED BY <1>3, <1>4, <1>6 DEF GapInv

(* Frames on the host stay paced when some are given up. *)
LEMMA FewerFrames ==
  ASSUME Paced, Frames' \subseteq Frames, UNCHANGED <<clock, nextId, epoch>>, on' => on
  PROVE  Paced'
BY DEF Paced

(* A frame takes the next id, which is in range. *)
LEMMA NextIdTaken ==
  ASSUME NoWrap, ReceiveInv, GapInv, FillFrame
  PROVE  nextId' = nextId + 1 /\ nextId + 1 < IdRange
<1>1. clock + FrameItems <= MaxClock /\ nextId' = (nextId + 1) % IdRange
  BY DEF FillFrame, Passes
<1>2. clock \in Nat /\ nextId \in Nat
  BY DEF ReceiveInv, Types
<1>3. FrameItems * (nextId + 1) = FrameItems * nextId + FrameItems
  BY <1>2, Sizes
<1>4. FrameItems * nextId \in Int /\ FrameItems * IdRange \in Int
  BY <1>2, Sizes
<1>5. FrameItems * (nextId + 1) < FrameItems * IdRange
  <2>1. FrameItems * nextId + (MaxClock - clock) < FrameItems * IdRange
    BY DEF GapInv, IdsLeft
  <2>2. FrameItems \in Int /\ MaxClock \in Int /\ clock \in Int
    BY <1>2, Sizes
  <2> QED BY <1>1, <1>3, <1>4, <2>1, <2>2, Passed
<1>6. nextId + 1 < IdRange
  BY <1>2, <1>5, Sizes, Cancel
<1> QED BY <1>1, <1>2, <1>6, Sizes, Small

(* The board fills a frame, which takes the next id and the time that passes. *)
LEMMA FillGap == ASSUME NoWrap, ReceiveInv, GapInv, FillFrame PROVE GapInv'
<1> DEFINE new == [id |-> nextId, last |-> clock', epoch |-> epoch]
<1>1. /\ on /\ clock + FrameItems <= MaxClock /\ clock' = clock + FrameItems
      /\ nextId' = (nextId + 1) % IdRange
      /\ socket' = Append(socket, new) \/ socket' = socket
      /\ UNCHANGED <<on, epoch, rx_buffer, items_in_buffer, offset, rxidcounter, rxidOffset,
                     rxdrops, copied, control, chunk>>
  BY DEF FillFrame, Passes, bufferVars, statVars
<1>2. /\ clock \in Nat /\ nextId \in Nat /\ epoch \in Nat /\ socket \in Seq(Sent)
      /\ rx_buffer # None => rx_buffer \in Sent
  BY DEF ReceiveInv, Types
<1>3. nextId' = nextId + 1 /\ nextId + 1 < IdRange
  BY NextIdTaken
<1>4. IdsLeft'
  <2>1. FrameItems * (nextId + 1) = FrameItems * nextId + FrameItems
    BY <1>2, Sizes
  <2>2. FrameItems * nextId \in Int /\ FrameItems * IdRange \in Int
    BY <1>2, Sizes
  <2>3. FrameItems * nextId + (MaxClock - clock) < FrameItems * IdRange
    BY DEF GapInv, IdsLeft
  <2>4. FrameItems \in Int /\ MaxClock \in Int /\ clock \in Int
    BY <1>2, Sizes
  <2>5. (FrameItems * nextId + FrameItems) + (MaxClock - (clock + FrameItems)) < FrameItems * IdRange
    BY <1>1, <2>2, <2>3, <2>4, Passed
  <2> QED BY <1>1, <1>3, <2>1, <2>5 DEF IdsLeft
<1>5. /\ new \in Sent /\ new.id = nextId /\ new.last = clock + FrameItems /\ new.epoch = epoch
  BY <1>1, <1>2, Sizes DEF Sent
<1> HIDE DEF new
<1>6. /\ Len(socket) \in Nat /\ \A i \in 1..Len(socket) : socket[i] \in Sent
      /\ \/ socket' = socket
         \/ /\ Len(socket') = Len(socket) + 1 /\ socket'[Len(socket) + 1] = new
            /\ \A i \in 1..Len(socket) : socket'[i] = socket[i]
  BY <1>1, <1>2, <1>5, SMTT(30)
<1>7. \A i \in 1..Len(socket') :
        \/ i \in 1..Len(socket) /\ socket'[i] = socket[i]
        \/ i = Len(socket) + 1 /\ socket'[i] = new
  BY <1>6
<1>8. \A i \in 1..Len(socket) : socket[i].id \in Nat /\ socket[i].id < nextId
  BY <1>6 DEF GapInv, InOrder, Sent
<1>9. InOrder'
  <2>1. \A i \in 1..Len(socket') : socket'[i].id < nextId'
    BY <1>2, <1>3, <1>5, <1>7, <1>8
  <2>2. ASSUME NEW i \in 1..Len(socket'), NEW j \in 1..Len(socket'), i < j
        PROVE  socket'[i].id < socket'[j].id
    <3>1. i \in 1..Len(socket) /\ socket'[i] = socket[i]
      BY <1>6, <1>7, <2>2
    <3>2. CASE j \in 1..Len(socket) /\ socket'[j] = socket[j]
      BY <2>2, <3>1, <3>2 DEF GapInv, InOrder
    <3>3. CASE socket'[j] = new
      BY <1>5, <1>8, <3>1, <3>3
    <3> QED BY <1>7, <3>2, <3>3
  <2> QED BY <2>1, <2>2 DEF InOrder
<1>10. Frames' \subseteq Frames \cup {new}
  BY <1>1, <1>7 DEF Frames
<1>11. \A f \in Frames : f \in Sent
  BY <1>2, <1>6 DEF Frames
<1>12. Paced'
  <2>1. ASSUME NEW f \in Frames
        PROVE  /\ f.id \in Nat /\ f.last \in Nat /\ f.epoch \in Nat /\ f.epoch <= epoch
               /\ f.epoch = epoch => clock = f.last + FrameItems * (nextId - f.id - 1)
    BY <1>1, <1>11 DEF GapInv, Paced, Sent
  <2>2. ASSUME NEW f \in Frames, f.epoch = epoch
        PROVE  /\ new.last - f.last = FrameItems * (new.id - f.id)
               /\ f.last - new.last = FrameItems * (f.id - new.id)
    <3>1. f.id \in Nat /\ f.last \in Nat /\ clock = f.last + FrameItems * (nextId - f.id - 1)
      BY <2>1, <2>2
    <3>2. FrameItems * (nextId - f.id - 1) = FrameItems * (nextId - f.id) - FrameItems
      BY <1>2, <3>1, Sizes
    <3>3. FrameItems * (f.id - nextId) = -(FrameItems * (nextId - f.id)) /\ FrameItems * (nextId - f.id) \in Int
      <4>1. f.id \in Int /\ nextId \in Int /\ FrameItems \in Int
        BY <1>2, <3>1, Sizes
      <4> QED BY <4>1, Backwards
    <3>4. FrameItems \in Int /\ f.last \in Int /\ clock \in Int
      BY <1>2, <3>1, Sizes
    <3>5. /\ (clock + FrameItems) - f.last = FrameItems * (nextId - f.id)
          /\ f.last - (clock + FrameItems) = -(FrameItems * (nextId - f.id))
      BY <3>1, <3>2, <3>3, <3>4, Ahead
    <3> QED BY <1>5, <3>3, <3>5
  <2>3. new.last - new.last = FrameItems * (new.id - new.id)
    BY <1>2, <1>5, Sizes
  <2>4. ASSUME NEW f \in Frames, f.epoch = epoch
        PROVE  clock' = f.last + FrameItems * (nextId' - f.id - 1)
    <3>1. f.id \in Nat /\ f.last \in Nat
      BY <2>1
    <3>2. nextId' - f.id - 1 = new.id - f.id
      BY <1>2, <1>3, <1>5, <3>1, SMTT(30)
    <3>3. clock' = new.last /\ new.last \in Int
      BY <1>1, <1>2, <1>5, Sizes
    <3>4. FrameItems * (new.id - f.id) \in Int
      BY <1>2, <1>5, <3>1, Sizes
    <3> QED BY <2>2, <2>4, <3>1, <3>2, <3>3, <3>4
  <2>5. clock' = new.last + FrameItems * (nextId' - new.id - 1)
    BY <1>1, <1>2, <1>3, <1>5, Sizes
  <2>6. \A f, g \in Frames' : f.epoch = g.epoch => g.last - f.last = FrameItems * (g.id - f.id)
    BY <1>5, <1>10, <2>2, <2>3 DEF GapInv, Paced
  <2>7. \A f \in Frames' : f.epoch <= epoch /\ (f.epoch = epoch => clock' = f.last + FrameItems * (nextId' - f.id - 1))
    BY <1>2, <1>5, <1>10, <2>1, <2>4, <2>5
  <2> QED BY <1>1, <2>6, <2>7 DEF Paced
<1>13. Counted'
  <2>1. CASE rxidcounter = 0 /\ rxdrops = 0 /\ rx_buffer = None
    BY <1>1, <2>1 DEF Counted
  <2>2. ASSUME NEW id \in Nat, Taken(id) PROVE Taken(id)'
    <3>1. id < nextId /\ \A i \in 1..Len(socket) : id < socket[i].id
      BY <2>2 DEF Taken
    <3>2. id < nextId' /\ \A i \in 1..Len(socket') : id < socket'[i].id
      BY <1>2, <1>3, <1>5, <1>7, <3>1
    <3> QED BY <1>1, <2>2, <3>2 DEF Taken
  <2> QED BY <2>1, <2>2 DEF GapInv, Counted
<1>14. ChunkEnds'
  BY <1>1 DEF GapInv, ChunkEnds
<1> QED BY <1>4, <1>9, <1>12, <1>13, <1>14 DEF GapInv

(* Steps that take no frame: an idle board, an account, a stop or a start. *)
LEMMA RestGap ==
  ASSUME NoWrap, ReceiveInv, GapInv,
         Idle \/ Account \/ (\E then \in {"stop", "start"} : StopSend(then)) \/ StopDone
         \/ UNCHANGED vars
  PROVE  GapInv'
<1>1. /\ clock \in Nat /\ nextId \in Nat /\ epoch \in Nat /\ items_in_buffer \in Nat
      /\ offset \in Nat
  BY DEF ReceiveInv, Types
<1>2. CASE Idle
  <2>1. /\ ~on /\ clock + FrameItems <= MaxClock /\ clock' = clock + FrameItems
        /\ UNCHANGED <<nextId, on, epoch, socket, rx_buffer, items_in_buffer, offset, rxidcounter,
                       rxidOffset, rxdrops, copied, control, chunk>>
    BY <1>2 DEF Idle, Passes, bufferVars, statVars
  <2>2. IdsLeft'
    <3>1. FrameItems * nextId \in Int /\ FrameItems * IdRange \in Int
      BY <1>1, Sizes
    <3> QED BY <1>1, <2>1, <3>1, Sizes DEF GapInv, IdsLeft
  <2>3. Frames' = Frames
    BY <2>1 DEF Frames
  <2>4. InOrder' /\ Paced' /\ Counted' /\ ChunkEnds'
    BY <2>1, <2>3 DEF GapInv, InOrder, Paced, Counted, Taken, ChunkEnds
  <2> QED BY <2>2, <2>4 DEF GapInv
<1>3. CASE Account
  <2>1. /\ copied # None /\ copied' = None
        /\ items_in_buffer' = (items_in_buffer - copied) % SizeRange
        /\ offset' = offset + copied
        /\ UNCHANGED <<clock, nextId, on, epoch, socket, rx_buffer, rxidcounter,
                       rxidOffset, rxdrops, control, chunk>>
    BY <1>3 DEF Account, boardVars, statVars
  <2>2. copied \in Nat /\ copied <= items_in_buffer
    BY <2>1 DEF ReceiveInv, CopyInBuffer
  <2>3. Frames' = Frames
    BY <2>1 DEF Frames
  <2>4. IdsLeft' /\ InOrder' /\ Paced' /\ Counted'
    BY <2>1, <2>3 DEF GapInv, IdsLeft, InOrder, Paced, Counted, Taken
  <2>5. ASSUME chunk # None, control = "idle"
        PROVE  /\ items_in_buffer' + offset' = FrameItems
               /\ chunk.last = rx_buffer.last - FrameItems + offset'
    <3>1. /\ items_in_buffer + offset = FrameItems /\ rx_buffer # None
          /\ chunk.last = rx_buffer.last - FrameItems + offset + copied
      BY <2>1, <2>5 DEF GapInv, ChunkEnds
    <3>2. rx_buffer.last \in Nat
      BY <3>1 DEF ReceiveInv, Types, Sent
    <3>3. items_in_buffer - copied \in Nat /\ items_in_buffer - copied < SizeRange
      BY <1>1, <2>2, <3>1, Sizes
    <3>4. items_in_buffer' = items_in_buffer - copied
      BY <2>1, <3>3, Sizes, Small
    <3>5. /\ FrameItems \in Int /\ items_in_buffer \in Int /\ offset \in Int
          /\ copied \in Int /\ rx_buffer.last \in Int
      BY <1>1, <2>2, <3>2, Sizes
    <3>6. /\ (items_in_buffer - copied) + (offset + copied) = FrameItems
          /\ rx_buffer.last - FrameItems + offset + copied = rx_buffer.last - FrameItems + (offset + copied)
      BY <3>1, <3>5, Moved
    <3> QED BY <2>1, <3>1, <3>4, <3>6
  <2>6. ChunkEnds'
    <3>1. chunk # None /\ control = "idle" => rx_buffer # None /\ chunk.epoch = rx_buffer.epoch
      BY DEF GapInv, ChunkEnds
    <3>2. chunk # None /\ control = "idle" => rx_buffer.last - FrameItems + offset' + 0 = rx_buffer.last - FrameItems + offset'
      <4>1. chunk # None /\ control = "idle" => rx_buffer.last \in Nat
        BY <3>1 DEF ReceiveInv, Types, Sent
      <4> QED BY <1>1, <2>1, <2>2, <4>1, Sizes
    <3> QED BY <2>1, <2>5, <3>1, <3>2 DEF ChunkEnds
  <2> QED BY <2>4, <2>6 DEF GapInv
<1>4. CASE \E then \in {"stop", "start"} : StopSend(then)
  <2>1. /\ rx_buffer' = None /\ on' = FALSE /\ control' # "idle"
        /\ UNCHANGED <<clock, nextId, epoch, socket, rxidcounter, rxidOffset, rxdrops, chunk>>
    BY <1>4 DEF StopSend, statVars
  <2>2. Frames' \subseteq Frames
    BY <2>1 DEF Frames
  <2>3. Paced'
    BY <2>1, <2>2, FewerFrames DEF GapInv
  <2>4. IdsLeft' /\ InOrder' /\ Counted' /\ ChunkEnds'
    BY <2>1 DEF GapInv, IdsLeft, InOrder, Counted, Taken, ChunkEnds
  <2> QED BY <2>3, <2>4 DEF GapInv
<1>5. CASE StopDone
  <2>1. /\ chunk' = None
        /\ (epoch' = epoch /\ on' = on) \/ epoch' = epoch + 1
        /\ UNCHANGED <<clock, nextId, socket, rx_buffer, rxidcounter, rxidOffset, rxdrops>>
    BY <1>5 DEF StopDone, statVars
  <2>2. Frames' = Frames
    BY <2>1 DEF Frames
  <2>3. IdsLeft' /\ InOrder' /\ Counted' /\ ChunkEnds'
    BY <2>1 DEF GapInv, IdsLeft, InOrder, Counted, Taken, ChunkEnds
  <2>4. \A f \in Frames : f.epoch \in Nat
    <3>1. \A i \in 1..Len(socket) : socket[i] \in Sent
      BY DEF ReceiveInv, Types
    <3> QED BY <3>1 DEF Frames, Sent, ReceiveInv, Types
  <2>5. Paced'
    <3>1. CASE epoch' = epoch /\ on' = on
      BY <2>1, <2>2, <3>1 DEF GapInv, Paced
    <3>2. CASE epoch' = epoch + 1
      <4>1. \A f \in Frames : f.epoch <= epoch' /\ f.epoch # epoch'
        BY <1>1, <2>4, <3>2 DEF GapInv, Paced
      <4> QED BY <2>1, <2>2, <4>1 DEF GapInv, Paced
    <3> QED BY <2>1, <3>1, <3>2
  <2> QED BY <2>3, <2>5 DEF GapInv
<1>6. CASE UNCHANGED vars
  <2>1. UNCHANGED <<clock, nextId, on, epoch, socket, rx_buffer, items_in_buffer, offset, rxidcounter,
                    rxidOffset, rxdrops, copied, control, chunk>>
    BY <1>6 DEF vars, boardVars, bufferVars, statVars
  <2>2. Frames' = Frames
    BY <2>1 DEF Frames
  <2> QED BY <2>1, <2>2 DEF GapInv, IdsLeft, InOrder, Paced, Counted, Taken, ChunkEnds
<1> QED BY <1>2, <1>3, <1>4, <1>5, <1>6

(* A copy, from the frame f, of the held samples from at on. *)
Ends(f, at) ==
  /\ copied' \in Nat /\ copied' # None
  /\ chunk' # None => /\ f # None /\ chunk'.epoch = f.epoch
                      /\ chunk'.first = f.last - FrameItems + at + 1
                      /\ chunk'.last = f.last - FrameItems + at + copied'

(* It ends so many samples on. *)
LEMMA CopyEnds ==
  ASSUME NoWrap, NEW n, n \in Nat, NEW f, NEW held \in Nat, NEW at \in Nat, Copy(n, f, held, at)
  PROVE  Ends(f, at)
<1>1. n \in Nat
  BY StreamerAssumption
<1>2. copied' = Least(held, n) /\ Least(held, n) \in Nat
  BY <1>1 DEF Copy, Least
<1>3. copied' # None
  BY <1>2 DEF NoWrap
<1>4. f = None => chunk' = None
  BY DEF Copy
<1>5. f # None => chunk' = [first |-> f.last - FrameItems + at + 1,
                            last  |-> f.last - FrameItems + at + Least(held, n),
                            time  |-> ChunkTime(reg_timeNs', held - Least(held, n)),
                            epoch |-> f.epoch]
  BY DEF Copy
<1>6. f # None => /\ chunk'.first = f.last - FrameItems + at + 1
                  /\ chunk'.last = f.last - FrameItems + at + Least(held, n)
                  /\ chunk'.epoch = f.epoch
  BY <1>5
<1> QED BY <1>2, <1>3, <1>4, <1>6 DEF Ends

(* A call that finds samples in the buffer goes on where the last one ended. *)
LEMMA ReadHeldGap ==
  ASSUME NoWrap, ReceiveInv, GapInv, NEW n \in Nat, ReadHeld(n)
  PROVE  /\ GapInv' /\ rxdrops' = rxdrops
         /\ chunk # None /\ chunk' # None => chunk'.first = chunk.last + 1
<1>1. /\ epoch > 0 /\ control = "idle" /\ items_in_buffer # 0 /\ copied = None
      /\ Copy(n, rx_buffer, items_in_buffer, offset)
      /\ UNCHANGED <<clock, nextId, on, epoch, socket, rx_buffer, items_in_buffer, offset,
                     rxidcounter, rxidOffset, rxdrops, control>>
  BY DEF ReadHeld, MayRead, NoWrap, OneAtATime, boardVars, bufferVars
<1>2. items_in_buffer \in Nat /\ offset \in Nat /\ (rx_buffer # None => rx_buffer.last \in Nat)
  BY DEF ReceiveInv, Types, Sent
<1>3. /\ copied' \in Nat /\ copied' # None
      /\ chunk' # None => /\ rx_buffer # None /\ chunk'.epoch = rx_buffer.epoch
                          /\ chunk'.first = rx_buffer.last - FrameItems + offset + 1
                          /\ chunk'.last = rx_buffer.last - FrameItems + offset + copied'
  <2>1. Copy(n, rx_buffer, items_in_buffer, offset)
    BY <1>1
  <2>2. items_in_buffer \in Nat /\ offset \in Nat
    BY <1>2
  <2>3. Ends(rx_buffer, offset)
    BY <2>1, <2>2, CopyEnds
  <2> QED BY <2>3 DEF Ends
<1>4. ChunkEnds'
  <2>1. items_in_buffer + offset = FrameItems
    BY <1>1, <1>2 DEF ReceiveInv, BufferBounds
  <2> QED BY <1>1, <1>3, <2>1 DEF ChunkEnds
<1>5. IdsLeft' /\ InOrder' /\ Paced' /\ Counted'
  <2>1. Frames' = Frames
    BY <1>1 DEF Frames
  <2> QED BY <1>1, <2>1 DEF GapInv, IdsLeft, InOrder, Paced, Counted, Taken
<1>6. ASSUME chunk # None, chunk' # None PROVE chunk'.first = chunk.last + 1
  <2>1. chunk.last = rx_buffer.last - FrameItems + offset + 0 /\ rx_buffer # None
    BY <1>1, <1>6 DEF GapInv, ChunkEnds
  <2>2. rx_buffer.last \in Int /\ FrameItems \in Int /\ offset \in Int
    BY <1>2, <2>1, Sizes
  <2>3. chunk.last = rx_buffer.last - FrameItems + offset
    BY <2>1, <2>2
  <2> QED BY <1>3, <1>6, <2>3
<1> QED BY <1>1, <1>4, <1>5, <1>6 DEF GapInv

(* What is counted with the frame f. *)
LEMMA FrameCounted ==
  ASSUME NoWrap, Counted, NEW f, f.id \in Nat, f.id <= IdRange - 2, CountDrops(f),
         \A id \in Nat : Taken(id) => id < f.id
  PROVE  /\ rxidOffset' \in Int /\ rxdrops' \in Nat
         /\ \E base \in {rxidOffset', rxidOffset' - SizeRange} :
              /\ base < f.id /\ IdRange - 2 - base < SizeRange
              /\ rxidcounter' = f.id - base /\ rxdrops' < rxidcounter'
         /\ \A id \in Nat : Taken(id) => rxdrops' - rxdrops = f.id - id - 1
<1> DEFINE id1 == f.id
<1>0. id1 \in Nat /\ id1 <= IdRange - 2
  OBVIOUS
<1>1. CASE rxidcounter = 0
  <2>0. \A id \in Nat : ~Taken(id)
    BY <1>1, Sizes DEF Taken
  <2>1. rxdrops = 0
    BY <2>0 DEF Counted
  <2> DEFINE off == (id1 - 1) % IdRange
  <2>2. /\ rxidOffset' = off /\ rxidcounter' = (id1 - off) % SizeRange
        /\ rxdrops' = LET step == (((id1 - off) % SizeRange) - 0) % SizeRange
                      IN  IF step > 1 THEN (0 + step - 1) % SizeRange ELSE 0
    BY <1>1, <2>1 DEF CountDrops
  <2>3. /\ off \in Int
        /\ \E base \in {off, off - SizeRange} :
             /\ base < id1 /\ IdRange - 2 - base < SizeRange
             /\ (id1 - off) % SizeRange = id1 - base /\ (id1 - base) % SizeRange = id1 - base
             /\ (id1 - base - 1) % SizeRange = id1 - base - 1
    <3>1. SizeRange \in Nat \ {0} /\ IdRange \in Nat /\ IdRange <= SizeRange
      BY Sizes
    <3> HIDE DEF id1
    <3> QED BY <1>0, <3>1, FirstDrops, ZenonT(40)
  <2> HIDE DEF off, id1
  <2>4. PICK base \in {off, off - SizeRange} :
             /\ base < id1 /\ IdRange - 2 - base < SizeRange
             /\ (id1 - off) % SizeRange = id1 - base /\ (id1 - base) % SizeRange = id1 - base
             /\ (id1 - base - 1) % SizeRange = id1 - base - 1
    BY <2>3
  <2>5. base \in Int /\ id1 - base \in Nat /\ id1 - base - 1 \in Nat /\ (id1 - base) - 0 = id1 - base
    BY <1>0, <2>3, <2>4, Sizes
  <2>6. rxidcounter' = id1 - base
    BY <2>2, <2>4
  <2>7. rxdrops' = IF id1 - base > 1 THEN (0 + (id1 - base) - 1) % SizeRange ELSE 0
    BY <2>2, <2>4, <2>5
  <2>8. 0 + (id1 - base) - 1 = id1 - base - 1 /\ (~(id1 - base > 1) => id1 - base - 1 = 0)
    BY <2>4, <2>5
  <2>9. rxdrops' = id1 - base - 1
    BY <2>4, <2>7, <2>8
  <2>10. rxdrops' < rxidcounter'
    BY <2>5, <2>6, <2>9
  <2> QED BY <2>0, <2>2, <2>3, <2>4, <2>5, <2>6, <2>9, <2>10 DEF id1
<1>2. ASSUME rxidcounter # 0, NEW id \in Nat, Taken(id)
      PROVE  /\ rxidOffset' \in Int /\ rxdrops' \in Nat
             /\ \E base \in {rxidOffset', rxidOffset' - SizeRange} :
                  /\ base < f.id /\ IdRange - 2 - base < SizeRange
                  /\ rxidcounter' = f.id - base /\ rxdrops' < rxidcounter'
             /\ rxdrops' - rxdrops = f.id - id - 1
  <2>2. id < id1 /\ rxidOffset \in Int /\ rxdrops \in Nat
    BY <1>2 DEF Taken
  <2>3. PICK base \in {rxidOffset, rxidOffset - SizeRange} :
          /\ base < id /\ IdRange - 2 - base < SizeRange
          /\ rxidcounter = id - base /\ rxdrops < rxidcounter
    BY <1>2 DEF Taken
  <2>4. /\ rxidOffset' = rxidOffset /\ rxidcounter' = (id1 - rxidOffset) % SizeRange
        /\ rxdrops' = LET step == (((id1 - rxidOffset) % SizeRange) - rxidcounter) % SizeRange
                      IN  IF step > 1 THEN (rxdrops + step - 1) % SizeRange ELSE rxdrops
    BY <1>2 DEF CountDrops
  <2> HIDE DEF id1
  <2>5. base \in Int /\ id1 - base < SizeRange
    BY <1>0, <2>2, <2>3, Sizes
  <2>6. /\ (id1 - rxidOffset) % SizeRange = id1 - base
        /\ ((id1 - base) - (id - base)) % SizeRange = id1 - id
        /\ rxdrops + (id1 - id) - 1 \in Nat /\ rxdrops + (id1 - id) - 1 < id1 - base
        /\ (rxdrops + (id1 - id) - 1) % SizeRange = rxdrops + (id1 - id) - 1
    <3>1. SizeRange \in Nat \ {0}
      BY Sizes
    <3>2. rxdrops < id - base
      BY <2>3
    <3> QED BY <1>0, <2>2, <2>3, <2>5, <3>1, <3>2, NextDrops, SMTT(30)
  <2>7. rxidcounter' = id1 - base
    BY <2>4, <2>6
  <2>8. rxdrops' = IF id1 - id > 1 THEN (rxdrops + (id1 - id) - 1) % SizeRange ELSE rxdrops
    BY <2>3, <2>4, <2>6
  <2>9. ~(id1 - id > 1) => rxdrops + (id1 - id) - 1 = rxdrops
    BY <1>0, <2>2
  <2>10. rxdrops' = rxdrops + (id1 - id) - 1
    BY <2>6, <2>8, <2>9
  <2>11. rxdrops' - rxdrops = id1 - id - 1
    BY <1>0, <2>2, <2>10
  <2>12. base < id1
    BY <1>0, <2>2, <2>3, <2>5
  <2>13. rxidOffset' = rxidOffset /\ rxidOffset' \in Int
    BY <2>2, <2>4
  <2>14. rxdrops' \in Nat /\ rxdrops' < rxidcounter'
    BY <2>6, <2>7, <2>10
  <2> QED BY <2>2, <2>3, <2>7, <2>11, <2>12, <2>13, <2>14 DEF id1
<1>3. CASE rxidcounter # 0
  <2>1. \E id \in Nat : Taken(id)
    BY <1>3 DEF Counted
  <2> QED BY <1>2, <1>3, <2>1
<1> QED BY <1>1, <1>3

(* A call that takes a new frame: the samples missing before it are those of
   the frames it counts. *)
LEMMA ReadFrameGap ==
  ASSUME NoWrap, ReceiveInv, GapInv, NEW n \in Nat, ReadFrame(n)
  PROVE  /\ GapInv'
         /\ \E id \in Nat : id = Head(socket).id /\ Taken(id)'
         /\ \A id \in Nat : Taken(id) =>
              id < Head(socket).id /\ rxdrops' - rxdrops = Head(socket).id - id - 1
         /\ (chunk # None /\ chunk' # None /\ chunk'.epoch = chunk.epoch)
              => chunk'.first = chunk.last + 1 + FrameItems * (rxdrops' - rxdrops)
<1> DEFINE f == Head(socket)
<1>1. /\ control = "idle" /\ copied = None /\ items_in_buffer = 0 /\ socket # <<>>
      /\ socket' = Tail(socket)
      /\ CountDrops(f) /\ rx_buffer' = f
      /\ items_in_buffer' = FrameItems /\ offset' = 0
      /\ Copy(n, f, FrameItems, 0)
      /\ UNCHANGED <<clock, nextId, on, epoch, control>>
  BY DEF ReadFrame, MayRead, NoWrap, OneAtATime, boardVars
<1>2. nextId \in Nat /\ socket \in Seq(Sent) /\ (rx_buffer # None => rx_buffer \in Sent)
  BY DEF ReceiveInv, Types
<1>3. /\ Len(socket) \in Nat \ {0} /\ f = socket[1] /\ f \in Sent
      /\ Len(Tail(socket)) = Len(socket) - 1
      /\ \A i \in 1..Len(Tail(socket)) : Tail(socket)[i] = socket[i + 1]
  BY <1>1, <1>2
<1> HIDE DEF f
<1>4. \A i \in 1..Len(socket') : i + 1 \in 1..Len(socket) /\ 1 < i + 1 /\ socket'[i] = socket[i + 1]
  BY <1>1, <1>3
<1>5. 1 \in 1..Len(socket) /\ f.id \in Nat /\ f.last \in Nat /\ f \in Frames
  BY <1>3 DEF Frames, Sent
<1>6. f.id < nextId /\ \A i \in 1..Len(socket') : f.id < socket'[i].id
  BY <1>3, <1>4, <1>5 DEF GapInv, InOrder
<1>7. f.id <= IdRange - 2
  <2>1. FrameItems * nextId + (MaxClock - clock) < FrameItems * IdRange /\ clock <= MaxClock
    BY DEF GapInv, IdsLeft
  <2>2. /\ FrameItems * nextId \in Int /\ FrameItems * IdRange \in Int
        /\ clock \in Int /\ MaxClock \in Int /\ IdRange \in Int
    BY <1>2, Sizes DEF ReceiveInv, Types
  <2>3. FrameItems * nextId < FrameItems * IdRange
    BY <2>1, <2>2
  <2>4. nextId < IdRange
    BY <1>2, <2>2, <2>3, Sizes, Cancel
  <2> QED BY <1>2, <1>5, <1>6, <2>2, <2>4
<1>8. /\ rxidOffset' \in Int /\ rxdrops' \in Nat
      /\ \E base \in {rxidOffset', rxidOffset' - SizeRange} :
           /\ base < f.id /\ IdRange - 2 - base < SizeRange
           /\ rxidcounter' = f.id - base /\ rxdrops' < rxidcounter'
      /\ \A id \in Nat : Taken(id) => id < f.id /\ rxdrops' - rxdrops = f.id - id - 1
      /\ rx_buffer # None => rxdrops' - rxdrops = f.id - rx_buffer.id - 1
  <2>1. \A id \in Nat : Taken(id) => id < f.id
    BY <1>3, <1>5 DEF Taken
  <2>3. rx_buffer # None => \E id \in Nat : Taken(id) /\ id = rx_buffer.id
    BY DEF GapInv, Counted, Taken
  <2>2. CountDrops(f) /\ Counted
    BY <1>1 DEF GapInv
  <2> QED BY <1>5, <1>7, <2>1, <2>2, <2>3, FrameCounted
<1>9. Counted' /\ \E id \in Nat : id = f.id /\ Taken(id)'
  <2>1. PICK id \in Nat : id = f.id
    BY <1>5
  <2>2. id < nextId' /\ (\A i \in 1..Len(socket') : id < socket'[i].id) /\ rx_buffer'.id = id
    BY <1>1, <1>6, <2>1
  <2>3. \E base \in {rxidOffset', rxidOffset' - SizeRange} :
          /\ base < id /\ IdRange - 2 - base < SizeRange
          /\ rxidcounter' = id - base /\ rxdrops' < rxidcounter'
    BY <1>8, <2>1
  <2>4. Taken(id)'
    BY <1>8, <2>2, <2>3 DEF Taken
  <2> QED BY <2>1, <2>4 DEF Counted
<1>10. InOrder'
  <2>1. \A i \in 1..Len(socket') : socket'[i].id < nextId'
    BY <1>1, <1>4 DEF GapInv, InOrder
  <2>2. ASSUME NEW i \in 1..Len(socket'), NEW j \in 1..Len(socket'), i < j
        PROVE  socket'[i].id < socket'[j].id
    <3>1. /\ i + 1 \in 1..Len(socket) /\ socket'[i] = socket[i + 1]
          /\ j + 1 \in 1..Len(socket) /\ socket'[j] = socket[j + 1]
      BY <1>4
    <3>2. i + 1 < j + 1
      BY <2>2
    <3>3. socket[i + 1].id < socket[j + 1].id
      BY <3>1, <3>2 DEF GapInv, InOrder
    <3> QED BY <3>1, <3>3
  <2> QED BY <2>1, <2>2 DEF InOrder
<1>11. Frames' \subseteq Frames
  BY <1>1, <1>4, <1>5, SMTT(30) DEF Frames
<1>12. Paced' /\ IdsLeft'
  BY <1>1, <1>11, FewerFrames DEF GapInv, IdsLeft
<1>13. /\ copied' \in Nat /\ copied' # None
       /\ chunk' # None => /\ f # None /\ chunk'.epoch = f.epoch
                           /\ chunk'.first = f.last - FrameItems + 0 + 1
                           /\ chunk'.last = f.last - FrameItems + 0 + copied'
  <2>1. Copy(n, f, FrameItems, 0) /\ FrameItems \in Nat /\ 0 \in Nat
    BY <1>1, Sizes
  <2>2. Ends(f, 0)
    BY <2>1, CopyEnds
  <2> QED BY <2>2 DEF Ends
<1>14. ChunkEnds'
  <2>1. FrameItems + 0 = FrameItems
    BY Sizes
  <2> QED BY <1>1, <1>13, <2>1 DEF ChunkEnds
<1>15. ASSUME chunk # None, chunk' # None, chunk'.epoch = chunk.epoch
       PROVE  chunk'.first = chunk.last + 1 + FrameItems * (rxdrops' - rxdrops)
  <2>1. /\ rx_buffer # None /\ chunk.epoch = rx_buffer.epoch /\ 0 + offset = FrameItems
        /\ chunk.last = rx_buffer.last - FrameItems + offset + 0
    BY <1>1, <1>15 DEF GapInv, ChunkEnds
  <2>2. rx_buffer.last \in Nat /\ rx_buffer.id \in Nat /\ rx_buffer \in Frames
    BY <1>2, <2>1 DEF Sent, Frames
  <2>3. chunk.last = rx_buffer.last
    <3>1. offset \in Nat /\ FrameItems \in Nat
      BY Sizes DEF ReceiveInv, Types
    <3> QED BY <2>1, <2>2, <3>1
  <2>4. f.last - rx_buffer.last = FrameItems * (f.id - rx_buffer.id)
    BY <1>5, <1>13, <1>15, <2>1, <2>2 DEF GapInv, Paced
  <2>5. FrameItems * (f.id - rx_buffer.id - 1) = FrameItems * (f.id - rx_buffer.id) - FrameItems
    BY <1>5, <2>2, Sizes
  <2>6. FrameItems * (f.id - rx_buffer.id) \in Int /\ FrameItems \in Int
    BY <1>5, <2>2, Sizes, SMTT(30)
  <2>7. chunk'.first = f.last - FrameItems + 0 + 1 /\ rxdrops' - rxdrops = f.id - rx_buffer.id - 1
    BY <1>8, <1>13, <1>15, <2>1
  <2>8. f.last - FrameItems + 0 + 1 = rx_buffer.last + 1 + FrameItems * (f.id - rx_buffer.id - 1)
    <3>1. f.last \in Int /\ rx_buffer.last \in Int
      BY <1>5, <2>2
    <3> QED BY <2>4, <2>5, <2>6, <3>1, Between
  <2> QED BY <2>3, <2>7, <2>8
<1> QED BY <1>8, <1>9, <1>10, <1>12, <1>14, <1>15 DEF GapInv, f

(* What NoSilentGap says of a step. *)
Gapless ==
  (chunk # None /\ chunk' # None /\ chunk' # chunk /\ chunk'.epoch = chunk.epoch)
    => chunk'.first = chunk.last + 1 + FrameItems * (rxdrops' - rxdrops)

(* Every step keeps the invariant, and leaves no gap that is not counted. *)
LEMMA GapStep ==
  ASSUME NoWrap, ReceiveInv, GapInv, [Next]_vars PROVE GapInv' /\ Gapless
<1>1. ASSUME NEW n \in Nat, ReadHeld(n) PROVE GapInv' /\ Gapless
  <2>1. /\ GapInv' /\ rxdrops' = rxdrops
        /\ chunk # None /\ chunk' # None => chunk'.first = chunk.last + 1
    BY <1>1, ReadHeldGap
  <2>2. chunk # None => chunk.last + 1 \in Int
    <3>1. chunk # None => /\ rx_buffer # None
                          /\ chunk.last = rx_buffer.last - FrameItems + offset + 0
      BY <1>1 DEF GapInv, ChunkEnds, ReadHeld, MayRead, NoWrap, OneAtATime
    <3>2. offset \in Int /\ FrameItems \in Int /\ (rx_buffer # None => rx_buffer.last \in Int)
      BY Sizes DEF ReceiveInv, Types, Sent
    <3> QED BY <3>1, <3>2
  <2>3. rxdrops \in Int
    BY Sizes DEF GapInv, Counted, Taken
  <2>4. FrameItems * (rxdrops' - rxdrops) = 0
    BY <2>1, <2>3, Sizes
  <2> QED BY <2>1, <2>2, <2>4 DEF Gapless
<1>2. ASSUME NEW n \in Nat, ReadFrame(n) PROVE GapInv' /\ Gapless
  BY <1>2, ReadFrameGap DEF Gapless
<1>3. CASE FillFrame \/ Idle \/ Account \/ (\E then \in {"stop", "start"} : StopSend(then))
           \/ StopDone \/ UNCHANGED vars
  <2>1. chunk' = chunk \/ chunk' = None
    BY <1>3 DEF FillFrame, Idle, Account, StopSend, StopDone, vars
  <2> QED BY <1>3, <2>1, FillGap, RestGap DEF Gapless
<1>4. Requests \subseteq Nat
  BY StreamerAssumption
<1> QED BY <1>1, <1>2, <1>3, <1>4 DEF Next

(***************************************************************************)
(* No silent gap: readStream gives out every sample of a stream once and   *)
(* in order, but for those of lost frames, which are the ones rxdrops      *)
(* counts; whatever the first id, 0 among them, was.                       *)
(***************************************************************************)
THEOREM GapsAreCounted == ASSUME NoWrap PROVE Spec => NoSilentGap
<1>1. Init => ReceiveInv /\ GapInv
  BY ReceiveInit, GapInit
<1>2. ReceiveInv /\ GapInv /\ [Next]_vars => (ReceiveInv /\ GapInv)' /\ Gapless
  BY GapStep, ReceiveStep DEF NoWrap
<1>3. [Gapless]_vars =>
        [(chunk # None /\ chunk' # None /\ chunk' # chunk /\ chunk'.epoch = chunk.epoch)
           => chunk'.first = chunk.last + 1 + FrameItems * (rxdrops' - rxdrops)]_vars
  BY DEF Gapless
<1> QED BY <1>1, <1>2, <1>3, PTL DEF Spec, NoSilentGap

-----------------------------------------------------------------------------
(***************************************************************************)
(* Types                                                                   *)
(***************************************************************************)

(* A frame ends when its samples have been taken. *)
FullFrame == [id : 0..IdRange - 1, last : {n \in Nat : n >= FrameItems}, epoch : Nat]

RxTypeInv == TypeOK /\ socket \in Seq(FullFrame) /\ rx_buffer \in FullFrame \cup {None}

(* Full frames are frames. *)
LEMMA FullFrames == FullFrame \subseteq Frame /\ \A s \in Seq(FullFrame) : s \in Seq(Frame)
<1>1. FullFrame \subseteq Frame
  BY DEF FullFrame, Frame
<1>2. ASSUME NEW s \in Seq(FullFrame) PROVE s \in Seq(Frame)
  <2>1. s \in [1..Len(s) -> FullFrame] /\ Len(s) \in Nat
    OBVIOUS
  <2>2. s \in [1..Len(s) -> Frame]
    BY <1>1, <2>1
  <2> QED BY <2>1, <2>2
<1> QED BY <1>1, <1>2

(* What is left is in the range of an unsigned number. *)
LEMMA Wrapped == ASSUME NEW n \in Nat \ {0}, NEW x \in Int PROVE x % n \in 0..n - 1
OBVIOUS

(* The constants are numbers. *)
LEMMA Numbers ==
  /\ FrameItems \in Nat \ {0} /\ SamplingFrequency \in Nat \ {0} /\ TicksPerSec \in Nat \ {0}
  /\ TS_TO_NS \in Nat \ {0} /\ IdRange \in Nat \ {0} /\ SizeRange \in Nat \ {0}
  /\ IntRange \in Nat \ {0} /\ FrameItems + 1 < SizeRange /\ Requests \subseteq Nat
  /\ FirstIds \subseteq 0..IdRange - 1 /\ MaxSocket \in Nat /\ MaxClock \in Nat
  /\ NanosPerSec \in Nat /\ FrameDuration \in Nat
<1>1. /\ FrameItems \in Nat \ {0} /\ SamplingFrequency \in Nat \ {0} /\ TicksPerSec \in Nat \ {0}
      /\ TS_TO_NS \in Nat \ {0} /\ IdRange \in Nat \ {0} /\ SizeRange \in Nat \ {0}
      /\ IntRange \in Nat \ {0} /\ FrameItems + 1 < SizeRange /\ Requests \subseteq Nat
      /\ FirstIds \subseteq 0..IdRange - 1 /\ MaxSocket \in Nat /\ MaxClock \in Nat
  BY StreamerAssumption
<1>2. NanosPerSec \in Nat
  BY <1>1 DEF NanosPerSec
<1>3. FrameDuration \in Nat
  BY <1>1, <1>2 DEF FrameDuration
<1> QED BY <1>1, <1>2, <1>3

(* A stamp is a natural number. *)
LEMMA StampIsNat == ASSUME NEW f, f.last \in Nat PROVE StampOf(f) \in Nat
<1>1. f.last * TicksPerSec \in Nat /\ SamplingFrequency \in Nat \ {0} /\ TS_TO_NS \in Nat
  BY Numbers
<1>2. (f.last * TicksPerSec) \div SamplingFrequency \in Nat
  BY <1>1, Quotient
<1> QED BY <1>1, <1>2 DEF StampOf

(* A number stored in an int is a number. *)
LEMMA IntIsInt == ASSUME NEW n \in Int PROVE ToInt(n) \in Int
<1>1. n % IntRange \in Int
  BY Numbers, Wrapped
<1> QED BY <1>1, Numbers DEF ToInt

(* What a call copies has the types. *)
LEMMA CopyTypes ==
  ASSUME NEW n, n \in Nat, NEW f, f \in FullFrame \cup {None}, NEW held \in Nat, NEW at \in Nat,
         rxTimestampNS' \in Nat, reg_timeNs \in Nat, Copy(n, f, held, at)
  PROVE  copied' \in Nat /\ reg_timeNs' \in Nat /\ chunk' \in Chunk \cup {None}
<1> DEFINE items == Least(held, n)
           remain == held - items
<1>1. items \in Nat /\ remain \in Nat
  BY DEF Least
<1>2. copied' = items /\ reg_timeNs' = IF at = 0 THEN rxTimestampNS' ELSE reg_timeNs
  BY DEF Copy
<1>3. reg_timeNs' \in Nat
  BY <1>2
<1>4. CASE f = None
  BY <1>1, <1>2, <1>3, <1>4 DEF Copy
<1>5. CASE f # None
  <2>1. f.last \in Nat /\ f.last >= FrameItems /\ f.epoch \in Nat
    BY <1>5 DEF FullFrame
  <2>2. chunk' = [first |-> f.last - FrameItems + at + 1,
                  last  |-> f.last - FrameItems + at + items,
                  time  |-> ChunkTime(reg_timeNs', remain),
                  epoch |-> f.epoch]
    BY <1>5 DEF Copy
  <2> HIDE DEF items, remain
  <2>3. f.last - FrameItems + at + 1 \in Nat /\ f.last - FrameItems + at + items \in Nat
    BY <1>1, <2>1, Numbers
  <2>4. ChunkTime(reg_timeNs', remain) \in Int
    <3>1. remain * NanosPerSec \in Nat
      BY <1>1, Numbers
    <3>2. (remain * NanosPerSec) \div SamplingFrequency \in Nat
      BY <3>1, Numbers, Quotient
    <3> QED BY <1>3, <3>2 DEF ChunkTime
  <2> QED BY <1>1, <1>2, <1>3, <2>1, <2>2, <2>3, <2>4 DEF Chunk
<1> QED BY <1>4, <1>5

(* So has what a frame counts, as dropped or as an underflow. *)
LEMMA CountTypes ==
  ASSUME NEW f \in FullFrame, CountDrops(f), CountUnderflows(f),
         rxidcounter \in 0..SizeRange - 1, rxidOffset \in 0..IdRange - 1,
         rxdrops \in 0..SizeRange - 1, rxunderflows \in Int, rxTimestampNS \in Nat
  PROVE  /\ rxidcounter' \in 0..SizeRange - 1 /\ rxidOffset' \in 0..IdRange - 1
         /\ rxdrops' \in 0..SizeRange - 1 /\ rxunderflows' \in Int /\ rxTimestampNS' \in Nat
<1>1. f.id \in Int /\ f.last \in Nat
  BY DEF FullFrame
<1>2. rxidOffset' \in 0..IdRange - 1
  <2>1. (f.id - 1) % IdRange \in 0..IdRange - 1
    BY <1>1, Numbers, Wrapped
  <2> QED BY <2>1 DEF CountDrops
<1>3. rxidcounter' \in 0..SizeRange - 1
  <2>1. rxidcounter' = (f.id - rxidOffset') % SizeRange
    BY DEF CountDrops
  <2>2. f.id - rxidOffset' \in Int
    BY <1>1, <1>2
  <2> QED BY <2>1, <2>2, Numbers, Wrapped
<1>4. rxdrops' \in 0..SizeRange - 1
  <2> DEFINE step == (rxidcounter' - rxidcounter) % SizeRange
  <2>1. rxidcounter' - rxidcounter \in Int
    BY <1>3
  <2>2. step \in Int
    BY <2>1, Numbers, Wrapped
  <2>3. rxdrops' = IF step > 1 THEN (rxdrops + step - 1) % SizeRange ELSE rxdrops
    BY DEF CountDrops
  <2> HIDE DEF step
  <2>4. rxdrops + step - 1 \in Int
    BY <2>2
  <2>5. (rxdrops + step - 1) % SizeRange \in 0..SizeRange - 1
    BY <2>4, Numbers, Wrapped
  <2> QED BY <2>3, <2>5
<1>5. rxTimestampNS' \in Nat
  BY <1>1, StampIsNat DEF CountUnderflows
<1>6. rxunderflows' \in Int
  <2>1. StampOf(f) \in Nat
    BY <1>1, StampIsNat
  <2>2. StampOf(f) - rxTimestampNS \in Int
    BY <2>1
  <2>3. ToInt(StampOf(f) - rxTimestampNS) \in Int
    BY <2>2, IntIsInt
  <2>4. Late(f) \in Int
    BY <2>3, Numbers DEF Late
  <2> QED BY <2>4, Numbers DEF CountUnderflows
<1> QED BY <1>2, <1>3, <1>4, <1>5, <1>6

(* Every step keeps the types, those of a call with any number of samples
   and of calls that overlap a start or a stop among them. *)
LEMMA RxTypeStep ==
  ASSUME RxTypeInv, [Next]_vars \/ \E n \in Nat : ReadHeld(n) \/ ReadFrame(n)
  PROVE  RxTypeInv'
<1>1. /\ clock \in 0..MaxClock /\ nextId \in 0..IdRange - 1
      /\ on \in BOOLEAN /\ epoch \in Nat
      /\ socket \in Seq(FullFrame) /\ Len(socket) <= MaxSocket
      /\ rx_buffer \in FullFrame \cup {None}
      /\ items_in_buffer \in 0..SizeRange - 1 /\ offset \in Nat
      /\ rxTimestampNS \in Nat /\ reg_timeNs \in Nat
      /\ rxidcounter \in 0..SizeRange - 1 /\ rxidOffset \in 0..IdRange - 1
      /\ rxdrops \in 0..SizeRange - 1 /\ rxunderflows \in Int
      /\ copied \in Nat \cup {None}
      /\ control \in {"idle", "stop", "start"}
      /\ chunk \in Chunk \cup {None}
  BY DEF RxTypeInv, TypeOK
<1>2. ASSUME
      /\ clock' \in 0..MaxClock /\ nextId' \in 0..IdRange - 1
      /\ on' \in BOOLEAN /\ epoch' \in Nat
      /\ socket' \in Seq(FullFrame) /\ Len(socket') <= MaxSocket
      /\ rx_buffer' \in FullFrame \cup {None}
      /\ items_in_buffer' \in 0..SizeRange - 1 /\ offset' \in Nat
      /\ rxTimestampNS' \in Nat /\ reg_timeNs' \in Nat
      /\ rxidcounter' \in 0..SizeRange - 1 /\ rxidOffset' \in 0..IdRange - 1
      /\ rxdrops' \in 0..SizeRange - 1 /\ rxunderflows' \in Int
      /\ copied' \in Nat \cup {None}
      /\ control' \in {"idle", "stop", "start"}
      /\ chunk' \in Chunk \cup {None}
      PROVE RxTypeInv'
  <2>1. socket' \in Seq(Frame) /\ FullFrame \subseteq Frame
    BY <1>2, FullFrames
  <2> QED BY <1>2, <2>1 DEF RxTypeInv, TypeOK
<1>3. ASSUME NEW n, n \in Nat, ReadHeld(n) PROVE RxTypeInv'
  <2>1. /\ rxTimestampNS' = rxTimestampNS /\ Copy(n, rx_buffer, items_in_buffer, offset)
        /\ UNCHANGED <<clock, nextId, on, epoch, socket, rx_buffer, items_in_buffer, offset,
                       rxidcounter, rxidOffset, rxdrops, rxunderflows, control>>
    BY <1>3 DEF ReadHeld, boardVars, bufferVars
  <2>2. items_in_buffer \in Nat /\ rxTimestampNS' \in Nat
    BY <1>1, <2>1
  <2>3. copied' \in Nat /\ reg_timeNs' \in Nat /\ chunk' \in Chunk \cup {None}
    BY <1>1, <1>3, <2>1, <2>2, CopyTypes
  <2> QED BY <1>1, <1>2, <2>1, <2>3
<1>4. ASSUME NEW n, n \in Nat, ReadFrame(n) PROVE RxTypeInv'
  <2> DEFINE f == Head(socket)
  <2>1. /\ socket # <<>> /\ socket' = Tail(socket) /\ CountDrops(f) /\ CountUnderflows(f)
        /\ rx_buffer' = f /\ items_in_buffer' = FrameItems /\ offset' = 0
        /\ Copy(n, f, FrameItems, 0)
        /\ UNCHANGED <<clock, nextId, on, epoch, control>>
    BY <1>4 DEF ReadFrame, boardVars
  <2>2. f \in FullFrame /\ socket' \in Seq(FullFrame) /\ Len(socket') <= MaxSocket
    BY <1>1, <2>1, Numbers
  <2> HIDE DEF f
  <2>3. /\ rxidcounter' \in 0..SizeRange - 1 /\ rxidOffset' \in 0..IdRange - 1
        /\ rxdrops' \in 0..SizeRange - 1 /\ rxunderflows' \in Int /\ rxTimestampNS' \in Nat
    BY <1>1, <2>1, <2>2, CountTypes
  <2>4. FrameItems \in Nat /\ 0 \in Nat /\ f \in FullFrame \cup {None} /\ reg_timeNs \in Nat
    BY <1>1, <2>2, Numbers
  <2>5. copied' \in Nat /\ reg_timeNs' \in Nat /\ chunk' \in Chunk \cup {None}
    BY <1>4, <2>1, <2>3, <2>4, CopyTypes
  <2>6. FrameItems \in 0..SizeRange - 1
    BY Numbers
  <2> QED BY <1>1, <1>2, <2>1, <2>2, <2>3, <2>5, <2>6
<1>5. CASE FillFrame \/ Idle
  <2>1. /\ clock + FrameItems <= MaxClock /\ clock' = clock + FrameItems
        /\ nextId' = (nextId + 1) % IdRange \/ nextId' = nextId
        /\ \/ /\ Len(socket) < MaxSocket
              /\ socket' = Append(socket, [id |-> nextId, last |-> clock', epoch |-> epoch])
           \/ socket' = socket
        /\ UNCHANGED <<on, epoch, rx_buffer, items_in_buffer, offset, rxTimestampNS, reg_timeNs,
                       rxidcounter, rxidOffset, rxdrops, rxunderflows, copied, control, chunk>>
    BY <1>5 DEF FillFrame, Idle, Passes, bufferVars, statVars
  <2>2. clock' \in 0..MaxClock /\ clock' >= FrameItems
    BY <1>1, <2>1, Numbers
  <2>3. (nextId + 1) % IdRange \in 0..IdRange - 1
    BY <1>1, Numbers, Wrapped
  <2>4. [id |-> nextId, last |-> clock', epoch |-> epoch] \in FullFrame
    BY <1>1, <2>2 DEF FullFrame
  <2>5. socket' \in Seq(FullFrame) /\ Len(socket') <= MaxSocket
    BY <1>1, <2>1, <2>4, Numbers, SMTT(30)
  <2> QED BY <1>1, <1>2, <2>1, <2>2, <2>3, <2>5
<1>6. CASE Account
  <2>1. /\ copied # None /\ copied' = None
        /\ items_in_buffer' = (items_in_buffer - copied) % SizeRange
        /\ offset' = offset + copied
        /\ UNCHANGED <<clock, nextId, on, epoch, socket, rx_buffer, rxTimestampNS, reg_timeNs,
                       rxidcounter, rxidOffset, rxdrops, rxunderflows, control, chunk>>
    BY <1>6 DEF Account, boardVars, statVars
  <2>2. items_in_buffer' \in 0..SizeRange - 1
    <3>1. items_in_buffer - copied \in Int
      BY <1>1, <2>1
    <3> QED BY <2>1, <3>1, Numbers, Wrapped
  <2> QED BY <1>1, <1>2, <2>1, <2>2
<1>7. ASSUME NEW then \in {"stop", "start"}, StopSend(then) PROVE RxTypeInv'
  BY <1>1, <1>2, <1>7 DEF StopSend, statVars
<1>8. CASE StopDone
  <2>1. 0 \in 0..SizeRange - 1
    BY Numbers
  <2>2. /\ items_in_buffer' = 0 /\ offset' = 0 /\ chunk' = None /\ control' = "idle"
        /\ UNCHANGED <<clock, nextId, socket, rx_buffer, rxTimestampNS, reg_timeNs,
                       rxidcounter, rxidOffset, rxdrops, rxunderflows, copied>>
    BY <1>8 DEF StopDone, statVars
  <2>3. on' \in BOOLEAN
    BY <1>1, <1>8 DEF StopDone
  <2>4. epoch' = epoch \/ epoch' = epoch + 1
    BY <1>8 DEF StopDone
  <2>5. epoch' \in Nat
    BY <1>1, <2>4
  <2> QED BY <1>1, <1>2, <2>1, <2>2, <2>3, <2>5
<1>9. CASE UNCHANGED vars
  BY <1>1, <1>2, <1>9 DEF vars, boardVars, bufferVars, statVars
<1> QED BY <1>3, <1>4, <1>5, <1>6, <1>7, <1>8, <1>9, Numbers DEF Next

(* The types hold before the first start. *)
LEMMA RxTypeInit == ASSUME Init PROVE RxTypeInv
<1>1. <<>> \in Seq(FullFrame) /\ <<>> \in Seq(Frame) /\ Len(<<>>) = 0
  OBVIOUS
<1>2. 0 \in 0..SizeRange - 1 /\ FrameItems + 1 \in 0..SizeRange - 1 /\ 0 \in 0..MaxClock
      /\ 0 \in 0..IdRange - 1 /\ nextId \in 0..IdRange - 1 /\ 0 <= MaxSocket
  BY Numbers DEF Init
<1>3. on \in BOOLEAN
  BY DEF Init
<1>4. socket \in Seq(FullFrame) /\ socket \in Seq(Frame) /\ Len(socket) <= MaxSocket
  BY <1>1, <1>2 DEF Init
<1>5. items_in_buffer \in 0..SizeRange - 1 /\ offset \in Nat
  BY <1>2 DEF Init
<1>6. epoch \in Nat /\ rxTimestampNS \in Nat /\ reg_timeNs \in Nat /\ rxunderflows \in Int
  BY DEF Init
<1>7. /\ clock \in 0..MaxClock /\ nextId \in 0..IdRange - 1
      /\ rx_buffer \in Frame \cup {None} /\ rx_buffer \in FullFrame \cup {None}
      /\ rxidcounter \in 0..SizeRange - 1 /\ rxidOffset \in 0..IdRange - 1
      /\ rxdrops \in 0..SizeRange - 1 /\ copied \in Nat \cup {None}
      /\ control \in {"idle", "stop", "start"} /\ chunk \in Chunk \cup {None}
  BY <1>2 DEF Init
<1> QED BY <1>3, <1>4, <1>5, <1>6, <1>7 DEF RxTypeInv, TypeOK

(* The state has the declared types. *)
THEOREM RxTypes == Spec => []TypeOK
<1>1. Init => RxTypeInv
  BY RxTypeInit
<1>2. RxTypeInv /\ [Next]_vars => RxTypeInv'
  BY RxTypeStep
<1>3. RxTypeInv => TypeOK
  BY DEF RxTypeInv
<1> QED BY <1>1, <1>2, <1>3, PTL DEF Spec

-----------------------------------------------------------------------------
(***************************************************************************)
(* Drops and underflows                                                    *)
(***************************************************************************)

(* A frame takes more than ten ninths of a tick of the board's clock. *)
FramesTakeTicks == 10 * SamplingFrequency < 9 * FrameItems * TicksPerSec

(* The stamp of a frame that ends with this sample. *)
StampAt(n) == ((n * TicksPerSec) \div SamplingFrequency) * TS_TO_NS

(* Ids tell the least time between frames, of whichever starts they are. *)
Spaced ==
  /\ \A i, j \in 1..Len(socket) :
       i < j => FrameItems * (socket[j].id - socket[i].id) <= socket[j].last - socket[i].last
  /\ \A i \in 1..Len(socket) : FrameItems * (nextId - 1 - socket[i].id) <= clock - socket[i].last

(* The frame taken last had this id and ended with this sample. *)
Since(id, last) ==
  /\ Taken(id) /\ rxTimestampNS = StampAt(last)
  /\ \A i \in 1..Len(socket) : FrameItems * (socket[i].id - id) <= socket[i].last - last
  /\ FrameItems * (nextId - 1 - id) <= clock - last

(* The stamp kept is that of the frame taken last, when there is one. *)
Stamped == rxidcounter # 0 => \E id, last \in Nat : Since(id, last)

UnderInv == Spaced /\ Stamped

(* One frame more, of k samples. *)
LEMMA OneMore ==
  ASSUME NEW k \in Nat, NEW n \in Int, NEW id \in Int, NEW c \in Int, NEW last \in Int,
         k * (n - 1 - id) <= c - last
  PROVE  /\ k * ((n + 1) - 1 - id) <= (c + k) - last
         /\ k * (n - id) <= (c + k) - last
<1>1. k * (n - id) = k * (n - 1 - id) + k /\ k * (n - 1 - id) \in Int
  OBVIOUS
<1>2. (n + 1) - 1 - id = n - id
  OBVIOUS
<1> QED BY <1>1, <1>2

(* A division keeps the order of what is divided. *)
LEMMA QuotientGrows ==
  ASSUME NEW n \in Nat \ {0}, NEW a \in Nat, NEW b \in Nat, a <= b
  PROVE  a \div n <= b \div n
<1> DEFINE p == a \div n
           q == b \div n
<1>1. p \in Nat /\ n * p <= a
  BY Quotient
<1>2. q \in Nat /\ b < n * q + n
  BY Quotient
<1> HIDE DEF p, q
<1>3. n * q + n = n * (q + 1)
  BY <1>2
<1>4. n * p < n * (q + 1)
  BY <1>1, <1>2, <1>3
<1>5. p < q + 1
  BY <1>1, <1>2, <1>4, Cancel
<1>6. p <= q
  BY <1>1, <1>2, <1>5
<1> QED BY <1>6 DEF p, q

(* The difference of two stamps is that of the samples to a tick. *)
LEMMA StampsApart ==
  ASSUME NEW a \in Nat, NEW b \in Nat, a <= b
  PROVE  /\ StampAt(b) - StampAt(a) \in Nat
         /\ NanosPerSec * (b - a) - SamplingFrequency * TS_TO_NS
              < SamplingFrequency * (StampAt(b) - StampAt(a))
<1> DEFINE F == SamplingFrequency
           T == TicksPerSec
           u == TS_TO_NS
           p == (a * T) \div F
           q == (b * T) \div F
<1>1. F \in Nat \ {0} /\ T \in Nat \ {0} /\ u \in Nat \ {0}
  BY Numbers
<1>2. NanosPerSec = T * u /\ StampAt(a) = p * u /\ StampAt(b) = q * u
  BY DEF NanosPerSec, StampAt
<1> HIDE DEF F, T, u
<1>3. a * T \in Nat /\ b * T \in Nat /\ a * T <= b * T
  BY <1>1, Scaled
<1>4. p \in Nat /\ F * p <= a * T
  BY <1>1, <1>3, Quotient
<1>5. q \in Nat /\ b * T < F * q + F
  BY <1>1, <1>3, Quotient
<1>6. p <= q
  BY <1>1, <1>3, QuotientGrows
<1> HIDE DEF p, q
<1>7. q * u - p * u = (q - p) * u /\ q - p \in Nat /\ (q - p) * u \in Nat
  BY <1>1, <1>4, <1>5, <1>6
<1>8. F * (q - p) = F * q - F * p /\ T * (b - a) = b * T - a * T /\ F * q \in Int /\ F * p \in Int
  BY <1>1, <1>4, <1>5
<1>9. T * (b - a) - F < F * (q - p)
  BY <1>1, <1>3, <1>4, <1>5, <1>8
<1>10. (T * (b - a) - F) * u < (F * (q - p)) * u
  <2>1. T * (b - a) - F \in Int /\ F * (q - p) \in Int
    BY <1>1, <1>3, <1>8
  <2> QED BY <1>1, <1>9, <2>1, Scaled
<1>11. (T * (b - a) - F) * u = (T * u) * (b - a) - F * u
  BY <1>1
<1>12. (F * (q - p)) * u = F * ((q - p) * u)
  BY <1>1, <1>7
<1>13. SamplingFrequency = F /\ TS_TO_NS = u
  BY DEF F, u
<1> QED BY <1>2, <1>7, <1>10, <1>11, <1>12, <1>13

(* The numbers of UnderflowCounted. *)
LEMMA GapIsLong ==
  ASSUME NEW d \in Nat, NEW t \in Nat, NEW k \in Nat \ {0}, NEW late \in Int,
         10 * t < 9 * d, d * (k + 1) - t < late
  PROVE  10 * late > 11 * d /\ late - d >= k * (d - t)
<1>1. d * (k + 1) = d * k + d /\ k * (d - t) = d * k - k * t /\ d * k \in Nat /\ k * t \in Nat
  OBVIOUS
<1>2. d <= d * k /\ t <= k * t
  OBVIOUS
<1> QED BY <1>1, <1>2

(* Frames that are missing are more than the tenth of a frame that is
   forgiven, and add their length to the underflows. *)
LEMMA UnderflowCounted ==
  ASSUME FramesTakeTicks, NEW f, f.last \in Nat, NEW last \in Nat, NEW k \in Nat \ {0},
         rxTimestampNS = StampAt(last), FrameItems * (k + 1) <= f.last - last,
         CountUnderflows(f), 2 * (rxTimestampNS' - rxTimestampNS) < IntRange, rxunderflows \in Int
  PROVE  rxunderflows' - rxunderflows >= k * (FrameDuration - SamplingFrequency * TS_TO_NS)
<1> DEFINE d == StampAt(f.last) - StampAt(last)
           t == SamplingFrequency * TS_TO_NS
           span == FrameItems * (k + 1)
<1>1. StampOf(f) = StampAt(f.last) /\ rxTimestampNS' = StampAt(f.last)
  BY DEF CountUnderflows, StampOf, StampAt
<1>2. span \in Nat
  BY Numbers
<1>3. last <= f.last /\ f.last - last \in Nat
  BY <1>2
<1>4. d \in Nat /\ NanosPerSec * (f.last - last) - t < SamplingFrequency * d
  BY <1>3, StampsApart
<1>5. ToInt(d) = d
  <2>1. 2 * d < IntRange
    BY <1>1
  <2> HIDE DEF d
  <2>2. d < IntRange /\ IntRange \in Nat \ {0}
    BY <1>4, <2>1, Numbers
  <2>3. d % IntRange = d
    BY <1>4, <2>2, Small
  <2> QED BY <2>1, <2>3 DEF ToInt
<1>6. Late(f) = SamplingFrequency * d
  BY <1>1, <1>5 DEF Late
<1> HIDE DEF d
<1>7. FrameDuration * (k + 1) <= NanosPerSec * (f.last - last)
  <2>1. span * NanosPerSec <= (f.last - last) * NanosPerSec
    <3>1. NanosPerSec \in Nat \ {0}
      BY Numbers DEF NanosPerSec
    <3> HIDE DEF span
    <3> QED BY <1>2, <1>3, <3>1, Scaled DEF span
  <2>2. span * NanosPerSec = FrameDuration * (k + 1)
    BY Numbers DEF FrameDuration
  <2>3. (f.last - last) * NanosPerSec = NanosPerSec * (f.last - last)
    BY <1>3, Numbers
  <2> QED BY <2>1, <2>2, <2>3
<1>8. 10 * t < 9 * FrameDuration
  <2>1. (10 * SamplingFrequency) * TS_TO_NS < (9 * FrameItems * TicksPerSec) * TS_TO_NS
    BY Numbers, Scaled DEF FramesTakeTicks
  <2>2. (10 * SamplingFrequency) * TS_TO_NS = 10 * t
    BY Numbers
  <2>3. (9 * FrameItems * TicksPerSec) * TS_TO_NS = 9 * FrameDuration
    BY Numbers DEF FrameDuration, NanosPerSec
  <2> QED BY <2>1, <2>2, <2>3
<1>9. t \in Nat /\ FrameDuration \in Nat
  BY Numbers
<1> DEFINE late == SamplingFrequency * d
<1>10. late \in Int
  BY <1>4, Numbers
<1>11. FrameDuration * (k + 1) \in Int /\ NanosPerSec * (f.last - last) \in Int
  BY <1>3, Numbers
<1> HIDE DEF t
<1>12. FrameDuration * (k + 1) - t < late
  BY <1>4, <1>7, <1>9, <1>10, <1>11
<1> HIDE DEF late
<1>13. 10 * late > 11 * FrameDuration /\ late - FrameDuration >= k * (FrameDuration - t)
  BY <1>8, <1>9, <1>10, <1>12, GapIsLong
<1>14. rxunderflows' = rxunderflows + late - FrameDuration
  BY <1>6, <1>13 DEF CountUnderflows, late
<1>15. rxunderflows' - rxunderflows = late - FrameDuration
  BY <1>9, <1>10, <1>14
<1> QED BY <1>13, <1>15 DEF t

(* Nothing was sent or counted. *)
LEMMA UnderInit == ASSUME Init PROVE UnderInv
<1>1. socket = <<>> /\ rxidcounter = 0
  BY DEF Init
<1> QED BY <1>1 DEF UnderInv, Spaced, Stamped

(* A step that leaves the stamp and the count alone, and sends no frame. *)
LEMMA QuietUnder ==
  ASSUME NoWrap, ReceiveInv, UnderInv, clock' = clock \/ clock' = clock + FrameItems,
         rx_buffer' = rx_buffer \/ rx_buffer' = None,
         UNCHANGED <<nextId, socket, rxTimestampNS, rxidcounter, rxidOffset, rxdrops>>
  PROVE  UnderInv'
<1>1. clock \in Nat /\ clock' \in Nat /\ clock <= clock' /\ nextId \in Nat
      /\ \A i \in 1..Len(socket) : socket[i] \in Sent
  BY Sizes DEF ReceiveInv, Types
<1>2. Spaced'
  <2> SUFFICES ASSUME NEW i \in 1..Len(socket)
               PROVE  FrameItems * (nextId - 1 - socket[i].id) <= clock' - socket[i].last
    BY DEF UnderInv, Spaced
  <2>1. FrameItems * (nextId - 1 - socket[i].id) <= clock - socket[i].last
    BY DEF UnderInv, Spaced
  <2>2. socket[i].id \in Nat /\ socket[i].last \in Nat
    BY <1>1 DEF Sent
  <2>3. FrameItems * (nextId - 1 - socket[i].id) \in Int
    BY <1>1, <2>2, Sizes
  <2> QED BY <1>1, <2>1, <2>2, <2>3
<1>3. ASSUME NEW id \in Nat, NEW last \in Nat, Since(id, last) PROVE Since(id, last)'
  <2>1. Taken(id)'
    BY <1>3 DEF Since, Taken
  <2>2. FrameItems * (nextId - 1 - id) <= clock - last
    BY <1>3 DEF Since
  <2>3. FrameItems * (nextId - 1 - id) \in Int
    BY <1>1, Sizes
  <2>4. FrameItems * (nextId - 1 - id) <= clock' - last
    BY <1>1, <2>2, <2>3
  <2> QED BY <1>3, <2>1, <2>4 DEF Since
<1>4. Stamped'
  BY <1>3 DEF UnderInv, Stamped
<1> QED BY <1>2, <1>4 DEF UnderInv

(* The board fills a frame. *)
LEMMA FillUnder == ASSUME NoWrap, ReceiveInv, GapInv, UnderInv, FillFrame PROVE UnderInv'
<1> DEFINE new == [id |-> nextId, last |-> clock', epoch |-> epoch]
<1>1. /\ clock' = clock + FrameItems /\ nextId' = nextId + 1
      /\ socket' = Append(socket, new) \/ socket' = socket
      /\ UNCHANGED <<rx_buffer, rxTimestampNS, rxidcounter, rxidOffset, rxdrops>>
  BY NextIdTaken DEF FillFrame, Passes, bufferVars, statVars
<1>2. /\ clock \in Nat /\ nextId \in Nat /\ epoch \in Nat /\ socket \in Seq(Sent)
      /\ FrameItems \in Nat
  BY Sizes DEF ReceiveInv, Types
<1>3. new \in Sent /\ new.id = nextId /\ new.last = clock + FrameItems
  BY <1>1, <1>2 DEF Sent
<1> HIDE DEF new
<1>4. /\ Len(socket) \in Nat /\ \A i \in 1..Len(socket) : socket[i] \in Sent
      /\ \/ socket' = socket
         \/ /\ Len(socket') = Len(socket) + 1 /\ socket'[Len(socket) + 1] = new
            /\ \A i \in 1..Len(socket) : socket'[i] = socket[i]
  BY <1>1, <1>2, <1>3
<1>5. \A i \in 1..Len(socket') :
        \/ i \in 1..Len(socket) /\ socket'[i] = socket[i]
        \/ i = Len(socket) + 1 /\ socket'[i] = new
  BY <1>4
<1>6. ASSUME NEW id \in Nat, NEW last \in Nat, FrameItems * (nextId - 1 - id) <= clock - last
      PROVE  /\ FrameItems * (nextId' - 1 - id) <= clock' - last
             /\ FrameItems * (new.id - id) <= new.last - last
  BY <1>1, <1>2, <1>3, <1>6, OneMore
<1>7. \A i \in 1..Len(socket) :
        /\ socket[i].id \in Nat /\ socket[i].last \in Nat
        /\ FrameItems * (nextId - 1 - socket[i].id) <= clock - socket[i].last
  BY <1>4 DEF Sent, UnderInv, Spaced
<1>8. Spaced'
  <2>1. FrameItems * (nextId' - 1 - new.id) <= clock' - new.last
    BY <1>1, <1>2, <1>3
  <2>2. \A i \in 1..Len(socket') : FrameItems * (nextId' - 1 - socket'[i].id) <= clock' - socket'[i].last
    BY <1>5, <1>6, <1>7, <2>1
  <2>3. ASSUME NEW i \in 1..Len(socket'), NEW j \in 1..Len(socket'), i < j
        PROVE  FrameItems * (socket'[j].id - socket'[i].id) <= socket'[j].last - socket'[i].last
    <3>1. i \in 1..Len(socket) /\ socket'[i] = socket[i]
      BY <1>4, <1>5, <2>3
    <3>2. CASE j \in 1..Len(socket) /\ socket'[j] = socket[j]
      BY <2>3, <3>1, <3>2 DEF UnderInv, Spaced
    <3>3. CASE socket'[j] = new
      BY <1>6, <1>7, <3>1, <3>3
    <3> QED BY <1>5, <3>2, <3>3
  <2> QED BY <2>2, <2>3 DEF Spaced
<1>9. ASSUME NEW id \in Nat, NEW last \in Nat, Since(id, last) PROVE Since(id, last)'
  <2>1. Taken(id) /\ FrameItems * (nextId - 1 - id) <= clock - last
    BY <1>9 DEF Since
  <2>2. id < nextId' /\ \A i \in 1..Len(socket') : id < socket'[i].id
    <3>1. id < nextId /\ \A i \in 1..Len(socket) : id < socket[i].id
      BY <2>1 DEF Taken
    <3> QED BY <1>1, <1>2, <1>3, <1>5, <3>1, SMTT(30)
  <2>3. Taken(id)'
    BY <1>1, <2>1, <2>2 DEF Taken
  <2>4. \A i \in 1..Len(socket') : FrameItems * (socket'[i].id - id) <= socket'[i].last - last
    BY <1>5, <1>6, <1>9, <2>1 DEF Since
  <2>5. FrameItems * (nextId' - 1 - id) <= clock' - last
    BY <1>6, <2>1
  <2> QED BY <1>1, <1>9, <2>3, <2>4, <2>5 DEF Since
<1>10. Stamped'
  BY <1>1, <1>9 DEF UnderInv, Stamped
<1> QED BY <1>8, <1>10 DEF UnderInv

(* What DropsAreUnderflows says of a step. *)
Underflow ==
  rxidcounter # 0 /\ rxdrops' # rxdrops /\ 2 * (rxTimestampNS' - rxTimestampNS) < IntRange
    => rxunderflows' - rxunderflows >=
         (rxdrops' - rxdrops) * (FrameDuration - SamplingFrequency * TS_TO_NS)

(* A call that takes a frame. *)
LEMMA ReadFrameUnder ==
  ASSUME NoWrap, FramesTakeTicks, ReceiveInv, GapInv, UnderInv, rxunderflows \in Int,
         NEW n \in Nat, ReadFrame(n)
  PROVE  UnderInv' /\ Underflow
<1> DEFINE f == Head(socket)
<1>1. /\ socket # <<>> /\ socket' = Tail(socket) /\ CountUnderflows(f)
      /\ UNCHANGED <<clock, nextId, on, epoch>>
  BY DEF ReadFrame, boardVars
<1>2. nextId \in Nat /\ socket \in Seq(Sent) /\ clock \in Nat
  BY DEF ReceiveInv, Types
<1>3. /\ Len(socket) \in Nat \ {0} /\ f = socket[1] /\ f \in Sent
      /\ Len(Tail(socket)) = Len(socket) - 1
      /\ \A i \in 1..Len(Tail(socket)) : Tail(socket)[i] = socket[i + 1]
  BY <1>1, <1>2
<1>4. /\ \E id \in Nat : id = f.id /\ Taken(id)'
      /\ \A id \in Nat : Taken(id) => id < f.id /\ rxdrops' - rxdrops = f.id - id - 1
  BY ReadFrameGap
<1> HIDE DEF f
<1>5. \A i \in 1..Len(socket') : i + 1 \in 1..Len(socket) /\ 1 < i + 1 /\ socket'[i] = socket[i + 1]
  BY <1>1, <1>3
<1>6. 1 \in 1..Len(socket) /\ f.id \in Nat /\ f.last \in Nat
  BY <1>3 DEF Sent
<1>7. Spaced'
  <2>1. \A i \in 1..Len(socket') : FrameItems * (nextId' - 1 - socket'[i].id) <= clock' - socket'[i].last
    BY <1>1, <1>5 DEF UnderInv, Spaced
  <2>2. ASSUME NEW i \in 1..Len(socket'), NEW j \in 1..Len(socket'), i < j
        PROVE  FrameItems * (socket'[j].id - socket'[i].id) <= socket'[j].last - socket'[i].last
    <3>1. /\ i + 1 \in 1..Len(socket) /\ socket'[i] = socket[i + 1]
          /\ j + 1 \in 1..Len(socket) /\ socket'[j] = socket[j + 1]
      BY <1>5
    <3>2. i + 1 < j + 1
      BY <2>2
    <3> QED BY <3>1, <3>2 DEF UnderInv, Spaced
  <2> QED BY <2>1, <2>2 DEF Spaced
<1>8. Stamped'
  <2>1. PICK id \in Nat : id = f.id /\ Taken(id)'
    BY <1>4
  <2>2. PICK last \in Nat : last = f.last
    BY <1>6
  <2>3. rxTimestampNS' = StampAt(last)
    BY <1>1, <2>2 DEF CountUnderflows, StampOf, StampAt
  <2>4. FrameItems * (nextId' - 1 - id) <= clock' - last
    BY <1>1, <1>3, <1>6, <2>1, <2>2 DEF UnderInv, Spaced
  <2>5. \A i \in 1..Len(socket') : FrameItems * (socket'[i].id - id) <= socket'[i].last - last
    BY <1>3, <1>5, <1>6, <2>1, <2>2 DEF UnderInv, Spaced
  <2>6. Since(id, last)'
    BY <2>1, <2>3, <2>4, <2>5 DEF Since
  <2> QED BY <2>6 DEF Stamped
<1>9. Underflow
  <2> SUFFICES ASSUME rxidcounter # 0, rxdrops' # rxdrops,
                      2 * (rxTimestampNS' - rxTimestampNS) < IntRange
               PROVE  rxunderflows' - rxunderflows >=
                        (rxdrops' - rxdrops) * (FrameDuration - SamplingFrequency * TS_TO_NS)
    BY DEF Underflow
  <2>1. PICK id \in Nat, last \in Nat : Since(id, last)
    BY DEF UnderInv, Stamped
  <2>2. Taken(id) /\ rxTimestampNS = StampAt(last) /\ FrameItems * (f.id - id) <= f.last - last
    BY <1>3, <1>6, <2>1 DEF Since
  <2>3. id < f.id /\ rxdrops' - rxdrops = f.id - id - 1
    BY <1>4, <2>2
  <2>4. PICK k \in Nat : k = f.id - id - 1
    BY <1>6, <2>3
  <2>5. k # 0
    <3>1. rxdrops' \in Nat /\ rxdrops \in Nat
      BY <1>4, <2>2 DEF Taken
    <3> QED BY <2>3, <2>4, <3>1
  <2>6. FrameItems * (k + 1) <= f.last - last
    <3>1. k + 1 = f.id - id
      BY <1>6, <2>4
    <3> QED BY <2>2, <3>1
  <2>7. rxunderflows' - rxunderflows >= k * (FrameDuration - SamplingFrequency * TS_TO_NS)
    BY <1>1, <1>6, <2>2, <2>4, <2>5, <2>6, UnderflowCounted
  <2> QED BY <2>3, <2>4, <2>7
<1> QED BY <1>7, <1>8, <1>9 DEF UnderInv

(* Every step keeps the invariant, and counts what is dropped. *)
LEMMA UnderStep ==
  ASSUME NoWrap, FramesTakeTicks, ReceiveInv, GapInv, UnderInv, rxunderflows \in Int, [Next]_vars
  PROVE  UnderInv' /\ Underflow
<1>1. ASSUME NEW n \in Nat, ReadFrame(n) PROVE UnderInv' /\ Underflow
  BY <1>1, ReadFrameUnder
<1>2. CASE FillFrame
  <2>1. rxdrops' = rxdrops
    BY <1>2 DEF FillFrame, statVars
  <2> QED BY <1>2, <2>1, FillUnder DEF Underflow
<1>3. ASSUME NEW n \in Nat, ReadHeld(n) PROVE UnderInv' /\ Underflow
  <2>1. UNCHANGED <<clock, rx_buffer, nextId, socket, rxTimestampNS, rxidcounter, rxidOffset, rxdrops>>
    BY <1>3 DEF ReadHeld, boardVars, bufferVars
  <2> QED BY <2>1, QuietUnder DEF Underflow
<1>4. CASE Idle \/ Account \/ (\E then \in {"stop", "start"} : StopSend(then)) \/ StopDone
           \/ UNCHANGED vars
  <2>1. /\ clock' = clock \/ clock' = clock + FrameItems
        /\ rx_buffer' = rx_buffer \/ rx_buffer' = None
        /\ UNCHANGED <<nextId, socket, rxTimestampNS, rxidcounter, rxidOffset, rxdrops>>
    BY <1>4 DEF Idle, Passes, Account, StopSend, StopDone, vars, boardVars, bufferVars, statVars
  <2> QED BY <2>1, QuietUnder DEF Underflow
<1> QED BY <1>1, <1>2, <1>3, <1>4, Numbers DEF Next

(***************************************************************************)
(* Frames that rxdrops counts are counted as an underflow of their length  *)
(* too, to a tick, as long as the gap fits an int: also across a stop and  *)
(* a start, where the gap is longer than the frames that are missing.      *)
(***************************************************************************)
THEOREM DropsAreTimed ==
  ASSUME NoWrap, FramesTakeTicks PROVE Spec => DropsAreUnderflows
<1> DEFINE Inv == ReceiveInv /\ GapInv /\ UnderInv /\ RxTypeInv
<1>1. Init => Inv
  BY ReceiveInit, GapInit, UnderInit, RxTypeInit
<1>2. Inv /\ [Next]_vars => Inv' /\ Underflow
  <2>1. RxTypeInv => rxunderflows \in Int
    BY DEF RxTypeInv, TypeOK
  <2> QED BY <2>1, ReceiveStep, GapStep, UnderStep, RxTypeStep DEF NoWrap
<1>3. [Underflow]_vars =>
        [rxidcounter # 0 /\ rxdrops' # rxdrops /\ 2 * (rxTimestampNS' - rxTimestampNS) < IntRange
           => rxunderflows' - rxunderflows >=
                (rxdrops' - rxdrops) * (FrameDuration - SamplingFrequency * TS_TO_NS)]_vars
  BY DEF Underflow
<1> QED BY <1>1, <1>2, <1>3, PTL DEF Spec, DropsAreUnderflows
=============================================================================
