----------------------------- MODULE RxStreamer -----------------------------
(***************************************************************************)
(* The host's receive stream: rx_streamer of AdrvSDR_Streaming.cpp, with   *)
(* the reader that calls readStream, the thread that starts and stops the  *)
(* stream, and the board that numbers and stamps its frames.  readStream   *)
(* takes no lock.                                                          *)
(*                                                                         *)
(* Samples are numbered by the time they are taken at; a frame is          *)
(* FrameItems of them, followed by 24 bytes of metadata.                   *)
(***************************************************************************)
EXTENDS Integers, Sequences

CONSTANTS
  FrameItems,  \* samples in a frame, without the metadata: buffer_size - 6
  Requests,    \* numElems of the calls of readStream
  SamplingFrequency, \* samples in a second
  TicksPerSec, \* the clock of the board's stamps
  TS_TO_NS,    \* nanoseconds in a tick of it
  FirstIds,    \* the id of the first frame the board fills
  IdRange,     \* ids are uint32_t: 2^32
  SizeRange,   \* size_t and uint64_t: 2^64
  IntRange,    \* int: 2^32
  MaxSocket,   \* frames the host's stream socket holds
  MaxClock,    \* bound on the samples of a behaviour
  MaxStarts,   \* bound on the starts of the stream
  Overlap,     \* TRUE: readStream runs while the stream is started or stopped
  None         \* no frame, no chunk

ASSUME StreamerAssumption ==
  /\ {FrameItems, SamplingFrequency, TicksPerSec, TS_TO_NS} \subseteq Nat \ {0}
  /\ {IdRange, SizeRange, IntRange} \subseteq Nat \ {0} /\ FrameItems + 1 < SizeRange
  /\ Requests \subseteq Nat /\ FirstIds \subseteq 0..IdRange - 1
  /\ MaxSocket \in Nat /\ MaxClock \in Nat /\ MaxStarts \in Nat
  /\ Overlap \in BOOLEAN

VARIABLES
  clock,    \* samples taken so far, streamed or not
  nextId,   \* the id of the next frame the board fills
  on,       \* the board streams
  epoch,    \* how often it was started
  socket,   \* frames in the host's stream socket
  rx_buffer, items_in_buffer,
  offset,   \* byte_offset, in samples
  rxTimestampNS, reg_timeNs, rxidcounter, rxidOffset, rxdrops,
  rxunderflows, \* times a frame's duration
  copied,   \* readStream has copied these items and not yet accounted for them
  control,  \* the other thread: "idle", or where it is in stop or start
  chunk     \* what readStream returned last, None after a stop

boardVars == <<clock, nextId, on, epoch>>
bufferVars == <<rx_buffer, items_in_buffer, offset>>
statVars == <<rxTimestampNS, reg_timeNs, rxidcounter, rxidOffset, rxdrops, rxunderflows>>
vars == <<boardVars, socket, bufferVars, statVars, copied, control, chunk>>

NanosPerSec == TicksPerSec * TS_TO_NS
Frame == [id : 0..IdRange - 1, last : Nat, epoch : Nat]

(* The constructor leaves items_in_buffer and byte_offset as they are. *)
Init ==
  /\ clock = 0 /\ nextId \in FirstIds /\ on = FALSE /\ epoch = 0
  /\ socket = <<>>
  /\ rx_buffer = None
  /\ items_in_buffer \in {0, FrameItems + 1} /\ offset \in {0, 1}
  /\ rxTimestampNS = 0 /\ reg_timeNs = 0
  /\ rxidcounter = 0 /\ rxidOffset = 0 /\ rxdrops = 0 /\ rxunderflows = 0
  /\ copied = None /\ control = "idle" /\ chunk = None

-----------------------------------------------------------------------------
(* The board *)

Passes ==
  /\ clock + FrameItems <= MaxClock
  /\ clock' = clock + FrameItems

(* A frame is filled and sent; it is lost if the socket is full, or on its way. *)
FillFrame ==
  /\ on
  /\ Passes
  /\ nextId' = (nextId + 1) % IdRange
  /\ \/ /\ Len(socket) < MaxSocket
        /\ socket' = Append(socket, [id |-> nextId, last |-> clock', epoch |-> epoch])
     \/ UNCHANGED socket
  /\ UNCHANGED <<on, epoch, bufferVars, statVars, copied, control, chunk>>

Idle ==
  /\ ~on
  /\ Passes
  /\ UNCHANGED <<nextId, on, epoch, socket, bufferVars, statVars, copied, control, chunk>>

-----------------------------------------------------------------------------
(* readStream *)

Least(a, b) == IF a <= b THEN a ELSE b

(* An unsigned 64-bit value stored in an int. *)
ToInt(n) ==
  LET m == n % IntRange IN IF 2 * m < IntRange THEN m ELSE m - IntRange

(* The stamp is taken with the frame's last sample. *)
StampOf(f) == ((f.last * TicksPerSec) \div SamplingFrequency) * TS_TO_NS

(* Durations times SamplingFrequency are whole numbers. *)
FrameDuration == FrameItems * NanosPerSec
Late(f) == SamplingFrequency * ToInt(StampOf(f) - rxTimestampNS)

(* Mutant of CountDrops: the first id is taken for a signed number. *)
CountDrops_Signed(f) ==
  LET base == IF rxidcounter = 0 THEN f.id - 1 ELSE rxidOffset
      rxidc == (f.id - base) % SizeRange
      step  == (rxidc - rxidcounter) % SizeRange
  IN
    /\ rxidOffset' = base
    /\ rxidcounter' = rxidc
    /\ rxdrops' = IF step > 1 THEN (rxdrops + step - 1) % SizeRange ELSE rxdrops

(* Mutant of CountDrops: the frame itself is counted as dropped. *)
CountDrops_OffByOne(f) ==
  LET base == IF rxidcounter = 0 THEN (f.id - 1) % IdRange ELSE rxidOffset
      rxidc == (f.id - base) % SizeRange
      step  == (rxidc - rxidcounter) % SizeRange
  IN
    /\ rxidOffset' = base
    /\ rxidcounter' = rxidc
    /\ rxdrops' = IF step > 1 THEN (rxdrops + step) % SizeRange ELSE rxdrops

(* The ids count from the first frame taken, which is the one that finds
   rxidcounter zero. *)
CountDrops(f) ==
  LET base == IF rxidcounter = 0 THEN (f.id - 1) % IdRange ELSE rxidOffset
      rxidc == (f.id - base) % SizeRange
      step  == (rxidc - rxidcounter) % SizeRange
  IN
    /\ rxidOffset' = base
    /\ rxidcounter' = rxidc
    /\ rxdrops' = IF step > 1 THEN (rxdrops + step - 1) % SizeRange ELSE rxdrops

(* Mutant of CountUnderflows: the stamp is stored before it is compared. *)
CountUnderflows_StampFirst(f) ==
  /\ rxunderflows' = rxunderflows
  /\ rxTimestampNS' = StampOf(f)

(* A gap of more than a tenth of a frame counts as an underflow of its length. *)
CountUnderflows(f) ==
  /\ rxunderflows' = IF 10 * Late(f) > 11 * FrameDuration
                     THEN rxunderflows + Late(f) - FrameDuration
                     ELSE rxunderflows
  /\ rxTimestampNS' = StampOf(f)

(* Mutant of ChunkTime: the whole frame has the stamp. *)
ChunkTime_Stamp(stamp, remain) == stamp

(* The time of a chunk: its frame's stamp less the samples that remain after it. *)
ChunkTime(stamp, remain) == stamp - (remain * NanosPerSec) \div SamplingFrequency

(* receive up to the copy: a new frame is taken if the buffer is empty, and the
   chunk is copied and stamped. *)
Copy(numElems, f, held, at) ==
  LET items == Least(held, numElems) IN
    /\ copied' = items
    /\ reg_timeNs' = IF at = 0 THEN rxTimestampNS' ELSE reg_timeNs
    /\ chunk' = IF f = None THEN None
                ELSE [first |-> f.last - FrameItems + at + 1,
                      last  |-> f.last - FrameItems + at + items,
                      time  |-> ChunkTime(reg_timeNs', held - items),
                      epoch |-> f.epoch]

(* A stream is read only after it has been activated. *)
MayRead == epoch > 0 /\ copied = None /\ (control = "idle" \/ Overlap)

ReadHeld(numElems) ==
  /\ MayRead
  /\ items_in_buffer # 0
  /\ UNCHANGED <<rxTimestampNS, rxidcounter, rxidOffset, rxdrops, rxunderflows>>
  /\ Copy(numElems, rx_buffer, items_in_buffer, offset)
  /\ UNCHANGED <<boardVars, socket, bufferVars, control>>

ReadFrame(numElems) ==
  /\ MayRead
  /\ items_in_buffer = 0
  /\ socket # <<>>
  /\ socket' = Tail(socket)
  /\ CountDrops(Head(socket))
  /\ CountUnderflows(Head(socket))
  /\ rx_buffer' = Head(socket) /\ items_in_buffer' = FrameItems /\ offset' = 0
  /\ Copy(numElems, Head(socket), FrameItems, 0)
  /\ UNCHANGED <<boardVars, control>>

(* Mutant of Account: the offset does not move. *)
Account_SameOffset ==
  /\ copied # None
  /\ items_in_buffer' = (items_in_buffer - copied) % SizeRange
  /\ copied' = None
  /\ UNCHANGED <<boardVars, socket, rx_buffer, offset, statVars, control, chunk>>

(* receive to its end. *)
Account ==
  /\ copied # None
  /\ items_in_buffer' = (items_in_buffer - copied) % SizeRange
  /\ offset' = offset + copied
  /\ copied' = None
  /\ UNCHANGED <<boardVars, socket, rx_buffer, statVars, control, chunk>>

-----------------------------------------------------------------------------
(* activateStream and deactivateStream: start stops first. *)

MayControl == copied = None \/ Overlap

(* stop clears the buffer and sends its command ... *)
StopSend(then) ==
  /\ control = "idle"
  /\ MayControl
  /\ then = "start" => epoch < MaxStarts
  /\ rx_buffer' = None
  /\ on' = FALSE
  /\ control' = then
  /\ UNCHANGED <<clock, nextId, epoch, socket, items_in_buffer, offset, statVars, copied, chunk>>

(* ... and empties it when the reply is there; frames that are in the socket stay. *)
StopDone ==
  /\ control \in {"stop", "start"}
  /\ items_in_buffer' = 0 /\ offset' = 0
  /\ chunk' = None
  /\ \/ control = "stop" /\ control' = "idle" /\ UNCHANGED <<on, epoch>>
     \/ control = "start" /\ control' = "idle" /\ on' = TRUE /\ epoch' = epoch + 1
  /\ UNCHANGED <<clock, nextId, socket, rx_buffer, statVars, copied>>

-----------------------------------------------------------------------------
Next ==
  \/ FillFrame \/ Idle
  \/ \E n \in Requests : ReadHeld(n) \/ ReadFrame(n)
  \/ Account
  \/ \E then \in {"stop", "start"} : StopSend(then)
  \/ StopDone

Spec == Init /\ [][Next]_vars

-----------------------------------------------------------------------------
Chunk == [first : Nat, last : Nat, time : Int, epoch : Nat]

TypeOK ==
  /\ clock \in 0..MaxClock /\ nextId \in 0..IdRange - 1
  /\ on \in BOOLEAN /\ epoch \in Nat
  /\ socket \in Seq(Frame) /\ Len(socket) <= MaxSocket
  /\ rx_buffer \in Frame \cup {None}
  /\ items_in_buffer \in 0..SizeRange - 1 /\ offset \in Nat
  /\ rxTimestampNS \in Nat /\ reg_timeNs \in Nat
  /\ rxidcounter \in 0..SizeRange - 1 /\ rxidOffset \in 0..IdRange - 1
  /\ rxdrops \in 0..SizeRange - 1 /\ rxunderflows \in Int
  /\ copied \in Nat \cup {None}
  /\ control \in {"idle", "stop", "start"}
  /\ chunk \in Chunk \cup {None}

(***************************************************************************)
(* receive never copies beyond the frame's samples: what the buffer is     *)
(* said to hold lies between the offset and the metadata.                  *)
(***************************************************************************)
BufferBounds == epoch = 0 \/ items_in_buffer = 0 \/ items_in_buffer + offset = FrameItems

(***************************************************************************)
(* No silent gap: between two calls of readStream, samples are missing     *)
(* only if frames are, and those are what rxdrops counts; none is given    *)
(* out twice.  (Samples are also missing across a stop.)                   *)
(***************************************************************************)
NoSilentGap ==
  [][(chunk # None /\ chunk' # None /\ chunk' # chunk /\ chunk'.epoch = chunk.epoch)
       => chunk'.first = chunk.last + 1 + FrameItems * (rxdrops' - rxdrops)]_vars

(***************************************************************************)
(* The time of a chunk is that of its last sample, however the frame was   *)
(* cut into chunks: not a tick early, and less than a nanosecond late.     *)
(***************************************************************************)
TimeOfLastSample ==
  chunk # None =>
    LET error == SamplingFrequency * chunk.time - NanosPerSec * chunk.last IN
      -SamplingFrequency * TS_TO_NS < error /\ error < SamplingFrequency

(***************************************************************************)
(* Frames that rxdrops counts as lost are counted as an underflow of (to   *)
(* a tick) their length too, unless the gap does not fit an int.           *)
(***************************************************************************)
DropsAreUnderflows ==
  [][rxidcounter # 0 /\ rxdrops' # rxdrops /\ 2 * (rxTimestampNS' - rxTimestampNS) < IntRange
       => rxunderflows' - rxunderflows >=
            (rxdrops' - rxdrops) * (FrameDuration - SamplingFrequency * TS_TO_NS)]_vars
=============================================================================
