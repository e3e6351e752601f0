------------------------------ MODULE Adapter ------------------------------
(***************************************************************************)
(* The OpenAirInterface adapter (adrv_lib.cpp) as a user of the receive    *)
(* stream: trx_adrv_read fills a buffer of nsamps samples with as many     *)
(* calls of readStream as it takes, and gives it one timestamp.            *)
(*                                                                         *)
(* There is one board, which the uninitialised index of the read is taken  *)
(* for.  A behaviour has one user: the adapter, or the program of          *)
(* RxStreamer that calls readStream itself.                                *)
(***************************************************************************)
EXTENDS RxStreamer, FiniteSets

CONSTANT ReadSizes   \* nsamps of the calls of trx_adrv_read

ASSUME ReadSizesAssumption == ReadSizes \subseteq Nat \ {0}

VARIABLES
  user,    \* "program" or "adapter"
  read,    \* the trx_adrv_read under way, None between calls
  answer   \* what the last one returned, None before it and after a stop

adapterVars == <<user, read, answer>>

(* read: samples_received and timeNs; its first and last sample, the drops
   counted when it had the first, and the starts of the stream that its
   samples are from are there for the properties. *)
NewRead(n) ==
  [nsamps |-> n, samples_received |-> 0, timeNs |-> 0,
   first |-> 0, firstChunk |-> 0, last |-> 0, drops |-> 0, epochs |-> {}]

AdapterInit == Init /\ user \in {"program", "adapter"} /\ read = None /\ answer = None

(* The adapter reads with the stream's MTU, which is a frame. *)
MTU == FrameItems

(* Mutant of ReqNum: what has been received is not subtracted. *)
ReqNum_Whole == Least(read.nsamps, MTU)

ReqNum == Least(read.nsamps - read.samples_received, MTU)

BeginRead(n) ==
  /\ user = "adapter" /\ epoch > 0 /\ control = "idle" /\ read = None
  /\ read' = NewRead(n)
  /\ UNCHANGED <<vars, user, answer>>

Filled == read # None /\ read.samples_received >= read.nsamps

ReadChunk ==
  /\ read # None /\ ~Filled
  /\ ReadHeld(ReqNum) \/ ReadFrame(ReqNum)
  /\ UNCHANGED adapterVars

TimeOfRead == IF read.samples_received = 0 THEN chunk.time ELSE read.timeNs

(* The return of readStream. *)
EndChunk ==
  /\ read # None
  /\ Account
  /\ read' = [read EXCEPT
       !.samples_received = @ + copied,
       !.timeNs = TimeOfRead,
       !.first = IF read.samples_received = 0 THEN chunk.first ELSE @,
       !.firstChunk = IF read.samples_received = 0 THEN chunk.last ELSE @,
       !.last = chunk.last,
       !.drops = IF read.samples_received = 0 THEN rxdrops ELSE @,
       !.epochs = @ \cup {chunk.epoch}]
  /\ UNCHANGED <<user, answer>>

(* SoapySDR's timeNsToTicks rounds to the nearest tick of the sampling rate. *)
TimeNsToTicks(t) == (2 * t * SamplingFrequency + NanosPerSec) \div (2 * NanosPerSec)

(* The buffer is full, or readStream found no frame: recv failed. *)
EndRead ==
  /\ read # None /\ copied = None
  /\ Filled \/ items_in_buffer = 0
  /\ answer' = [nsamps |-> read.nsamps,
                samples_received |-> read.samples_received,
                ticks |-> TimeNsToTicks(read.timeNs),
                first |-> read.first, firstChunk |-> read.firstChunk, last |-> read.last,
                drops |-> rxdrops - read.drops, counted |-> rxdrops, epochs |-> read.epochs]
  /\ read' = None
  /\ UNCHANGED <<vars, user>>

(* trx_adrv_start and trx_adrv_stop, on the receive side. *)
TrxControl ==
  /\ user = "adapter" /\ read = None
  /\ \/ \E then \in {"stop", "start"} : StopSend(then)
     \/ StopDone
  /\ answer' = None
  /\ UNCHANGED <<user, read>>

AdapterNext ==
  \/ user = "program" /\ Next /\ UNCHANGED adapterVars
  \/ user = "adapter" /\ (FillFrame \/ Idle) /\ UNCHANGED adapterVars
  \/ \E n \in ReadSizes : BeginRead(n)
  \/ ReadChunk \/ EndChunk \/ EndRead \/ TrxControl

AdapterSpec == AdapterInit /\ [][AdapterNext]_<<vars, adapterVars>>

-----------------------------------------------------------------------------
(***************************************************************************)
(* What trx_adrv_read hands out is the stream: no more than was asked for, *)
(* and samples are missing within a read, or between it and the one before *)
(* (which may have ended early), only if rxdrops counted their frames.     *)
(* (Samples are also missing across a stop: the stop leaves frames in the  *)
(* socket, so that one read may hold samples from before and after it.)    *)
(***************************************************************************)
ReadsAreContiguous ==
  [][(answer' # answer /\ answer' # None /\ Cardinality(answer'.epochs) = 1) =>
       /\ answer'.samples_received <= answer'.nsamps
       /\ answer'.last + 1 - answer'.first =
            answer'.samples_received + FrameItems * answer'.drops
       /\ (answer # None /\ answer.epochs = answer'.epochs) =>
            answer'.last - answer.last =
              answer'.samples_received + FrameItems * (answer'.counted - answer.counted)]_answer

(***************************************************************************)
(* "*ptimestamp is the time at which the first sample was received"        *)
(* (adrv_lib.cpp:257): the timestamp of a read, in ticks of the sampling   *)
(* rate, is the number of its first sample.  It is not: readStream gives a *)
(* chunk the time of its last sample, and the read has that of its first   *)
(* chunk, so that the claim holds only if that chunk has one sample.       *)
(***************************************************************************)
TimestampIsFirstSample ==
  (answer # None /\ answer.samples_received > 0) => answer.ticks = answer.first
=============================================================================
