----------------------------- MODULE Controller -----------------------------
(***************************************************************************)
(* The board program's stream control: board/iio-udp/Controller.cpp, the   *)
(* streaming part of IIODevice.cpp that it drives, and the one operation   *)
(* of UDPServer.cpp that drives it besides commands (initClient).          *)
(*                                                                         *)
(* The processes are the main thread, which runs one command at a time,    *)
(* and one streaming thread for each direction ("rx": streamRX, "tx":      *)
(* streamTX).  They share the activity flags, the IIO device and the       *)
(* stream socket without any lock; what keeps them apart is the order in   *)
(* which flag, thread and device are handed over.                          *)
(***************************************************************************)
EXTENDS Integers, Sequences

CONSTANTS
  Environments, \* the environments the board may find itself in
  IntRange,     \* the values of a C int, 2^32
  MaxFrames     \* bound on the datagrams queued in the stream socket

FaultKinds ==
  { "thread_create",     \* pthread_create fails
    "buffer_create",     \* iio_device_create_buffer returns NULL
    "io",                \* iio_buffer_refill, iio_buffer_push or sendto fails
    "cancel_in_libiio" } \* a cancellation acts inside iio_buffer_destroy

Dirs == {"rx", "tx"}
DUMMYBUF_SIZE_BYTE == 16384
MaxSize == 65535     \* the largest size that the server's setters accept ...
MaxPayload == 65507  \* ... and the most a UDP datagram carries

(* The values of a C int, and the conversion of a wider integer to one. *)
INT_MAX == IntRange \div 2 - 1
IntValues == -(IntRange \div 2)..INT_MAX
ServerSizes == -(IntRange \div 2)..MaxSize
Narrow(v) == ((v + IntRange \div 2) % IntRange) - IntRange \div 2

(* A number of bytes in samples of four, as C divides. *)
Samples(bytes) == IF bytes >= 0 THEN bytes \div 4 ELSE -((-bytes) \div 4)

(***************************************************************************)
(* An environment is a host, "any" (any command at any time) or "driver"   *)
(* (the order of UDPClient::initProcedure), the faults that may happen,    *)
(* and the sizes the host may ask for: any number that strtoll returns.    *)
(***************************************************************************)
ASSUME ControllerAssumption ==
  /\ Environments \subseteq
       [host : {"any", "driver"}, faults : SUBSET FaultKinds, sizes : SUBSET Int]
  /\ IntRange \in Nat /\ IntRange % 2 = 0 /\ IntRange \div 2 > MaxSize
  /\ MaxFrames \in Nat

VARIABLES
  env,              \* the environment, which never changes
  thread_active,    \* rx_thread_active, tx_thread_active
  pc,               \* where each streaming thread is
  cancelled,        \* a pthread_cancel is pending on the streaming thread
  handle,           \* whom rx_thread, tx_thread name: a direction's last thread,
                    \* a thread that "ended" unjoined, or "nobody" (see Start)
  iiobuf,           \* rxbuf, txbuf: NULL, a live buffer, or a destroyed one
  bufSizeByte,      \* bytes the IIO buffer holds, 0 if there is none
  channels,         \* the I and Q channels are enabled
  isStreaming,      \* rxIsStreaming, txIsStreaming
  bufferSizeSample, \* IIODevice::rxBufferSizeSample, txBufferSizeSample
  streamSizeByte,   \* UDPServer's size for the direction: tx...Byte for "rx"
  frameSize,        \* the thread's own copy of streamSizeByte
  streamq,          \* sizes of the datagrams waiting in the stream socket
  mainAt,           \* where the main thread is
  mainOp,           \* the command it is running: "stop" or "init"
  mainDir,          \* the direction it is stopping
  session,          \* how far the host is in UDPClient::initProcedure
  terminated        \* an exception left a streaming thread: std::terminate

threadVars == <<thread_active, pc, cancelled, handle>>
deviceVars == <<iiobuf, bufSizeByte, channels, isStreaming>>
sizeVars   == <<bufferSizeSample, streamSizeByte>>
mainVars   == <<mainAt, mainOp, mainDir>>
vars == <<env, threadVars, deviceVars, sizeVars, frameSize, streamq, mainVars,
          session, terminated>>

Gone == {"none", "exited"}  \* no streaming thread runs

(***************************************************************************)
(* Where a thread notices a cancellation: the prologue's output, the       *)
(* output in enableChannels, refill, recv, push and sendto, and the output *)
(* in disableChannels.  The other steps make no call that is one.          *)
(***************************************************************************)
CancelPoints == {"created", "creating", "wait", "xfer", "disable", "unchannel"}
                  \cup (IF "cancel_in_libiio" \in env.faults THEN {"nulling"} ELSE {})

ThreadPC == Gone \cup {"created", "enable", "creating", "snapshot", "wait", "xfer",
                       "disable", "nulling", "unchannel", "announce"}

Init ==
  /\ env \in Environments
  /\ thread_active    = [d \in Dirs |-> FALSE]
  /\ pc               = [d \in Dirs |-> "none"]
  /\ cancelled        = [d \in Dirs |-> FALSE]
  /\ handle           = [d \in Dirs |-> "nobody"]
  /\ iiobuf           = [d \in Dirs |-> "null"]
  /\ bufSizeByte      = [d \in Dirs |-> 0]
  /\ channels         = [d \in Dirs |-> FALSE]
  /\ isStreaming      = [d \in Dirs |-> FALSE]
  /\ bufferSizeSample = [d \in Dirs |-> DUMMYBUF_SIZE_BYTE \div 4]
  /\ streamSizeByte   = [d \in Dirs |-> DUMMYBUF_SIZE_BYTE]
  /\ frameSize        = [d \in Dirs |-> 0]
  /\ streamq          = <<>>
  /\ mainAt = "recv" /\ mainOp = "stop" /\ mainDir = "rx"
  /\ session          = IF env.host = "any" THEN "ready" ELSE "closed"
  /\ terminated       = FALSE

-----------------------------------------------------------------------------
(* The streaming threads *)

Goto(d, to) == pc' = [pc EXCEPT ![d] = to]

(* The thread ends, and its local variables with it. *)
Exit(d) == Goto(d, "exited") /\ frameSize' = [frameSize EXCEPT ![d] = 0]

(* The prologue ends by storing the flag that start already stored. *)
Prologue(d) ==
  /\ pc[d] = "created"
  /\ thread_active' = [thread_active EXCEPT ![d] = TRUE]
  /\ Goto(d, "enable")
  /\ UNCHANGED <<cancelled, handle, deviceVars, sizeVars, frameSize, streamq, mainVars,
                 session, terminated>>

(* enableChannels throws if the direction streams already; the call is outside
   the thread's try block, so the exception terminates the process. *)
EnableChannels(d) ==
  /\ pc[d] = "enable"
  /\ \/ /\ isStreaming[d]
        /\ terminated' = TRUE
        /\ UNCHANGED <<pc, channels>>
     \/ /\ ~isStreaming[d]
        /\ channels' = [channels EXCEPT ![d] = TRUE]
        /\ Goto(d, "creating")
        /\ UNCHANGED terminated
  /\ UNCHANGED <<thread_active, cancelled, handle, iiobuf, bufSizeByte, isStreaming, sizeVars,
                 frameSize, streamq, mainVars, session>>

(* The buffer is created only if there is none, and libiio refuses a size that is
   not positive. *)
CreateBuffer(d) ==
  /\ pc[d] = "creating"
  /\ iiobuf[d] = "null" => bufferSizeSample[d] > 0
  /\ IF iiobuf[d] = "null"
     THEN /\ iiobuf' = [iiobuf EXCEPT ![d] = "live"]
          /\ bufSizeByte' = [bufSizeByte EXCEPT ![d] = 4 * bufferSizeSample[d]]
     ELSE UNCHANGED <<iiobuf, bufSizeByte>>
  /\ isStreaming' = [isStreaming EXCEPT ![d] = TRUE]
  /\ Goto(d, "snapshot")
  /\ UNCHANGED <<thread_active, cancelled, handle, channels, sizeVars, frameSize, streamq,
                 mainVars, session, terminated>>

CreateBufferFails(d) ==
  /\ pc[d] = "creating"
  /\ iiobuf[d] = "null"
  /\ "buffer_create" \in env.faults \/ bufferSizeSample[d] <= 0
  /\ terminated' = TRUE
  /\ UNCHANGED <<threadVars, deviceVars, sizeVars, frameSize, streamq, mainVars, session>>

(* The server's size is read after enableChannels, without a lock. *)
Snapshot(d) ==
  /\ pc[d] = "snapshot"
  /\ frameSize' = [frameSize EXCEPT ![d] = streamSizeByte[d]]
  /\ Goto(d, "wait")
  /\ UNCHANGED <<thread_active, cancelled, handle, deviceVars, sizeVars, streamq, mainVars,
                 session, terminated>>

(* streamRX: iio_buffer_refill has filled the buffer. *)
Refill ==
  /\ pc["rx"] = "wait"
  /\ Goto("rx", "xfer")
  /\ UNCHANGED <<thread_active, cancelled, handle, deviceVars, sizeVars, frameSize, streamq,
                 mainVars, session, terminated>>

(* Mutant of RecvFrame: the thread announces its end before it disables. *)
RecvFrame_AnnouncesFirst ==
  /\ pc["tx"] = "wait"
  /\ streamq # <<>>
  /\ LET fits == frameSize["tx"] \in 0..Head(streamq) IN
       /\ Goto("tx", IF fits THEN "xfer" ELSE "disable")
       /\ thread_active' = [thread_active EXCEPT !["tx"] = fits]
  /\ streamq' = Tail(streamq)
  /\ UNCHANGED <<cancelled, handle, deviceVars, sizeVars, frameSize, mainVars, session, terminated>>

(* streamTX: recv truncates a datagram that is too long.  One that is too short
   ends the loop, and no count that recv returns equals a negative size. *)
RecvFrame ==
  /\ pc["tx"] = "wait"
  /\ streamq # <<>>
  /\ Goto("tx", IF frameSize["tx"] \in 0..Head(streamq) THEN "xfer" ELSE "disable")
  /\ streamq' = Tail(streamq)
  /\ UNCHANGED <<thread_active, cancelled, handle, deviceVars, sizeVars, frameSize, mainVars,
                 session, terminated>>

(* The datagram is sent (rx) or the buffer pushed (tx); the loop goes on while
   the flag is set.  sendto fails for a size that no datagram has. *)
Transfer(d) ==
  /\ pc[d] = "xfer"
  /\ LET sent == d = "rx" => frameSize[d] \in 0..MaxPayload IN
       Goto(d, IF sent /\ thread_active[d] THEN "wait" ELSE "disable")
  /\ UNCHANGED <<thread_active, cancelled, handle, deviceVars, sizeVars, frameSize, streamq,
                 mainVars, session, terminated>>

(* refill, recv, sendto or push fails: the catch block leaves the loop.  recv may
   fail at once for a negative size. *)
TransferFails(d) ==
  /\ pc[d] \in {"wait", "xfer"}
  /\ "io" \in env.faults \/ (d = "tx" /\ pc[d] = "wait" /\ frameSize[d] < 0)
  /\ Goto(d, "disable")
  /\ UNCHANGED <<thread_active, cancelled, handle, deviceVars, sizeVars, frameSize, streamq,
                 mainVars, session, terminated>>

(* disableChannels, as the streaming thread runs it: the buffer is cancelled
   and destroyed, then the pointer cleared, then the channels disabled. *)
DestroyBuffer(d) ==
  /\ pc[d] = "disable"
  /\ iiobuf' = [iiobuf EXCEPT ![d] = IF @ = "null" THEN "null" ELSE "destroyed"]
  /\ Goto(d, "nulling")
  /\ UNCHANGED <<thread_active, cancelled, handle, bufSizeByte, channels, isStreaming, sizeVars,
                 frameSize, streamq, mainVars, session, terminated>>

(* Mutant of NullBuffer: the pointer to the destroyed buffer stays. *)
NullBuffer_KeepsPointer(d) ==
  /\ pc[d] = "nulling"
  /\ Goto(d, "unchannel")
  /\ UNCHANGED <<thread_active, cancelled, handle, deviceVars, sizeVars, frameSize, streamq,
                 mainVars, session, terminated>>

NullBuffer(d) ==
  /\ pc[d] = "nulling"
  /\ iiobuf' = [iiobuf EXCEPT ![d] = "null"]
  /\ bufSizeByte' = [bufSizeByte EXCEPT ![d] = 0]
  /\ Goto(d, "unchannel")
  /\ UNCHANGED <<thread_active, cancelled, handle, channels, isStreaming, sizeVars, frameSize,
                 streamq, mainVars, session, terminated>>

(* Mutant of DisableChannels: rxIsStreaming is not reset. *)
DisableChannels_NoReset(d) ==
  /\ pc[d] = "unchannel"
  /\ channels' = [channels EXCEPT ![d] = FALSE]
  /\ Goto(d, "announce")
  /\ UNCHANGED <<thread_active, cancelled, handle, iiobuf, bufSizeByte, isStreaming, sizeVars,
                 frameSize, streamq, mainVars, session, terminated>>

DisableChannels(d) ==
  /\ pc[d] = "unchannel"
  /\ channels' = [channels EXCEPT ![d] = FALSE]
  /\ isStreaming' = [isStreaming EXCEPT ![d] = FALSE]
  /\ Goto(d, "announce")
  /\ UNCHANGED <<thread_active, cancelled, handle, iiobuf, bufSizeByte, sizeVars, frameSize,
                 streamq, mainVars, session, terminated>>

(* Mutant of Announce: the flag is not cleared. *)
Announce_NoClear(d) ==
  /\ pc[d] = "announce"
  /\ Exit(d)
  /\ UNCHANGED <<thread_active, cancelled, handle, deviceVars, sizeVars, streamq, mainVars,
                 session, terminated>>

Announce(d) ==
  /\ pc[d] = "announce"
  /\ thread_active' = [thread_active EXCEPT ![d] = FALSE]
  /\ Exit(d)
  /\ UNCHANGED <<cancelled, handle, deviceVars, sizeVars, streamq, mainVars, session, terminated>>

(* A pending cancellation acts at a cancellation point; the thread leaves the
   flag and the device as they are. *)
ActOnCancel(d) ==
  /\ cancelled[d]
  /\ pc[d] \in CancelPoints
  /\ Exit(d)
  /\ UNCHANGED <<thread_active, cancelled, handle, deviceVars, sizeVars, streamq, mainVars,
                 session, terminated>>

-----------------------------------------------------------------------------
(* The main thread.  Commands of the driver come in the order of
   UDPClient::initProcedure: init, the rx size, the tx size, then the rest; a new
   host process may start over at any time. *)

HostIs(s) == env.host = "any" \/ session = s
HostBecomes(s) == session' = IF env.host = "any" THEN session ELSE s

(* pthread_create may give the new thread the pthread_t of a thread that was
   joined, which the other direction's handle may still hold; and that handle may
   hold the one of this direction's last thread, which ended and was not joined. *)
NewHandle(d, reused) ==
  [e \in Dirs |-> IF e = d \/ (handle[e] = "nobody" /\ reused) THEN d
                  ELSE IF handle[e] = d THEN "ended" ELSE handle[e]]

(* Mutant of Start: both branches store the thread in rx_thread. *)
Start_OneHandle(d) ==
  /\ mainAt = "recv"
  /\ HostIs("ready")
  /\ ~thread_active[d]
  /\ thread_active' = [thread_active EXCEPT ![d] = TRUE]
  /\ Goto(d, "created")
  /\ cancelled' = [cancelled EXCEPT ![d] = FALSE]
  /\ handle' = [handle EXCEPT !["rx"] = d]
  /\ UNCHANGED <<deviceVars, sizeVars, frameSize, streamq, mainVars, session, terminated>>

Start(d) ==
  /\ mainAt = "recv"
  /\ HostIs("ready")
  /\ ~thread_active[d]
  /\ thread_active' = [thread_active EXCEPT ![d] = TRUE]
  /\ Goto(d, "created")
  /\ cancelled' = [cancelled EXCEPT ![d] = FALSE]
  /\ \E reused \in BOOLEAN : handle' = NewHandle(d, reused)
  /\ UNCHANGED <<deviceVars, sizeVars, frameSize, streamq, mainVars, session, terminated>>

(* pthread_create fails after the flag was stored and before the handle is: an
   error reply. *)
StartFails(d) ==
  /\ "thread_create" \in env.faults
  /\ mainAt = "recv"
  /\ HostIs("ready")
  /\ ~thread_active[d]
  /\ thread_active' = [thread_active EXCEPT ![d] = TRUE]
  /\ UNCHANGED <<pc, cancelled, handle, deviceVars, sizeVars, frameSize, streamq, mainVars,
                 session, terminated>>

StopCommand(d) ==
  /\ mainAt = "recv"
  /\ HostIs("ready")
  /\ mainAt' = "check" /\ mainOp' = "stop" /\ mainDir' = d
  /\ UNCHANGED <<threadVars, deviceVars, sizeVars, frameSize, streamq, session, terminated>>

(* initClient stops both directions, rx first. *)
InitCommand ==
  /\ mainAt = "recv"
  /\ mainAt' = "check" /\ mainOp' = "init" /\ mainDir' = "rx"
  /\ HostBecomes("init")
  /\ UNCHANGED <<threadVars, deviceVars, sizeVars, frameSize, streamq, terminated>>

(* Mutant of StopCheck: the thread is joined without being cancelled. *)
StopCheck_NoCancel ==
  /\ mainAt = "check"
  /\ mainAt' = IF thread_active[mainDir] THEN "join" ELSE "disable"
  /\ UNCHANGED <<threadVars, deviceVars, sizeVars, frameSize, streamq, mainOp, mainDir,
                 session, terminated>>

(* stop: if the flag says that there is a thread, cancel the one that the handle
   names. *)
StopCheck ==
  /\ mainAt = "check"
  /\ \/ /\ thread_active[mainDir]
        /\ cancelled' = [d \in Dirs |-> cancelled[d] \/ handle[mainDir] = d]
        /\ mainAt' = "join"
     \/ /\ ~thread_active[mainDir]
        /\ mainAt' = "disable"
        /\ UNCHANGED cancelled
  /\ UNCHANGED <<thread_active, pc, handle, deviceVars, sizeVars, frameSize, streamq, mainOp,
                 mainDir, session, terminated>>

(* pthread_cancel and pthread_join of a thread that was joined are undefined: they
   do nothing, as StopCheck and StopJoin have it, or take the process down. *)
StopUndefined ==
  /\ mainAt = "join" \/ (mainAt = "check" /\ thread_active[mainDir])
  /\ handle[mainDir] = "nobody"
  /\ terminated' = TRUE
  /\ UNCHANGED <<threadVars, deviceVars, sizeVars, frameSize, streamq, mainVars, session>>

(* Mutant of StopJoin: the flag stays set. *)
StopJoin_KeepsFlag ==
  /\ mainAt = "join"
  /\ \A d \in Dirs : handle[mainDir] = d => pc[d] \in Gone
  /\ pc' = [d \in Dirs |-> IF handle[mainDir] = d THEN "none" ELSE pc[d]]
  /\ cancelled' = [d \in Dirs |-> cancelled[d] /\ handle[mainDir] # d]
  /\ handle' = [d \in Dirs |-> IF handle[d] = handle[mainDir] THEN "nobody" ELSE handle[d]]
  /\ mainAt' = "disable"
  /\ UNCHANGED <<thread_active, deviceVars, sizeVars, frameSize, streamq, mainOp, mainDir,
                 session, terminated>>

(* The thread that the handle names is joined; no handle names it any more. *)
StopJoin ==
  /\ mainAt = "join"
  /\ \A d \in Dirs : handle[mainDir] = d => pc[d] \in Gone
  /\ pc' = [d \in Dirs |-> IF handle[mainDir] = d THEN "none" ELSE pc[d]]
  /\ cancelled' = [d \in Dirs |-> cancelled[d] /\ handle[mainDir] # d]
  /\ handle' = [d \in Dirs |-> IF handle[d] = handle[mainDir] THEN "nobody" ELSE handle[d]]
  /\ thread_active' = [thread_active EXCEPT ![mainDir] = FALSE]
  /\ mainAt' = "disable"
  /\ UNCHANGED <<deviceVars, sizeVars, frameSize, streamq, mainOp, mainDir, session,
                 terminated>>

(* Mutant of StopDisable: initClient stops only the rx direction. *)
StopDisable_OnlyRx ==
  /\ mainAt = "disable"
  /\ iiobuf' = [iiobuf EXCEPT ![mainDir] = "null"]
  /\ bufSizeByte' = [bufSizeByte EXCEPT ![mainDir] = 0]
  /\ channels' = [channels EXCEPT ![mainDir] = FALSE]
  /\ isStreaming' = [isStreaming EXCEPT ![mainDir] = FALSE]
  /\ mainAt' = IF mainOp = "stop" THEN "recv" ELSE "reset"
  /\ UNCHANGED <<threadVars, sizeVars, frameSize, streamq, mainOp, mainDir,
                 session, terminated>>

(* disableChannels, as stop runs it. *)
StopDisable ==
  /\ mainAt = "disable"
  /\ iiobuf' = [iiobuf EXCEPT ![mainDir] = "null"]
  /\ bufSizeByte' = [bufSizeByte EXCEPT ![mainDir] = 0]
  /\ channels' = [channels EXCEPT ![mainDir] = FALSE]
  /\ isStreaming' = [isStreaming EXCEPT ![mainDir] = FALSE]
  /\ \/ /\ mainOp = "stop"
        /\ mainAt' = "recv"
        /\ UNCHANGED mainDir
     \/ /\ mainOp = "init"
        /\ mainDir = "rx"
        /\ mainAt' = "check"
        /\ mainDir' = "tx"
     \/ /\ mainOp = "init"
        /\ mainDir = "tx"
        /\ mainAt' = "reset"
        /\ UNCHANGED mainDir
  /\ UNCHANGED <<threadVars, sizeVars, frameSize, streamq, mainOp, session,
                 terminated>>

(* disableChannels destroys a buffer that the cancelled thread has destroyed
   already: undefined, nothing (StopDisable) or the end of the process. *)
StopDestroysTwice ==
  /\ mainAt = "disable"
  /\ iiobuf[mainDir] = "destroyed"
  /\ terminated' = TRUE
  /\ UNCHANGED <<threadVars, deviceVars, sizeVars, frameSize, streamq, mainVars, session>>

(* initClient: the server's sizes are reset, the device's are not. *)
InitReset ==
  /\ mainAt = "reset"
  /\ streamSizeByte' = [d \in Dirs |-> DUMMYBUF_SIZE_BYTE]
  /\ mainAt' = "dummy"
  /\ UNCHANGED <<threadVars, deviceVars, bufferSizeSample, frameSize, streamq, mainOp,
                 mainDir, session, terminated>>

(* initClient: any datagram completes it. *)
InitDummy ==
  /\ mainAt = "dummy"
  /\ streamq # <<>>
  /\ streamq' = Tail(streamq)
  /\ mainAt' = "recv"
  /\ HostBecomes("rx")
  /\ UNCHANGED <<threadVars, deviceVars, sizeVars, frameSize, mainOp, mainDir, terminated>>

(* Mutant of SetBufferSize: the server does not refuse a size. *)
SetBufferSize_NoLimit(d, val) ==
  /\ mainAt = "recv"
  /\ HostIs(d)
  /\ bufferSizeSample' = [bufferSizeSample EXCEPT ![d] = Narrow(Samples(val))]
  /\ streamSizeByte' = [streamSizeByte EXCEPT ![d] = Narrow(val)]
  /\ HostBecomes(IF d = "rx" THEN "tx" ELSE "ready")
  /\ UNCHANGED <<threadVars, deviceVars, frameSize, streamq, mainVars, terminated>>

(* Mutant of SetBufferSize: the server's rx size is set for the device's rx. *)
SetBufferSize_NotSwapped(d, val) ==
  /\ mainAt = "recv"
  /\ HostIs(d)
  /\ bufferSizeSample' = [bufferSizeSample EXCEPT ![d] = Narrow(Samples(val))]
  /\ streamSizeByte' = [e \in Dirs |-> IF e = d THEN streamSizeByte[e] ELSE Narrow(val)]
  /\ HostBecomes(IF d = "rx" THEN "tx" ELSE "ready")
  /\ UNCHANGED <<threadVars, deviceVars, frameSize, streamq, mainVars, terminated>>

(* The driver asks for whole samples, an int, and refuses itself what the server
   would. *)
DriverAsksFor(val) == val \in IntValues /\ val <= MaxSize /\ val % 4 = 0

(* "set buffersize": a long long, narrowed to the int that the device and the
   server take.  The device's size is set before the server's refuses one that is
   too large; no other is refused.  The guards on rxdev and txdev test pointers
   that nothing assigns. *)
SetBufferSize(d, val) ==
  /\ mainAt = "recv"
  /\ HostIs(d)
  /\ env.host = "driver" => DriverAsksFor(val)
  /\ bufferSizeSample' = [bufferSizeSample EXCEPT ![d] = Narrow(Samples(val))]
  /\ \/ /\ Narrow(val) <= MaxSize
        /\ streamSizeByte' = [streamSizeByte EXCEPT ![d] = Narrow(val)]
        /\ HostBecomes(IF d = "rx" THEN "tx" ELSE "ready")
     \/ /\ Narrow(val) > MaxSize
        /\ UNCHANGED <<streamSizeByte, session>>
  /\ UNCHANGED <<threadVars, deviceVars, frameSize, streamq, mainVars, terminated>>

(* The network delivers a datagram to the stream socket: the dummy once the host
   has its ack, then frames of the size it has set; anything of any
   host. *)
FrameArrives(size) ==
  /\ Len(streamq) < MaxFrames
  /\ \/ env.host = "any"
     \/ session = "init" /\ mainAt = "dummy" /\ size = DUMMYBUF_SIZE_BYTE
     \/ session = "ready" /\ size = streamSizeByte["tx"]
  /\ streamq' = Append(streamq, size)
  /\ UNCHANGED <<threadVars, deviceVars, sizeVars, frameSize, mainVars, session, terminated>>

-----------------------------------------------------------------------------
ThreadStep(d) ==
  \/ Prologue(d) \/ EnableChannels(d) \/ CreateBuffer(d) \/ Snapshot(d)
  \/ (d = "rx" /\ Refill) \/ (d = "tx" /\ RecvFrame) \/ Transfer(d)
  \/ DestroyBuffer(d) \/ NullBuffer(d) \/ DisableChannels(d) \/ Announce(d)

ThreadFault(d) == CreateBufferFails(d) \/ TransferFails(d)

MainStep ==
  \/ StopCheck \/ StopJoin \/ StopUndefined \/ StopDisable \/ StopDestroysTwice
  \/ InitReset \/ InitDummy

Command ==
  \/ \E d \in Dirs : Start(d) \/ StartFails(d) \/ StopCommand(d)
  \/ \E d \in Dirs, val \in env.sizes : SetBufferSize(d, val)
  \/ InitCommand

Datagrams == (env.sizes \cup {DUMMYBUF_SIZE_BYTE}) \cap 0..MaxPayload

(* The environment does not change, and nothing happens after the process has
   ended. *)
Next ==
  /\ UNCHANGED env
  /\ \/ /\ ~terminated
        /\ \/ \E d \in Dirs : ThreadStep(d) \/ ThreadFault(d) \/ ActOnCancel(d)
           \/ MainStep
           \/ Command
           \/ \E size \in Datagrams : FrameArrives(size)
     \/ terminated /\ UNCHANGED vars

(* The streaming threads run under SCHED_FIFO and the main thread is never
   preempted for good; commands, datagrams and faults come when they like.  A
   pending cancellation is not put off for ever by a thread that keeps passing
   cancellation points. *)
Runs(A) == ~terminated /\ A /\ UNCHANGED env

Fairness ==
  /\ WF_vars(Runs(MainStep))
  /\ \A d \in Dirs : WF_vars(Runs(ThreadStep(d)))
  /\ \A d \in Dirs : WF_vars(Runs(ActOnCancel(d)))

Spec == Init /\ [][Next]_vars
FairSpec == Spec /\ Fairness

-----------------------------------------------------------------------------
TypeOK ==
  /\ env \in Environments
  /\ thread_active \in [Dirs -> BOOLEAN]
  /\ pc \in [Dirs -> ThreadPC]
  /\ cancelled \in [Dirs -> BOOLEAN]
  /\ handle \in [Dirs -> Dirs \cup {"ended", "nobody"}]
  /\ iiobuf \in [Dirs -> {"null", "live", "destroyed"}]
  /\ bufSizeByte \in [Dirs -> Nat]
  /\ channels \in [Dirs -> BOOLEAN]
  /\ isStreaming \in [Dirs -> BOOLEAN]
  /\ bufferSizeSample \in [Dirs -> IntValues]
  /\ streamSizeByte \in [Dirs -> ServerSizes]
  /\ frameSize \in [Dirs -> ServerSizes]
  /\ streamq \in Seq(0..MaxPayload)
  /\ mainAt \in {"recv", "check", "join", "disable", "reset", "dummy"}
  /\ mainOp \in {"stop", "init"}
  /\ mainDir \in Dirs
  /\ session \in {"closed", "init", "rx", "tx", "ready"}
  /\ terminated \in BOOLEAN

(***************************************************************************)
(* enableChannels never finds its direction streaming already: its         *)
(* exception ("Enabling rx channel again, disable first") is thrown        *)
(* outside the thread's try block and would take the whole server down.    *)
(* The thread disables the device before it clears its flag, and stop      *)
(* joins it and disables the device again, so that no start finds a device *)
(* left over.                                                              *)
(***************************************************************************)
EnableNeverThrows == \A d \in Dirs : pc[d] = "enable" => ~isStreaming[d]

(***************************************************************************)
(* disableChannels runs in one thread at a time: when stop (or initClient) *)
(* disables a direction in the main thread, the streaming thread of that   *)
(* direction no longer runs.                                               *)
(***************************************************************************)
DisableExclusive == mainAt = "disable" => pc[mainDir] \in Gone

(***************************************************************************)
(* A streaming thread never hands a destroyed buffer to libiio, nor does a *)
(* new stream reuse one: the pointer of IIODevice outlives its buffer only *)
(* while the thread that destroyed it is about to clear it.  The exception *)
(* is a cancellation that acts between the two, which libiio would have to *)
(* allow: then the pointer is left to the stop that clears the flag, and   *)
(* only that disableChannels can meet it, never a thread or a start.       *)
(***************************************************************************)
NoUseAfterDestroy ==
  \A d \in Dirs : iiobuf[d] = "destroyed" =>
    \/ pc[d] = "nulling"
    \/ /\ "cancel_in_libiio" \in env.faults
       /\ pc[d] \in Gone
       /\ thread_active[d] \/ (mainAt = "disable" /\ mainDir = d)

(***************************************************************************)
(* initClient waits for the dummy with both directions at rest: no         *)
(* streaming thread is left that could take the datagram from the shared   *)
(* stream socket or send to the address being replaced, and the device is  *)
(* disabled.                                                               *)
(***************************************************************************)
AtRest(d) == pc[d] \in Gone /\ iiobuf[d] = "null" /\ ~isStreaming[d] /\ ~channels[d]
InitQuiesces == mainAt \in {"reset", "dummy"} => \A d \in Dirs : AtRest(d)

(***************************************************************************)
(* A stream moves whole IIO buffers: the size the thread sends or receives *)
(* is the size of the buffer it was given, neither larger (memory beyond   *)
(* the buffer) nor smaller (the tail with the metadata is lost).           *)
(***************************************************************************)
FrameIsWholeBuffer ==
  env.host = "driver" =>
    \A d \in Dirs : pc[d] \in {"wait", "xfer"} => frameSize[d] = bufSizeByte[d]

(***************************************************************************)
(* While the main thread waits for a command, a direction whose flag is    *)
(* set has a thread: start's "Check if RX is active" then answers "done"   *)
(* for a stream that exists.  Only a failed pthread_create breaks it: it   *)
(* leaves the flag set without a thread, and the stop that clears it may   *)
(* cancel the other direction's thread.                                    *)
(***************************************************************************)
ActiveMeansThread ==
  "thread_create" \notin env.faults /\ mainAt = "recv" =>
    \A d \in Dirs : thread_active[d] => pc[d] \notin Gone

(***************************************************************************)
(* stop cancels and joins the thread of its own direction, although the    *)
(* handle it uses is never reset and pthread_create gives the values of    *)
(* joined threads to new ones.  After a failed pthread_create the handle   *)
(* is stale while the flag is set, and may name the other direction's      *)
(* thread; even then a direction that has a thread is stopped by its own   *)
(* handle.                                                                 *)
(***************************************************************************)
StopHitsOwnThread ==
  mainAt = "join" =>
    \/ handle[mainDir] = mainDir
    \/ "thread_create" \in env.faults /\ pc[mainDir] \in Gone

(***************************************************************************)
(* stop and initClient never wait for ever in pthread_join: a thread that  *)
(* is blocked in refill or recv is cancelled there, and one that is past   *)
(* its last cancellation point ends by itself.                             *)
(***************************************************************************)
StopCompletes == (mainAt = "check") ~> (mainAt \in {"recv", "dummy"} \/ terminated)

(***************************************************************************)
(* A stream that fails is announced: the flag of a thread that left its    *)
(* loop is cleared in the end, so that a later start starts a new one;     *)
(* unless a stop of the other direction cancelled it (see above).          *)
(***************************************************************************)
FailureAnnounced ==
  \A d \in Dirs : ("thread_create" \notin env.faults /\ pc[d] = "disable")
                    ~> (~thread_active[d] \/ terminated)

-----------------------------------------------------------------------------
(***************************************************************************)
(* The inductive invariants the theorems of ControllerProofs rest on.      *)
(***************************************************************************)

Off(d) == iiobuf[d] = "null" /\ ~isStreaming[d] /\ ~channels[d]

(* A running thread has its flag set ... *)
RunningIsActive == \A d \in Dirs : pc[d] \notin Gone => thread_active[d]

(* ... finds the device off when it starts, and leaves it off when it ends. *)
ThreadOwnsDevice ==
  \A d \in Dirs :
    /\ pc[d] \in {"created", "enable", "creating"} => iiobuf[d] = "null" /\ ~isStreaming[d]
    /\ pc[d] = "unchannel" => iiobuf[d] = "null"
    /\ pc[d] = "announce" => Off(d)

(* Without a thread or a flag the device is off, unless stop is about to turn it
   off. *)
GoneMeansOff ==
  \A d \in Dirs :
    pc[d] \in Gone /\ ~thread_active[d] => Off(d) \/ (mainDir = d /\ mainAt = "disable")

(* A running thread is named by its own handle, and a joined one by none. *)
HandleNamesThread ==
  \A d \in Dirs :
    /\ pc[d] \notin Gone => handle[d] = d
    /\ pc[d] = "none" => \A e \in Dirs : handle[e] # d

(* Only the thread that stop is joining is cancelled. *)
CancelledIsJoined ==
  \A d \in Dirs : cancelled[d] => mainAt = "join" /\ handle[mainDir] = d

DisableAfterThread ==
  mainAt = "disable" => pc[mainDir] \in Gone /\ ~thread_active[mainDir]

(* initClient has rx at rest when it stops tx, and both after that. *)
InitInOrder ==
  /\ mainAt \in {"reset", "dummy"} => mainOp = "init" /\ AtRest("rx") /\ AtRest("tx")
  /\ mainOp = "init" /\ mainAt # "recv" /\ mainDir = "tx" => AtRest("rx")

(* Without a failed pthread_create a flag that is set has its own handle, and a
   thread unless stop is joining that. *)
FlagInv ==
  "thread_create" \notin env.faults =>
    \A d \in Dirs :
      /\ thread_active[d] \/ (mainAt = "join" /\ mainDir = d) => handle[d] = d
      /\ thread_active[d] /\ pc[d] \in Gone => mainAt = "join" /\ mainDir = d

ControlInv ==
  /\ RunningIsActive
  /\ ThreadOwnsDevice
  /\ GoneMeansOff
  /\ HandleNamesThread
  /\ FlagInv
  /\ CancelledIsJoined
  /\ DisableAfterThread
  /\ InitInOrder

SizesAgree(d) == streamSizeByte[d] = 4 * bufferSizeSample[d]

(* The driver sets sizes only while both directions are at rest, and starts a
   direction only when both have been set. *)
SizeInv ==
  env.host = "driver" =>
    /\ session = "init" <=> mainOp = "init" /\ mainAt # "recv"
    /\ session \in {"rx", "tx", "closed"} => mainAt = "recv" /\ \A d \in Dirs : pc[d] \in Gone
    /\ session = "tx" => SizesAgree("rx")
    /\ session = "ready" => SizesAgree("rx") /\ SizesAgree("tx")
    /\ \A d \in Dirs :
         /\ pc[d] \notin Gone => SizesAgree(d)
         /\ pc[d] \in {"snapshot", "wait", "xfer"} => bufSizeByte[d] = 4 * bufferSizeSample[d]
         /\ pc[d] \in {"wait", "xfer"} => frameSize[d] = streamSizeByte[d]

=============================================================================
