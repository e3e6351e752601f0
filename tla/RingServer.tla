----------------------------- MODULE RingServer -----------------------------
(***************************************************************************)
(* The older board program, board/iio-udp-circullar.  A receiving thread   *)
(* of UDPServer puts the host's frames into a ring, from which streamTX    *)
(* copies them to the radio; nothing but the two frame counts, of which    *)
(* each thread writes one, relates the two.  Each streaming thread makes   *)
(* and deletes a device object of its own, and stop cleans up after it.    *)
(*                                                                         *)
(* The model starts when UDPServer's constructor has returned.  All hosts  *)
(* use one frame size, and send it as well as they ask for it: the code    *)
(* relates the host's receive size to the frames the board receives.       *)
(***************************************************************************)
EXTENDS Integers, Sequences

CONSTANTS
  Slots,      \* rxCBufferSize
  InitSize,   \* the frame size main gives the server
  HostSize,   \* the one the hosts set and send
  OtherSize,  \* that of a stray frame
  Threads,    \* values a pthread_t can take
  MaxFrames,  \* bound on the frames sent
  MaxInits, MaxStarts  \* bounds on the init and start commands

D == {"RX", "TX"}
T == D \cup {"recv"}                \* rx_thread, tx_thread, rxThread
None == "none"

ASSUME RingAssumption ==
  /\ Slots \in Nat \ {0}
  /\ HostSize \in Nat \ {0} /\ InitSize \in Nat /\ HostSize <= InitSize
  /\ OtherSize \in Nat \ {HostSize}
  /\ None \notin Threads
  /\ MaxFrames \in Nat /\ MaxInits \in Nat /\ MaxStarts \in Nat

VARIABLES
  ring,              \* rxCBuffer: each slot's halves, by the frame they are of
  log,               \* the frames counted, in order
  recv_fr_count, sendout_fr_count,
  slot, rlen,        \* what the blocked recv was called with
  txbuf,             \* the frame streamTX copies, by halves
  size,              \* rxBufferSizeByte, txBufferSizeByte of the server
  active, dev,       \* rx_thread_active, rxdev and their TX twins
  pc, cancelled,     \* of each thread
  tid, handle,       \* the pthread_t it has, and the variable that named it
  leaked,            \* those of threads ended, not joined and forgotten
  running,           \* rxThreadRunning
  work,              \* what main and a failed receiver still have to do
  host,              \* how far the host is: it sets the sizes after its init
  closed, up,        \* the sockets are closed; the program runs
  frames, inits, starts  \* so far

data == <<ring, log, recv_fr_count, sendout_fr_count, slot, rlen, txbuf, frames>>
threads == <<pc, cancelled, tid, handle, leaked>>
ctl == <<active, dev, running>>
bounds == <<inits, starts>>
vars == <<data, size, threads, ctl, work, host, closed, up, bounds>>

Gone == {"none", "ended"}
Halves == 1..2
Fresh == [half \in Halves |-> 0]     \* no frame of a host

Goto(x, to) == pc' = [pc EXCEPT ![x] = to]

-----------------------------------------------------------------------------
(***************************************************************************)
(* pthread_create, pthread_cancel, pthread_join.  A thread may get the     *)
(* pthread_t of one that was joined; the code goes on using such values.   *)
(* Cancelling or joining a value that no thread has does nothing.          *)
(***************************************************************************)
Free == Threads \ (leaked \cup {tid[x] : x \in T})

(* A value a variable still names, or any other: those are alike. *)
Offered == LET other == Free \ {handle[x] : x \in T}
           IN  (Free \ other) \cup (IF other = {} THEN {} ELSE {CHOOSE t \in other : TRUE})

Create(x, start) ==
  \E t \in Offered :
    /\ tid' = [tid EXCEPT ![x] = t] /\ handle' = [handle EXCEPT ![x] = t]
    /\ leaked' = leaked \cup ({tid[x]} \ {None})
    /\ Goto(x, start) /\ cancelled' = [cancelled EXCEPT ![x] = FALSE]

Named(x) == {y \in T : tid[y] # None /\ tid[y] = handle[x]}

Cancel(x) == cancelled' = [y \in T |-> cancelled[y] \/ y \in Named(x)]

Joinable(x) == \A y \in Named(x) : pc[y] = "ended"
Join(x) == tid' = [y \in T |-> IF y \in Named(x) THEN None ELSE tid[y]]

(***************************************************************************)
(* A pending cancellation acts at the calls that block, and may act at     *)
(* those that print, which write to the terminal at times only.            *)
(***************************************************************************)
CancelPoints == {"construct", "enable", "xfer", "wait", "push", "disable", "recv", "count"}

Die(x) ==
  /\ up /\ cancelled[x] /\ pc[x] \in CancelPoints
  /\ Goto(x, "ended")
  /\ UNCHANGED <<data, size, cancelled, tid, handle, leaked, ctl, work, host, closed, up, bounds>>

(* A destructor may not be unwound: the program is terminated. *)
DieInDestructor(d) ==
  /\ up /\ cancelled[d] /\ pc[d] = "delete"
  /\ up' = FALSE
  /\ UNCHANGED <<data, size, threads, ctl, work, host, closed, bounds>>

-----------------------------------------------------------------------------
(* UDPServer::receiveStreamBufferCon *)

Stop(d) == << <<"clear", d>>, <<"cancel", d>>, <<"join", d>>, <<"free", d>>, <<"null", d>> >>

(* The thread leaves its loop: it stops the streams and closes the sockets. *)
Fail ==
  /\ Goto("recv", "failed")
  /\ work' = [work EXCEPT !["recv"] = Stop("RX") \o Stop("TX") \o << <<"close", "recv">> >>]

(* Mutant of RecvCall: the slot is the count, without the modulo. *)
RecvCall_NoWrap ==
  /\ up /\ pc["recv"] = "loop" /\ running
  /\ slot' = recv_fr_count /\ rlen' = size.rx
  /\ Goto("recv", "recv")
  /\ UNCHANGED <<ring, log, recv_fr_count, sendout_fr_count, txbuf, frames, size,
                 cancelled, tid, handle, leaked, ctl, work, host, closed, up, bounds>>

(* slot and length are computed, then recv blocks. *)
RecvCall ==
  /\ up /\ pc["recv"] = "loop"
  /\ IF running
     THEN /\ slot' = recv_fr_count % Slots /\ rlen' = size.rx
          /\ Goto("recv", "recv") /\ UNCHANGED work
     ELSE Fail /\ UNCHANGED <<slot, rlen>>
  /\ UNCHANGED <<ring, log, recv_fr_count, sendout_fr_count, txbuf, frames, size,
                 cancelled, tid, handle, leaked, ctl, host, closed, up, bounds>>

(* A frame arrives; the reader may see the slot when it is half written. *)
RecvFirst ==
  /\ up /\ pc["recv"] = "recv" /\ ~cancelled["recv"] /\ host = "ready" /\ frames < MaxFrames
  /\ frames' = frames + 1
  /\ ring' = [ring EXCEPT ![slot][1] = frames']
  /\ Goto("recv", "fill")
  /\ UNCHANGED <<log, recv_fr_count, sendout_fr_count, slot, rlen, txbuf, size,
                 cancelled, tid, handle, leaked, ctl, work, host, closed, up, bounds>>

(* What recv returns is compared with the size, as it is now. *)
RecvRest ==
  /\ up /\ pc["recv"] = "fill"
  /\ ring' = [ring EXCEPT ![slot][2] = frames]
  /\ \E len \in {HostSize, OtherSize} :
       IF size.rx = IF len < rlen THEN len ELSE rlen
       THEN Goto("recv", "count") /\ UNCHANGED work
       ELSE Fail
  /\ UNCHANGED <<log, recv_fr_count, sendout_fr_count, slot, rlen, txbuf, frames, size,
                 cancelled, tid, handle, leaked, ctl, host, closed, up, bounds>>

RecvCount ==
  /\ up /\ pc["recv"] = "count"
  /\ log' = Append(log, frames) /\ recv_fr_count' = recv_fr_count + 1
  /\ Goto("recv", "loop")
  /\ UNCHANGED <<ring, sendout_fr_count, slot, rlen, txbuf, frames, size,
                 cancelled, tid, handle, leaked, ctl, work, host, closed, up, bounds>>

-----------------------------------------------------------------------------
(* Controller::streamRX, streamTX *)

StillThreads == UNCHANGED <<cancelled, tid, handle, leaked, work, host, closed, bounds>>

(* The thread sets the flag that start has set before it. *)
Begin(d) ==
  /\ up /\ pc[d] = "begin" /\ Goto(d, "construct")
  /\ active' = [active EXCEPT ![d] = TRUE]
  /\ UNCHANGED <<data, size, dev, running, up>> /\ StillThreads

(* A step of the thread that changes its device. *)
Device(d, from, to, state) ==
  /\ up /\ pc[d] = from /\ Goto(d, to)
  /\ dev' = [dev EXCEPT ![d] = state]
  /\ UNCHANGED <<data, size, active, running, up>> /\ StillThreads

Construct(d)      == Device(d, "construct", "enable", "made")
EnableChannels(d) == Device(d, "enable", "check", "buffer")

(* Outside the try block: an error ends the program. *)
EnableFails(d) ==
  /\ up /\ pc[d] \in {"construct", "enable"}
  /\ up' = FALSE
  /\ UNCHANGED <<data, size, pc, ctl>> /\ StillThreads

(* A step of the thread that changes nothing but its place. *)
Move(d, from, to) ==
  /\ up /\ pc[d] = from /\ Goto(d, to)
  /\ UNCHANGED <<data, size, ctl, up>> /\ StillThreads

(* Mutant of Check: the flag is cleared as the loop is left. *)
Check_Announces(d) ==
  /\ up /\ pc[d] = "check"
  /\ Goto(d, IF ~active[d] \/ d = "RX" THEN "disable" ELSE "wait")
  /\ active' = [active EXCEPT ![d] = d # "RX"]
  /\ UNCHANGED <<data, size, dev, running, up>> /\ StillThreads

Check(d) == Move(d, "check", IF ~active[d] THEN "disable" ELSE IF d = "RX" THEN "xfer" ELSE "wait")

ReceiveAndSend == ~cancelled["RX"] /\ Move("RX", "xfer", "check")
PushBuffer == ~cancelled["TX"] /\ Move("TX", "push", "check")

(* A failed refill, sendto or push leaves the loop. *)
TransferFails(d) == Move(d, IF d = "RX" THEN "xfer" ELSE "push", "disable")

(* UDPServer::receiveStreamBuffer waits for a frame, copies and counts it. *)
FrameWaiting == recv_fr_count # sendout_fr_count /\ Move("TX", "wait", "first")

(* Mutant of CopyHalf: the frame is counted before it is copied. *)
CopyHalf_CountFirst(half, from, to) ==
  /\ up /\ pc["TX"] = from /\ Goto("TX", to)
  /\ txbuf' = [txbuf EXCEPT ![half] = ring[(sendout_fr_count + 1) % Slots][half]]
  /\ UNCHANGED <<ring, log, recv_fr_count, sendout_fr_count, slot, rlen, frames, size, ctl, up>>
  /\ StillThreads

CopyHalf(half, from, to) ==
  /\ up /\ pc["TX"] = from /\ Goto("TX", to)
  /\ txbuf' = [txbuf EXCEPT ![half] = ring[sendout_fr_count % Slots][half]]
  /\ UNCHANGED <<ring, log, recv_fr_count, sendout_fr_count, slot, rlen, frames, size, ctl, up>>
  /\ StillThreads

CopyFirst == CopyHalf(1, "first", "rest")
CopyRest  == CopyHalf(2, "rest", "copied")

CountSent ==
  /\ up /\ pc["TX"] = "copied" /\ Goto("TX", "push")
  /\ sendout_fr_count' = sendout_fr_count + 1
  /\ UNCHANGED <<ring, log, recv_fr_count, slot, rlen, txbuf, frames, size, ctl, up>>
  /\ StillThreads

DisableChannels(d) == Device(d, "disable", "delete", "made")
Delete(d)          == Device(d, "delete", "null", "deleted")

(* Mutant of SetNull: the pointer keeps the address of what was deleted. *)
SetNull_Dangling(d) == Device(d, "null", "announce", "deleted")

SetNull(d) == Device(d, "null", "announce", None)

Announce(d) ==
  /\ up /\ pc[d] = "announce" /\ Goto(d, "ended")
  /\ active' = [active EXCEPT ![d] = FALSE]
  /\ UNCHANGED <<data, size, dev, running, up>> /\ StillThreads

Streaming(d) ==
  \/ Begin(d) \/ Construct(d) \/ EnableChannels(d) \/ EnableFails(d) \/ Check(d)
  \/ TransferFails(d) \/ DisableChannels(d) \/ Delete(d) \/ SetNull(d) \/ Announce(d)
  \/ Die(d) \/ DieInDestructor(d)

Transmit == FrameWaiting \/ CopyFirst \/ CopyRest \/ CountSent \/ PushBuffer

Receiver == RecvCall \/ RecvFirst \/ RecvRest \/ RecvCount \/ Die("recv")

-----------------------------------------------------------------------------
(* What main, or the receiver that failed, does next: see Stop. *)

Done(w) == work' = [work EXCEPT ![w] = Tail(@)]
Doing(w, op) == up /\ work[w] # <<>> /\ Head(work[w])[1] = op

Clear(w) ==
  /\ Doing(w, "clear") /\ Done(w)
  /\ LET x == Head(work[w])[2]
     IN  IF x = "recv" THEN running' = FALSE /\ UNCHANGED active
         ELSE active' = [active EXCEPT ![x] = FALSE] /\ UNCHANGED running
  /\ UNCHANGED <<data, size, threads, dev, host, closed, up, bounds>>

(* Mutant of CancelThread: stop relies on the flag alone. *)
CancelThread_Not(w) ==
  /\ Doing(w, "cancel") /\ Done(w)
  /\ UNCHANGED <<data, size, threads, ctl, host, closed, up, bounds>>

CancelThread(w) ==
  /\ Doing(w, "cancel") /\ Done(w)
  /\ Cancel(Head(work[w])[2])
  /\ UNCHANGED <<data, size, pc, tid, handle, leaked, ctl, host, closed, up, bounds>>

JoinThread(w) ==
  /\ Doing(w, "join") /\ Done(w)
  /\ Joinable(Head(work[w])[2]) /\ Join(Head(work[w])[2])
  /\ UNCHANGED <<data, size, pc, cancelled, handle, leaked, ctl, host, closed, up, bounds>>

(* disableChannels and delete, if the thread has left a device; deleting
   one twice is taken to end the program. *)
FreeDevice(w) ==
  /\ Doing(w, "free") /\ Done(w)
  /\ LET d == Head(work[w])[2]
     IN  /\ dev' = [dev EXCEPT ![d] = IF @ = None THEN None ELSE "deleted"]
         /\ up' = (dev[d] # "deleted")
  /\ UNCHANGED <<data, size, threads, active, running, host, closed, bounds>>

NullDevice(w) ==
  /\ Doing(w, "null") /\ Done(w)
  /\ dev' = [dev EXCEPT ![Head(work[w])[2]] = None]
  /\ UNCHANGED <<data, size, threads, active, running, host, closed, up, bounds>>

Stopping(w) == Clear(w) \/ CancelThread(w) \/ JoinThread(w) \/ FreeDevice(w) \/ NullDevice(w)

(* The failed receiver's last call; cancelled, it ends in one before. *)
CloseSockets ==
  /\ Doing("recv", "close") /\ Done("recv")
  /\ closed' = TRUE /\ Goto("recv", "ended")
  /\ UNCHANGED <<data, size, cancelled, tid, handle, leaked, ctl, host, up, bounds>>

DieStopping ==
  /\ up /\ cancelled["recv"] /\ pc["recv"] = "failed"
  /\ Head(work["recv"])[1] \in {"join", "free", "close"}
  /\ Goto("recv", "ended") /\ work' = [work EXCEPT !["recv"] = <<>>]
  /\ UNCHANGED <<data, size, cancelled, tid, handle, leaked, ctl, host, closed, up, bounds>>

(* The first frame of the new host, then its receiver; the counts and the
   ring are those of the host before. *)
Dummy ==
  /\ Doing("main", "dummy") /\ Done("main")
  /\ IF closed \/ Free = {} THEN up' = FALSE /\ UNCHANGED <<threads, running, host>>
     ELSE /\ running' = TRUE /\ Create("recv", "loop")
          /\ host' = "accepted" /\ UNCHANGED up
  /\ UNCHANGED <<data, size, active, dev, closed, bounds>>

-----------------------------------------------------------------------------
(* UDPServer::runCommand.  Once the receiver has failed, the answer to the
   next command cannot be sent, and the program ends. *)

Idle == up /\ work["main"] = <<>> /\ pc["recv"] # "failed"
StopReceiver == << <<"clear", "recv">>, <<"cancel", "recv">>, <<"join", "recv">> >>

(* Mutant of InitClient: only the stream to the host is stopped. *)
InitClient_OnlyRX ==
  /\ Idle /\ inits < MaxInits /\ inits' = inits + 1
  /\ host' = "init"
  /\ work' = [work EXCEPT !["main"] = (IF running THEN StopReceiver ELSE <<>>)
                 \o Stop("RX") \o << <<"dummy", "recv">> >>]
  /\ UNCHANGED <<data, size, threads, ctl, closed, up, starts>>

InitClient ==
  /\ Idle /\ inits < MaxInits /\ inits' = inits + 1
  /\ host' = "init"
  /\ work' = [work EXCEPT !["main"] = (IF running THEN StopReceiver ELSE <<>>)
                 \o Stop("RX") \o Stop("TX") \o << <<"dummy", "recv">> >>]
  /\ UNCHANGED <<data, size, threads, ctl, closed, up, starts>>

(* "set buffersize" of the host's constructor, RX then TX. *)
SetBufferSize(d) ==
  /\ Idle /\ host = (IF d = "RX" THEN "accepted" ELSE "rxsize")
  /\ IF dev[d] # None THEN UNCHANGED size
     ELSE size' = IF d = "RX" THEN [size EXCEPT !.rx = HostSize] ELSE [size EXCEPT !.tx = HostSize]
  /\ host' = IF d = "RX" THEN "rxsize" ELSE "ready"
  /\ up' = ~closed
  /\ UNCHANGED <<data, threads, ctl, work, closed, bounds>>

(* "start": the flag, then a new thread, whatever the old one does.  The
   model ends where a direction has two threads: see OneStreamThread. *)
StartStream(d) ==
  /\ Idle /\ host = d /\ starts < MaxStarts /\ starts' = starts + 1
  /\ active' = [active EXCEPT ![d] = TRUE]
  /\ IF Free = {} THEN UNCHANGED threads /\ up' = ~closed
     ELSE Create(d, "begin") /\ up' = (~closed /\ pc[d] \in Gone)
  /\ host' = "ready"
  /\ UNCHANGED <<data, size, dev, running, work, closed, inits>>

(* "stop": nothing is done when the flag is not set.  The driver's start of
   a stream is a stop and a start (rx_streamer::start). *)
StopStream(d, then) ==
  /\ Idle /\ host = "ready" /\ starts < MaxStarts
  /\ work' = IF active[d] THEN [work EXCEPT !["main"] = Stop(d)] ELSE work
  /\ host' = then /\ up' = ~closed
  /\ UNCHANGED <<data, size, threads, ctl, closed, bounds>>

Command ==
  \/ InitClient
  \/ \E d \in D : SetBufferSize(d) \/ StartStream(d) \/ StopStream(d, d) \/ StopStream(d, "ready")

Init ==
  /\ ring = [s \in 0..Slots-1 |-> Fresh] /\ log = <<>>
  /\ recv_fr_count = 0 /\ sendout_fr_count = 0 /\ slot = 0 /\ rlen = 0
  /\ txbuf = Fresh
  /\ size = [rx |-> InitSize, tx |-> InitSize]
  /\ active = [d \in D |-> FALSE] /\ dev = [d \in D |-> None]
  /\ pc = [x \in T |-> None] /\ cancelled = [x \in T |-> FALSE]
  /\ tid = [x \in T |-> None] /\ handle = [x \in T |-> None] /\ leaked = {}
  /\ running = FALSE /\ work = [w \in {"main", "recv"} |-> <<>>]
  /\ host = "none" /\ closed = FALSE /\ up = TRUE
  /\ frames = 0 /\ inits = 0 /\ starts = 0

Next ==
  \/ Command \/ Dummy \/ Receiver \/ Transmit \/ ReceiveAndSend \/ CloseSockets \/ DieStopping
  \/ \E d \in D : Streaming(d)
  \/ \E w \in {"main", "recv"} : Stopping(w)

Spec == Init /\ [][Next]_vars

(* A thread that can run runs on; frames, samples and commands need not come. *)
FairSpec ==
  /\ Spec
  /\ WF_vars(Stopping("main"))
  /\ WF_vars(RecvCall \/ RecvRest \/ RecvCount \/ Die("recv")
              \/ Stopping("recv") \/ CloseSockets \/ DieStopping)
  /\ WF_vars(Streaming("RX")) /\ WF_vars(Streaming("TX") \/ Transmit)

-----------------------------------------------------------------------------
(* Properties *)

Cell == [Halves -> 0..MaxFrames]

(* The state has the declared types, and every counted frame is logged. *)
TypeOK ==
  /\ ring \in [0..Slots-1 -> Cell] /\ txbuf \in Cell
  /\ log \in Seq(1..MaxFrames) /\ recv_fr_count = Len(log)
  /\ sendout_fr_count \in 0..recv_fr_count
  /\ slot \in 0..Slots-1 /\ rlen \in {0, InitSize, HostSize}
  /\ \A x \in T : tid[x] \in Threads \cup {None} /\ tid[x] \notin leaked
  /\ frames \in 0..MaxFrames

(* As long as the receiver is less than the ring ahead, streamTX passes on
   the frames whole, in their order, none twice and none left out, whatever
   stops, starts and new hosts come between (receiveStreamBuffer). *)
CopyInOrder ==
  pc["TX"] = "copied" /\ recv_fr_count - sendout_fr_count < Slots
    => txbuf = [half \in Halves |-> log[sendout_fr_count + 1]]

(* start, which does not look for a thread of the direction, does not make
   a second one: stop is skipped only when the first has announced its end,
   and so has deleted its device.  But when a failed receiver is cancelled
   while it stops the streams itself (a stop of the other direction can
   hold its pthread_t by then), start may find the flag cleared and the
   thread, cancelled too, still on its way (Controller::runCommand). *)
OneStreamThread ==
  [][\A d \in D : tid'[d] \notin {None, tid[d]} =>
       pc[d] \in Gone \/ (cancelled[d] /\ pc["recv"] = "ended")]_vars

(* When initClient waits for its dummy, no streaming thread of the host
   before runs and no device of theirs is left, also when a stop has joined
   another's thread, or a failed receiver was stopping them. *)
InitQuiesces ==
  Doing("main", "dummy") => \A d \in D : pc[d] \in Gone /\ dev[d] = None

(* Of the thread's end and the stop that follows it, main's or the failed
   receiver's, one deletes the device; both at once may (Controller::stop). *)
NoDoubleDelete ==
  \A w, v \in {"main", "recv"} :
    Doing(w, "free") /\ v # w /\ work[v] = <<>> => dev[Head(work[w])[2]] # "deleted"

(* stop and initClient return or end the program, so that the main thread
   is at its next command, or waits for a dummy, again and again:
   pthread_join waits only for threads that a cancellation, or their loop's
   condition, has ended. *)
StopReturns == []<>(work["main"] = <<>> \/ Doing("main", "dummy") \/ ~up)
=============================================================================
