# SoapyADRV9361 in TLA+

SoapyADRV9361 lets a SoapySDR program on a host use an ADRV9361 radio board over
Ethernet. The host loads a driver (`AdrvSDR_*.cpp`, `UDPClient.cpp`); the board runs a
program (`board/iio-udp`) that takes text commands on one UDP port, streams sample
buffers over another, and drives the radio through libiio. This directory holds a
model of that system, the configurations under which TLC checks it, and proofs that
TLAPS checks.

| file | what it is |
|---|---|
| `Controller.tla` | board: starting and stopping the streaming threads, and the device they use |
| `ControllerProofs.tla` | theorems about `Controller` |
| `CommandChannel.tla` | commands, replies, `init` and the stream socket between hosts and board |
| `RemoteCall.tla` | what the command channel promises: the abstract specification |
| `RxStreamer.tla` | host: `readStream`, its chunks, times and loss counters |
| `Adapter.tla` | host: `trx_adrv_read` over `RxStreamer` |
| `TxStreamer.tla` | host: `writeStream`, the loop of a program that sends bursts, and `trx_adrv_write` |
| `RadioConfig.tla` | board and host: the radio's settings, the copies of them, and failing accesses |
| `RingServer.tla` | the circular-buffer board program: its ring, threads, `init`, `start` and `stop` |
| `ChannelProofs.tla`, `RemoteProofs.tla` | theorems about `CommandChannel`; that it implements `RemoteCall` |
| `RxProofs.tla`, `TxProofs.tla` | theorems about `RxStreamer` and `TxStreamer` |
| `AdapterProofs.tla` | theorems about `Adapter`, and `RxStreamer`'s for it |
| `RadioProofs.tla` | theorems about `RadioConfig` |
| `RingProofs.tla` | theorems about `RingServer` |
| `MC*.tla`, `MC*_*.cfg` | instances for TLC |
| `PROJECT.json` | which definition models which lines, runs, mutants, hazards, findings |

## The system

### Components

**Host UDP client** (`UDPClient.cpp`). State: a command and a stream socket, the sizes of
both directions' frames. Operations: the constructor runs `initProcedure` (send `init`,
wait for `ack`, send a dummy datagram on the stream socket so that the board learns its
address, then set both buffer sizes); `sendCommand` sends a text and waits in `recv` for
any datagram; `sendStreamBuffer`, `receiveStreamBuffer` move a frame. `findServer` caches
the client in a static variable. Correct if: every command is answered to the caller that
sent it, and a caller does not wait for ever.

**Host settings** (`AdrvSDR_Settings.cpp`). Each setter takes a spin lock, one for rx and
another for tx, around a `sendCommand`; some getters take none. `setSampleRate` also stores
the rate locally, where the streamers read it. Correct if: the locks keep commands apart.

**Host streamers** (`AdrvSDR_Streaming.cpp`). `rx_streamer` holds one received frame and
gives it out in chunks; it derives each chunk's time from the stamp behind the frame, and
counts dropped frames by their ids and underflows by their times. `tx_streamer` puts the
samples of one call in a frame, with time, duration and id behind them. `activateStream`
and `deactivateStream` send `start` and `stop` under the direction's lock; `readStream` and
`writeStream` take no lock. Correct if: no sample is read outside the frame, given out
twice or lost silently, chunks carry the right time, and a frame sent holds what was
written and nothing else.

**Board UDP server** (`board/iio-udp/UDPServer.cpp`). State: the command and stream
addresses of its client, the sizes of both directions, `clientInitiated`. `runCommand`
takes one datagram, runs `initClient` for `init` (stop both streams, reset the sizes, `ack`,
wait for the dummy) or hands it to the controller, and replies to the *last initialised*
client. Correct if: `init` leaves no thread of the client before, and addresses and
replies belong to the client that commands.

**Board controller** (`board/iio-udp/Controller.cpp`). State: an activity flag and a thread
handle per direction. `start` sets the flag and creates a thread; `stop` clears it, cancels
and joins the thread, and disables the device; a thread that fails disables the device and
clears the flag itself. Main thread and streaming threads share flag, device and socket
without a lock. Correct if: flag, thread and device agree at every hand-over.

**Board IIO device** (`board/iio-udp/IIODevice.cpp`). State: buffers, enabled channels,
`rxIsStreaming`/`txIsStreaming`, buffer sizes; cached configuration and sampling rates.
Correct if: no buffer is used after it was destroyed, none is created twice, and what is
cached is what the device has.

**Circular-buffer board variant** (`board/iio-udp-circullar`). An older board program that
receives frames into a ring of 1000 slots in a thread of its own. Two counts relate that
thread and `streamTX`; each streaming thread makes and deletes its own device object, and
`stop` cleans up after a cancelled one. Correct if: frames leave the ring whole and in
order, no device is deleted twice, and `stop` returns.

**OpenAirInterface adapter** (`OAI-ADRV/.../adrv_lib.cpp`). Timed reads and writes over the
SoapySDR API, and a thread that retunes. Correct if: a read's buffer holds the stream
without a hole of its own, at the time it is given.

**Test programs** (`tests/`). How the driver is used: in particular
`tests/standalone/main.cpp`, whose receive and transmit loops stand for an application.

### What is hard

Three threads of the board share a device, two flags and a socket without locks, and one
is cancelled asynchronously with respect to its own errors. Commands are unnumbered text
datagrams, so that a late, lost or foreign reply cannot be told from the right one.
The stream socket carries both the handshake's dummy and samples. The host's streamers are
used by threads that take no lock. Counters are of four different widths (16-bit ids,
32-bit ids, 64-bit counts, `int` differences of times). `PROJECT.json` lists each such
hazard at its line, with the property that watches it or the reason why none does.

## The modules

### Controller

`pc[d]` is where the streaming thread of direction `d` is, in the order of `streamRX` and
`streamTX`: `created` → `enable` → `creating` (enableChannels) → `snapshot` (the copy of the
server's size) → `wait` (refill or recv) → `xfer` → ... and, after an error, `disable` →
`nulling` → `unchannel` (disableChannels) → `announce` → `exited`. `mainAt`, `mainOp` and
`mainDir` say where the main thread is within `Controller::stop` or `initClient`. The rest
of the state are members: the flags, libiio's buffer (null, live, destroyed), the channels,
`isStreaming`, the sizes in the device (samples) and in the server (bytes).

`handle[d]` is `rx_thread` or `tx_thread`. The code never resets it, and `pthread_create` may give
a new thread the value of one that was joined. So a handle names a direction's last thread,
a thread that has `ended` and was not joined, or `nobody`; `NewHandle` is what a `start` makes of both
handles. `stop` cancels and joins the thread that the handle of its direction *names*. What POSIX leaves
undefined, a cancel or join of a joined thread, does nothing or ends the process
(`StopUndefined`); so does a second destroy of a buffer (`StopDestroysTwice`).

A cancellation is pending (`cancelled`) from `pthread_cancel` until the thread reaches a
cancellation point; `CancelPoints` lists those. `SetBufferSize` converts as the code does: the
`long long` of the text is divided by four and narrowed to `int` for the device, and narrowed to
`int` for the server, which refuses only what is larger than 65535. Negative sizes pass; `libiio`
then refuses the buffer, or the stream fails at its first `recv` or `sendto`.

The variable `env`, which no step changes, is the environment of a behaviour: the host (`"any"`: any
command at any time; `"driver"`: the order in which `UDPClient` and the streamers send them, followed in
`session`), the faults that may happen (a failed `pthread_create`, a failed buffer
creation, I/O errors while streaming, and a cancellation inside `iio_buffer_destroy`) and the sizes the
host may ask for.

### CommandChannel and RemoteCall

Callers (threads) belong to clients (host processes). A call puts a command in `cmdq`,
the server takes one at a time, executes it and puts the reply in `replyq` of *its* client;
a caller takes whatever is first. `LockOf` gives the lock a command is sent under, as the
settings and streaming functions take them. `streamq` is the board's stream socket, shared
by `initClient` (waiting for the dummy) and `TakeFrame` (streamTX). Datagrams may be lost
(`Losses`), a host may die between any two steps (`Crashes`), and the board program may be
restarted (`Restarts`). `OneAtATime` lets a client connect only when no other is connected.

A stream may fail on the board at any time (`StreamFails`, which is the end of
`streamRX` and `streamTX` in one step; `Controller` has it in detail).

`RemoteCall` is the abstract specification: a command is executed once between its call
and its return, a stream otherwise changes only by failing (`StreamEnds`), and calls return.
`CommandChannel` implements it (`RemoteSpec`) for one client over a network without losses; the
refinement mapping takes a call for executed when its reply is on the way.

### RxStreamer

Samples are numbered by the time they are taken at. The board fills frames while it is
`on`, each with an id and the number of its last sample, and a frame may be lost. `receive`
is two actions: `ReadHeld` or `ReadFrame` up to the copy and the time, and `Account`, which
updates `items_in_buffer` and `byte_offset`; `stop` is two around its command. With
`Overlap` a stop may come between, as the code allows; without it the reader and the
controlling thread take turns. Widths are the constants `IdRange`, `SizeRange`, `IntRange`.
`Init` leaves `items_in_buffer` and `byte_offset` open, since the constructor does.

### Adapter

`Adapter` extends `RxStreamer` by a second kind of user. `BeginRead` is the head of
`trx_adrv_read`; its loop is `ReadChunk` (a `readStream` for `ReqNum` samples, the actions
of `RxStreamer`) and `EndChunk` (the return, which advances `samples_received` and takes the
time of the first chunk); `EndRead` converts the time to ticks and returns, with a full
buffer or because no frame came. `TrxControl` starts and stops the stream. `read` carries,
beside the function's own variables, what the properties compare: the samples, drops and
starts of the stream that went into the buffer.

### TxStreamer

Sample `k` of burst `b` is `<<b, k>>`, so that a frame shows where its samples came from.
`WriteStream` is a whole call of `send` (copy, metadata, zero fill, UDP send, return)
with what the caller's loop does with the result; `BeginBurst` is the head of
`rf_soapy_send_timed_multi`, with its correction of the time. A UDP send may fail at any
call. `StopTx` flushes and stops. With the other `user`, the adapter, `TrxStart` and
`TrxWrite` are `trx_adrv_start` and `trx_adrv_write`, which calls `writeStream` once.

### RadioConfig

The AD9361 (`attr`, `rate`, `fir`) against what `IIODevice` remembers of it: `config`, one
`stream_cfg` per direction, and `sf`, a sampling rate per direction. A command is one step,
since the main thread runs one at a time, and its effect is a *set of outcomes*, records of
chip and copy: an access as it should be, or failed with no effect. `Then` goes on with the
outcomes that threw no exception, so that `SetConfig` or `SetBBRate` reads as the sequence
of accesses it is in the code and stops where `errchk` does. `Stored` and `RateStored` are the rounding of
the chip. `Driver` are the methods of the host driver and `TestProgram` the texts that test
programs send themselves. `StartProgram` is the constructor on a chip as the program before
left it; the uninitialised rates are any of two values.

### RingServer

The ring's slots are written and copied in halves, so that a reader can meet a half-written
frame. `RecvCall` fixes slot and length before `recv` blocks; `RecvFirst`, `RecvRest` and
`RecvCount` are the frame's arrival, the length's comparison and the count. `streamTX` is
`FrameWaiting`, `CopyFirst`, `CopyRest`, `CountSent`, `PushBuffer`. `work` is what the main
thread, or the receiver that left its loop, still has to do of `stop` and `init`: a list of
clear, cancel, join, free and null, one step each. Threads have `pthread_t` values (`tid`),
which the variables of the code (`handle`) go on naming after the thread is joined; a value
may be used again, and `Named` says which threads a call through the variable hits. A
cancellation acts at `CancelPoints`; in a destructor it terminates the program. When
`pthread_create` finds no value, `start` still leaves its flag set. A behaviour ends with the step
in which a direction gets a second thread, which `OneStreamThread` says when may happen.

## What is checked

| run | question | bounds |
|---|---|---|
| `control` | Do flag, handle, thread and device stay together whatever the host sends and whatever fails? With the driver's order of commands: are whole buffers moved? Does `stop` hit its own thread and return, and is a failure announced? | three environments: any host with all four faults; any host with sizes 65536 and `IntRange` - 4; the driver's host with I/O errors and sizes 7704, 65532 and -4; `IntRange` = 2^18; one queued frame |
| `reliable` | Does the channel implement `RemoteCall` for two threads under one lock? | 9 commands: the three of the handshake and six calls; 2 frames |
| `faulty` | Do replies and streams stay with their client through losses, deaths of a host and restarts of the board? | two hosts one after the other, 9 commands, 1 frame |
| `stale_frames` | *(violated)* Do `init`'s stream and command address belong to one client? | two hosts, 9 commands, 1 frame |
| `two_locks` | *(violated)* Does a caller get its own reply when threads use different locks? | two threads, 6 commands |
| `rx_receive` | Are chunks within the frame, stamped right and gapless but for counted drops? Are the adapter's buffers? | frames of 4 samples; calls for 2 and 5, reads of 3 and 6; seven frames; two starts; first id 0 and 1; a rate that does not divide the clock |
| `first_stamp` | *(violated)* Is the timestamp of a read that of its first sample? | as `rx_receive` |
| `rx_overlap` | *(violated)* The same bounds when a read meets a stop | as `rx_receive` |
| `tx_send` | Do frames hold what was written, follow each other in time, and show losses by their ids? | frames of 4; bursts or writes of 3, 10 and 12, three of them; five calls in each burst; a rate that does not divide the clock; 3 ns ticks |
| `tx_failed` | *(violated)* Has what the application counts as written been sent? | as `tx_send` |
| `config` | Does the chip hold what was set, do the copies agree with it, and is a rate that failed half way set again? | 4 sets or starts; 2 failed accesses; two values per frequency, port and bandwidth, frequencies rounded to even ones; rates of 1.92, 5.76 and 30.72 MHz, rounded to multiples of 9 Hz |
| `circular` | Are frames copied whole and in order, is a device deleted once, does `init` find all threads gone, does `start` find its direction's, does `stop` return? | 2 slots, 3 frames, 2 `init`, 2 starts, 3 thread values |

`control` checks deadlock: a process that has ended stutters. In the channel a lost datagram does stop the
system (that is the hazard), in the circular program an exception or the end of the
receiver does, and in the streamers and the configuration the bounds do.

*Why the bounds are enough.* The controller has one thread and one device per direction and
the main thread runs one command at a time; its state is finite but for sizes and queue,
and one queued frame is enough for a `recv` that returns. Sizes matter by what the code compares
them with: the driver's are a frame of its own, the largest multiple of four that the server takes,
which a datagram cannot carry, and a negative one; any host's are one that is refused and one whose
narrowing to `int` changes its sign for the server and not for the device. The latter needs only
that half of `IntRange` exceeds 65535, so that 2^18 stands for 2^32. The environments split what
does not interact: with `"any"` as host no property compares sizes. In the
channel nine commands leave, after a handshake of three, time for each thread to call three times
and for a reply to be late, and for a second host to complete its handshake. Seven frames and
two starts let the receive streamer lose frames before, between and after frames it reads,
within a start and across it; 4 samples with calls for 2 and 5 give chunks at the begin,
at the end, and whole frames, and a read of 6 takes two or three of them.
Bursts of 10 end in a part of a frame behind two whole ones.
Two failed accesses are a failed set and a failure of what would repair it, and four sets a
change of the rate, its repetition, its reversal and a restart between; the three rates lie on
either side of the 25/12 MHz at which `ad9361_set_bb_rate` changes the order of its
accesses, and in two ranges of its filter table. Three frames go once round a ring of two
slots, and let the receiver be a ring ahead, which is where `CopyInOrder` stops to promise anything; three
`pthread_t` values are those of the three threads, so that a new thread may get the value of
one that was joined.

Every property of a passing run has a mutant in `PROJECT.json`: a plausible bug of the
mapped code (a lock dropped, a flag not cleared, an off-by-one in the drop count, a missing
zero fill) under which TLC finds the property violated.

### Fairness

`Controller`: weak fairness of the main thread's steps, of each streaming thread's steps,
and of acting on a cancellation at a cancellation point. Operating-system scheduling gives
the first two; the third is POSIX's promise for deferred cancellation. Nothing is assumed
of the environment: a frame or a buffer need never arrive, which is why `stop` must cancel.
`RingServer`: weak fairness of each of the four threads: main in `stop` and `init`, the
receiver but for the arrival of a frame, and the two streaming threads. A join is a step
of `Stopping` that is enabled only when the thread has ended.
`CommandChannel`: weak fairness of the server loop, of `streamTX`'s reading, and of each
caller's wait for its reply. No fairness makes a caller call or a network deliver; the
run that checks `CallReturns` has a network that does not lose. The properties of the
streamers, the adapter and the configuration are safety only.

## What is proved

`ControllerProofs` holds for every set of environments, that is every set of sizes that are numbers,
every set of faults and both kinds of host, for every even width of `int` that holds 65535, and for
queues of every length. Its theorems have no hypothesis; where a property is about some
environments only, its statement says which.

* `TypeCorrect`: `TypeOK` is inductive by itself. The sizes stay ints, the server's at most 65535,
  with no lower bound, and a buffer is only ever created with a positive number of samples.
* `ControlInvariant`: `ControlInv` is inductive relative to `TypeOK`. It has eight parts: a
  running thread has its flag set (`RunningIsActive`); the device is off when a thread
  begins and when it announces its end (`ThreadOwnsDevice`); without a thread and a flag the device
  is off unless the main thread is in `stop` for it (`GoneMeansOff`); a running thread is named by its
  own handle, and a joined one by none (`HandleNamesThread`); if `pthread_create` does not fail, a
  set flag has its own handle (`FlagInv`); only a thread that `stop` is joining, by whichever handle, is
  cancelled (`CancelledIsJoined`); `stop` disables after thread and flag are
  gone (`DisableAfterThread`); `initClient` has stopped rx before tx and both before it waits
  (`InitInOrder`). None of the three properties below is inductive alone: that a thread finds the
  device off depends on how the one before it ended, possibly by cancellation in the middle
  of `disableChannels`, and on the join before `start`'s next thread.
* `EnableSafe`, `DisableSafe`, `InitSafe` follow: `EnableNeverThrows`, `DisableExclusive`,
  `InitQuiesces`. They hold also when a stop through a stale handle has taken the other
  direction's thread: what it leaves has its flag set, so that no start comes before a stop.
* `BufferSafe`: `NoUseAfterDestroy`, with every fault. A cancellation between
  `iio_buffer_destroy` and the assignment of NULL does leave the pointer to a destroyed buffer; the
  theorem says that it is left with the flag set and no thread, so that only the `stop` that clears
  the flag can meet it. That `stop` destroys the buffer again, which the model has with its undefined
  outcomes; that it cannot happen would take a `libiio` without a cancellation point there.
* `FrameSafe`, `SizesSafe`: `FrameIsWholeBuffer` and `SizeInv`, for the driver's host. The
  strengthening relates the handshake to the two sizes of each direction: they agree
  when a direction may be started, and do not change while a thread runs. It needs that narrowing a
  whole number of samples to `int` is the same for both as long as the driver asks for an `int`.
* `ActiveSafe`, `StopSafe`: `ActiveMeansThread`, if `pthread_create` does not fail, and
  `StopHitsOwnThread`: `stop` cancels and joins the thread of its own direction. With that fault the
  flag stays set without a thread, and the handle is an old one that may name the *other*
  direction's thread: a `stop` then cancels and joins that one, whose flag stays set and whose device
  stays enabled. `StopHitsOwnThread` says that this is the only way to it.

`ChannelProofs` holds for any number of clients and callers, over a network that loses, with
hosts that die and a board that restarts.

* `OneLockOwnReply`: `OwnReply`, if hosts come one after the other (`OneHost`) and the
  commands of a host are sent by one thread or under one lock (`Serial`). The texts have no
  ids; what pairs them is `ChannelInv`: a live client has at most one call; of a live
  client's commands at most one is queued, and that is the last in the queue; at most one reply of
  it is queued; and never both. Command and reply carry an id in the model, which only
  the property reads. `NoLateReply` states the invariant's part about replies. Without
  `Serial`, the run `two_locks` shows what happens.
* `RepliesGoBack`: `ReplyGoesBack`, if hosts come one after the other; threads may use any locks.
  The server replies at the address of the last `init`. `BackInv` says why that is the sender's: the
  commands queued are in the order of their hosts, each host's behind its `init` (`InTurn`), and
  once a host's `init` is served nothing of another is left in the queue (`Turn`). A board that
  restarts has forgotten its client and drops commands until the next `init`.
* `StreamGoesToLastClient`: `StreamFollowsInit`, with no assumption; `ChannelTypes`: `TypeOK`.

`RemoteProofs` adds that the network keeps its datagrams and nobody dies (`Reliable`), for one
host with any number of threads.

* `DummyIsTaken`: `NoStrayDummy`. The invariant (`InitFirst`, `DummyFirst`) says that a host
  is past its `init` only when the server has met it, that nothing streams while the server waits
  for the dummy, and that the dummy is then the first datagram in the socket.
* `ChannelIsRemoteCall`: initial states of `CommandChannel` are initial states of `RemoteCall`
  and each step is one of `RemoteCall` (a failing stream's included) or a stutter, which is the refinement but for its
  fairness. One lemma per action; `Matched` (each queued command is some caller's) makes an
  execution by the server the execution of a call.

`RxProofs` holds for every frame size, rate, clock and sequence of calls, losses,
stops and starts; but for `RxTypes` its theorems assume that nobody stops the stream in a call
(`OneAtATime`). The constants' assumption says that `size_t` holds a frame.

* `RxTypes`: `TypeOK`, with no assumption on who calls when. What needs an argument is that counts
  that wrap stay in their width, and that `MaxSocket` bounds the socket.

* `ChunksInFrame`, `ChunksAreStamped`: `BufferBounds` and `TimeOfLastSample`. The invariant
  `ReceiveInv` adds that what was copied is part of what is there, and that the two times kept
  are the stamp of the frame that is held. The time's error is bounded by a lemma about two
  quotients rounded down, `TimeOfPart`.
* `GapsAreCounted`: `NoSilentGap`, if the ids of a behaviour do not wrap, a count holds them, and
  `None` is no number (`NoWrap`). The invariant `GapInv` says that within a start ids and
  times go together (`Paced`), that the ids in the socket rise, that `rxidcounter` is the
  distance of the last id from a base and `rxdrops` is less (`Counted`), and where the last
  chunk ended. A first id of 0 is the hard case: the base is then 2^32 - 1, the distance
  wraps in 64 bits, and later differences are right nevertheless (`FirstDrops`, `NextDrops`).
* `DropsAreTimed`: `DropsAreUnderflows`, if ids do not wrap (`NoWrap`) and a frame takes more than
  ten ninths of a tick of the board's clock (`FramesTakeTicks`; its frames take hundreds). Drops come from ids and underflows from times,
  each computed from the frame before; `UnderInv` relates the two: of the frames in the socket, and of
  the one taken last, each id takes at least a frame's time (`Spaced`, `Since`), across stops as
  well. The code counts a gap only when it exceeds a tenth of a frame; under the assumption
  a lost frame's gap does so although stamps are rounded to ticks.

`AdapterProofs` holds for every size of reads besides. It assumes that `None` is no number, frame or
record of the model (`NoneIsNothing`).

* `ReadsAreStamped`: the ticks of a read are the number of the *last* sample of its first chunk
  (`TimestampOfFirstChunk`), if the board's clock is at least twice as fine as the
  sampling rate (`ClockIsFiner`: 100 MHz against at most 30.72). A sample's number becomes a stamp,
  nanoseconds and, in the adapter, ticks again; the two roundings down are less than half a
  tick together (`TimedRead`), and the conversion rounds to the nearest. The comment of the code
  promises the *first* sample's, which the run `first_stamp` refutes; the theorem says by how
  much it is wrong: by the length of the first chunk less one, exactly.
* `ReadsFollow`: `ReadsAreContiguous`. `SampleInv` counts what the read has, with the chunk that is
  not accounted for yet, against the numbers of its first and last sample and the drops
  counted since (`Contiguous`), and the same since the answer before it (`Continued`), as long
  as all of it belongs to one start of the stream.
* `AdapterReceives`, `AdapterLosses`: the receive streamer's properties with the adapter as user.
  Its steps are those of `RxStreamer` but for its own bookkeeping; `Turns` says that
  it starts and stops nothing while it reads.

`TxProofs` needs nothing but the constants' ranges, and `LossesShow` one relation of two.

* `FramesHoldCalls`: `FrameHoldsCall`; the buffer is always empty between calls, failed ones included.
* `TxTypes`: `TypeOK`, relative to the invariant of the two theorems before and after it.
* `FramesAreGapless`: `BackToBack`. The invariant `LastFrame` relates the last frame to the
  burst's place and time; the lemma `NextTick` shows that three roundings (of a sample count to
  nanoseconds, of a time to ticks, of a duration to ticks) add up to at most one tick.
* `LossesShow`: `LossShowsInIds`, if a burst has no more calls than there are ids
  (`IdsOutlastBurst`: 100 against 65536). `LastId` gives the last frame of the burst its id before the
  wrap: each call since took one, so that it is at most `trials` back (`NextRest`).

`RingProofs` holds for every number of slots, threads and frames.

* `RingInvariant`, `RingIsFifo`: `CopyInOrder`. The slots hold the last frames that were
  counted, one fewer than there are slots, and in one more what the receiver is
  writing (`SlotsHoldLast`, `Written`); that two of these are different slots is arithmetic
  of remainders (`Multiples`).
* `InitFindsAllGone`: `InitQuiesces`. `Pids` keeps what a `pthread_t` may name; `InitDone` says which of an
  init's operations have had their effect, by how many are left of its list (`Left`). A variable
  of the code that names a joined thread is harmless there because a thread's value
  is in its own variable until it is joined, by whomever.
* `StartFindsGone`, `OneDelete`: `OneStreamThread`, `NoDoubleDelete`. `StopInv` adds the failed receiver's
  list (`FailWork`, `FailDone`); that a running thread with its flag cleared is about to be joined
  (`WillJoin`) and a deleted device's pointer about to be reset (`WillReset`), by whichever of the two
  stops; and that the driver's start follows its stop (`StopFirst`). That `start` never finds a thread
  of its direction is false, as TLC found when it was checked before the proof: a stale `pthread_t` of the
  other direction can be the receiver's by then, and a stop through it cancels a failed receiver
  before it joins the thread it has cancelled, which leaves that one behind a cleared flag. The
  property and the theorem except that case (`Leaving`).
* `RingTypes`: `TypeOK`; two threads that were not joined have different `pthread_t` values (`Apart`).

`RadioProofs` holds for every set of values, rounding of values and rates by the chip, rate, filter and failure of
accesses. A command's effect is a set of outcomes; one lemma per operation says what
each of its outcomes is, so that the steps follow from the lemmas.

* `RadioInvariant`: `RadioInv` is inductive. What the chip holds it can hold (`Held`: a
  value read back and written again stays, which is what `setConfig` does with the
  attributes it does not change), and `RateKept` says that the chip runs at the rate that is due while no
  board program runs as well, since the constructor may find a rate that it need not write.
* `NoSetIsSkipped`, `RateIsCoherent`, `RateIsSetAgain`, `RadioTypes`: `DeviceAsAsked`, `RateCoherent`,
  `FailedRateIsRetried` and `TypeOK` follow, the third as a fact of `setSamplingFrequency`'s
  outcomes: the copy becomes the rate asked for only once the chip runs at it, with its filter.
  `DeviceAsAsked` is about the five attributes; the sampling rate, whose sets may be skipped after a
  failed one, is `RateCoherent`'s.

Only model-checked: the four liveness properties (`StopCompletes`, `FailureAnnounced`, `CallReturns`,
`StopReturns`) and the fairness of `RemoteSpec`, which are out of the prover's reach. Every
safety property of a passing run is a theorem; what one needs beyond the constants' ranges is
in its ASSUME, and the configuration of the run that checks its property satisfies it.

## What the model assumes

* The main socket's own `sendto` and `recvfrom` do not fail; the board program would end.
* The streaming functions return, although they lack a `return` statement.
* Whether libiio's calls are cancellation points is external: refill and push are,
  destroy is only with `"cancel_in_libiio"`. libiio refuses a buffer without a positive size.
* A cancel or join of a thread that was joined (`Controller`) and a second destroy of a buffer are
  undefined; the model has them do nothing or end the process.
* The network loses datagrams, but neither duplicates nor reorders them.
* A failed access to the radio has no effect on it, and both directions have one sampling
  rate, as in the AD9361, which its clocks round down to a multiple of `RateStep`; the
  real rounding differs from rate to rate.
* In `RingServer` a `pthread_cancel` or `pthread_join` of a value that no thread has does nothing; deleting a
  device twice ends the program. Once the circular program's receiver has failed, the
  main thread takes no new command: its next reply would fail. Which frames of its hosts get lost is
  `CommandChannel`'s matter; a stray one of another size may arrive at any time.
* All hosts of the circular program use one frame size: the code sets the size of the frames it
  receives from the *receive* size of the host (`set buffersize rx`).
* The adapter has one board, whose index line 300 of `adrv_lib.cpp` does not set.
* `activateStream` sends `stop` and `start` under one lock; the channel treats them as two
  calls of one caller.
* In `NoSilentGap` and its proof the behaviour ends before the ids wrap, after 2^32 frames.
* A stream is read only after it was activated, and written only between activation and
  deactivation, after `setSampleRate`.
* The board's stamp is that of a frame's last sample and its ids go on across a stop; both
  are made by the FPGA, which is not in the repository. Frames are lost only between board and host: a
  board that loses samples within a frame, the other cause of underflows, is not modelled.
* `double` computations are exact, then truncated as the code does.

## Where code and text differ

Five runs end in a counterexample; `PROJECT.json` quotes the text each contradicts.

1. `stale_frames`: `initClient` takes any datagram for the dummy.
2. `two_locks`: rx and tx commands, under two locks, share one reply socket.
3. `rx_overlap`: the lock of `readStream` is commented out, and a `stop` in the middle makes
   `items_in_buffer` wrap.
4. `tx_failed`: a failed send returns `SOAPY_SDR_ERROR`, a log level of value 3, which callers
   take for three samples written.
5. `first_stamp`: the adapter's `*ptimestamp`, "the time at which the first sample was received"
   (`adrv_lib.cpp:256`), is the time `readStream` gives with its first chunk, which is that of the
   chunk's last sample.

Met while modelling, and not the subject of a run:

* the guard of `set buffersize` tests `rxdev` and `txdev`, which nothing assigns
  (`Controller.cpp:107`), so that a size is never refused for a stream that runs;
* a size that the server refuses has already been set in the device (`Controller.cpp:123`);
* a size is narrowed to `int` for device and server apart, and may be negative, or more than a
  datagram carries (`Controller.cpp:119`, `UDPServer.cpp:322`);
* after a failed `pthread_create` the flag stays set (`Controller.cpp:460`), and the `stop` that clears it
  uses a handle that may by then name the other direction's thread (line 494), which it cancels
  and joins; that direction then answers "done" to a `start` without a thread, until it is stopped;
* with two hosts the reply goes to the one that was initialised last (`UDPServer.cpp:219`);
* "wait for the response (1 second)" (`UDPClient.cpp:131`) has no timeout;
* a client that dies between `init` and dummy leaves the board waiting (`UDPServer.cpp:97`);
* the field commented "Write the actual TX frame size" gets the number of samples that are
  missing (`AdrvSDR_Streaming.cpp:765`, 870);
* a read of the adapter that meets a stop and a start may join samples from before and after it;
* `trx_adrv_write` returns `nsamps` whatever `writeStream` took, so that samples beyond a
  frame, and those of a failed send, are gone;
* a stream whose first id is 0 makes `rxdrops` begin with a huge number, from which its
  differences are right;
* after a failed `set samplerate` a set of the rate before is skipped and answered "done",
  whatever the chip then runs at, and with the filter possibly off (`IIODevice.cpp:639`);
  `RateCoherent` therefore promises nothing between a failed set and the next that writes;
* the cached rates are read before they are set when the program starts (`IIODevice.cpp:640`), so that
  the first set may be skipped;
* in the circular program a reader that is a ring behind gets frames torn or out of order;
  counts and ring are not reset for a new host; a `start` that meets the end of the thread
  before it may leave its flag set; a stale `pthread_t` may name another thread, which `stop` then
  cancels; a cancellation in the device's destructor terminates the program; and a receiver that
  `init` stops by its flag, before the cancellation is seen, closes the sockets.

## What is not modelled

Worth adding, in this order:

1. `StreamService`: what a host may expect of a stream (it lasts until it is stopped, or
   fails), with `Controller` and `CommandChannel` composed to implement it. Today the two
   meet in the command's execution, which each models for itself.
2. A duplicating network: a second copy of an `init` stops the streams and waits for a dummy.
3. `readStream` and `writeStream` in several threads at once, and `writeStream` during a stop.
4. The wrap of the 32-bit ids.

Left out, and why:

* stream handles: `setupStream` and `closeStream` make and delete the streamers, and return
  constants; a call on a deleted streamer is undefined and nothing in the code orders them. The
  client cached in a static variable of `findServer` is the same matter;
* `timeroffset` and `hwtimestamp`, which go to a character device and change no state of the
  program; the host methods that return constants or only store a value (`setGain`, `getGain`,
  `getSampleRate`, lists and ranges);
* the adapter's `device_init`, `set_freq` and `set_gains`, which are sequences of settings;
  its statistics; several boards;
* the configuration commands of the circular program, an earlier form of those in `RadioConfig`;
* the debug generators and the unused command thread of the server, sample formats, affinity and
  priorities of threads, the FIR coefficients, the signal handler's use of freed objects;
* the configuration files of other programs.
