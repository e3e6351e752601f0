----------------------------- MODULE RingProofs -----------------------------
(***************************************************************************)
(* Proofs about RingServer, for every number of slots, frames and threads. *)
(* The ring: while the receiver is less than the ring ahead, the frame     *)
(* that streamTX has copied is the next in order, and whole.  The threads: *)
(* init waits only when all are gone, start finds none of its direction,   *)
(* and a device is deleted once.                                           *)
(***************************************************************************)
EXTENDS RingServer, SequenceTheorems, TLAPS

Places == {"none", "ended", "begin", "construct", "enable", "check", "xfer", "wait", "first",
           "rest", "copied", "push", "disable", "delete", "null", "announce", "loop", "recv",
           "fill", "count", "failed"}
Filling == {"recv", "fill", "count"}
Copying == {"first", "rest", "copied"}

Types ==
  /\ ring \in [0..Slots-1 -> [Halves -> Nat]] /\ txbuf \in [Halves -> Nat]
  /\ log \in Seq(Nat) /\ recv_fr_count = Len(log)
  /\ sendout_fr_count \in Nat /\ frames \in Nat /\ slot \in 0..Slots-1
  /\ pc \in [T -> Places]

(* What the receiver has written of the frame that is not counted yet. *)
Written ==
  /\ pc["recv"] \in Filling => slot = recv_fr_count % Slots
  /\ pc["recv"] = "fill" => ring[slot][1] = frames
  /\ pc["recv"] = "count" => \A half \in Halves : ring[slot][half] = frames

(* The slots hold the last frames counted, but for the one being written. *)
SlotsHoldLast ==
  \A k \in Nat : k < recv_fr_count /\ recv_fr_count - k < Slots
    => \A half \in Halves : ring[k % Slots][half] = log[k + 1]

(* What streamTX has copied so far. *)
Copied ==
  /\ sendout_fr_count <= recv_fr_count
  /\ pc["TX"] \in Copying => sendout_fr_count < recv_fr_count
  /\ recv_fr_count - sendout_fr_count < Slots =>
       /\ pc["TX"] = "rest" => txbuf[1] = log[sendout_fr_count + 1]
       /\ pc["TX"] = "copied" => \A half \in Halves : txbuf[half] = log[sendout_fr_count + 1]

RingInv == Types /\ Written /\ SlotsHoldLast /\ Copied

(* A step that touches neither the ring nor the places where it is used. *)
Stays ==
  /\ UNCHANGED <<ring, log, recv_fr_count, sendout_fr_count, slot, txbuf, frames>>
  /\ pc' \in [T -> Places]
  /\ pc'["recv"] \in Filling => pc'["recv"] = pc["recv"]
  /\ pc'["TX"] \in Copying => pc'["TX"] = pc["TX"]

-----------------------------------------------------------------------------
(* Arithmetic of the slots *)

(* The quotient of a count by the number of slots, and the rest: its slot. *)
LEMMA Division ==
  ASSUME NEW n \in Nat \ {0}, NEW i \in Nat
  PROVE  i \div n \in Nat /\ i % n \in 0..n-1 /\ i = n * (i \div n) + (i % n)
OBVIOUS

(* Multiples of n that differ are at least n apart. *)
LEMMA Multiples ==
  ASSUME NEW n \in Nat \ {0}, NEW a \in Nat, NEW b \in Nat, a < b
  PROVE  n * b - n * a >= n
OBVIOUS

(* Frames less than the ring apart have different slots. *)
LEMMA SlotsDiffer ==
  ASSUME NEW n \in Nat \ {0}, NEW i \in Nat, NEW j \in Nat, i < j, j - i < n
  PROVE  i % n # j % n
<1> SUFFICES ASSUME i % n = j % n PROVE FALSE
  OBVIOUS
<1> DEFINE a == i \div n
           b == j \div n
<1>1. a \in Nat /\ b \in Nat /\ i = n * a + (i % n) /\ j = n * b + (j % n)
  BY Division
<1> HIDE DEF a, b
<1>2. n * a \in Nat /\ n * b \in Nat /\ i % n \in Nat
  BY <1>1
<1>3. j - i = n * b - n * a
  BY <1>1, <1>2
<1>4. CASE a < b
  <2>1. n * b - n * a >= n
    BY <1>4, <1>1, Multiples
  <2> QED BY <2>1, <1>2, <1>3
<1>5. CASE b <= a
  <2>1. n * b <= n * a
    BY <1>5, <1>1
  <2> QED BY <2>1, <1>2, <1>3
<1> QED BY <1>1, <1>4, <1>5

-----------------------------------------------------------------------------
(* The invariant *)

(* Nothing has been received when the server starts. *)
LEMMA RingInit == ASSUME Init PROVE RingInv
<1> USE RingAssumption DEF Init
<1>1. Types
  BY DEF Types, Fresh, Halves, T, D, Places, None
<1>2. Written /\ SlotsHoldLast /\ Copied
  BY <1>1 DEF Types, Written, SlotsHoldLast, Copied, Filling, Copying, T, D, None
<1> QED BY <1>1, <1>2 DEF RingInv

(* Steps of the control keep the invariant. *)
LEMMA StaysInv == ASSUME RingInv, Stays PROVE RingInv'
<1> USE DEF RingInv, Stays
<1>1. Types'
  BY DEF Types
<1>2. Written'
  BY DEF Written, Filling
<1>3. SlotsHoldLast'
  BY DEF SlotsHoldLast
<1>4. Copied'
  BY DEF Copied, Copying
<1> QED BY <1>1, <1>2, <1>3, <1>4

(* The call of recv takes the slot after the last frame's. *)
LEMMA RecvCallInv == ASSUME RingInv, RecvCall PROVE RingInv'
<1> USE RingAssumption DEF RingInv
<1>1. CASE ~running
  <2>1. Stays
    BY <1>1 DEF RecvCall, Fail, Goto, Stays, Types, T, D, Places, Filling, Copying
  <2> QED BY <2>1, StaysInv
<1>2. CASE running
  <2>1. /\ slot' = recv_fr_count % Slots /\ pc' = [pc EXCEPT !["recv"] = "recv"]
        /\ UNCHANGED <<ring, log, recv_fr_count, sendout_fr_count, txbuf, frames>>
    BY <1>2 DEF RecvCall, Goto
  <2>2. recv_fr_count \in Nat
    BY DEF Types
  <2>3. slot' \in 0..Slots-1
    BY <2>1, <2>2, Division
  <2>4. Types'
    BY <2>1, <2>3 DEF Types, T, D, Places
  <2>5. pc'["recv"] = "recv" /\ pc'["TX"] = pc["TX"]
    BY <2>1 DEF Types, T, D
  <2>6. Written' /\ SlotsHoldLast' /\ Copied'
    BY <2>1, <2>5 DEF Written, SlotsHoldLast, Copied
  <2> QED BY <2>4, <2>6
<1> QED BY <1>1, <1>2

(* What is written goes to a slot that holds none of the last frames. *)
LEMMA OthersKept ==
  ASSUME RingInv, pc["recv"] \in Filling, NEW half \in Halves, NEW v \in Nat,
         ring' = [ring EXCEPT ![slot][half] = v],
         UNCHANGED <<log, recv_fr_count>>
  PROVE  SlotsHoldLast' /\ ring' \in [0..Slots-1 -> [Halves -> Nat]]
<1> USE RingAssumption DEF RingInv, Types
<1>1. ring' \in [0..Slots-1 -> [Halves -> Nat]]
  OBVIOUS
<1>2. ASSUME NEW k \in Nat, k < recv_fr_count, recv_fr_count - k < Slots
      PROVE  ring'[k % Slots] = ring[k % Slots]
  <2>1. k % Slots # recv_fr_count % Slots /\ k % Slots \in 0..Slots-1
    BY <1>2, SlotsDiffer, Division
  <2>2. slot = recv_fr_count % Slots
    BY DEF Written
  <2> QED BY <2>1, <2>2
<1>3. SlotsHoldLast'
  BY <1>2 DEF SlotsHoldLast
<1> QED BY <1>1, <1>3

(* The first half of a frame goes to the slot of RecvCall. *)
LEMMA RecvFirstInv == ASSUME RingInv, RecvFirst PROVE RingInv'
<1> USE DEF RingInv
<1>1. /\ pc["recv"] = "recv" /\ pc' = [pc EXCEPT !["recv"] = "fill"]
      /\ frames' = frames + 1 /\ ring' = [ring EXCEPT ![slot][1] = frames']
      /\ UNCHANGED <<log, recv_fr_count, sendout_fr_count, slot, txbuf>>
  BY DEF RecvFirst, Goto
<1>2. frames' \in Nat /\ 1 \in Halves
  BY <1>1 DEF Types, Halves
<1>3. SlotsHoldLast' /\ ring' \in [0..Slots-1 -> [Halves -> Nat]]
  BY <1>1, <1>2, OthersKept DEF Filling
<1>4. Types'
  BY <1>1, <1>2, <1>3 DEF Types, T, D, Places
<1>5. pc'["recv"] = "fill" /\ pc'["TX"] = pc["TX"]
  BY <1>1 DEF Types, T, D
<1>6. ring'[slot][1] = frames'
  BY <1>1, <1>2 DEF Types
<1>7. Written'
  BY <1>1, <1>5, <1>6 DEF Written, Filling
<1>8. Copied'
  BY <1>1, <1>5 DEF Copied
<1> QED BY <1>3, <1>4, <1>7, <1>8

(* The second half makes that slot's frame whole. *)
LEMMA RecvRestInv == ASSUME RingInv, RecvRest PROVE RingInv'
<1> USE DEF RingInv
<1>1. /\ pc["recv"] = "fill" /\ ring' = [ring EXCEPT ![slot][2] = frames]
      /\ UNCHANGED <<log, recv_fr_count, sendout_fr_count, slot, txbuf, frames>>
      /\ \/ pc' = [pc EXCEPT !["recv"] = "count"]
         \/ pc' = [pc EXCEPT !["recv"] = "failed"]
  BY DEF RecvRest, Fail, Goto
<1>2. 2 \in Halves /\ frames \in Nat
  BY DEF Types, Halves
<1>3. SlotsHoldLast' /\ ring' \in [0..Slots-1 -> [Halves -> Nat]]
  BY <1>1, <1>2, OthersKept DEF Filling
<1>4. Types'
  BY <1>1, <1>3 DEF Types, T, D, Places
<1>5. pc'["recv"] \in {"count", "failed"} /\ pc'["TX"] = pc["TX"]
  BY <1>1 DEF Types, T, D
<1>6. \A half \in Halves : ring'[slot][half] = frames
  BY <1>1, <1>2, SMTT(30) DEF Types, Halves, Written
<1>7. Written'
  BY <1>1, <1>5, <1>6 DEF Written, Filling
<1>8. Copied'
  BY <1>1, <1>5 DEF Copied
<1> QED BY <1>3, <1>4, <1>7, <1>8

(* Counting a frame adds it to the last ones, and the oldest may go. *)
LEMMA RecvCountInv == ASSUME RingInv, RecvCount PROVE RingInv'
<1> USE RingAssumption DEF RingInv
<1>1. /\ pc["recv"] = "count" /\ pc' = [pc EXCEPT !["recv"] = "loop"]
      /\ log' = Append(log, frames) /\ recv_fr_count' = recv_fr_count + 1
      /\ UNCHANGED <<ring, sendout_fr_count, slot, txbuf, frames>>
  BY DEF RecvCount, Goto
<1>2. Types'
  BY <1>1 DEF Types, T, D, Places
<1>3. pc'["recv"] = "loop" /\ pc'["TX"] = pc["TX"]
  BY <1>1 DEF Types, T, D
<1>4. recv_fr_count \in Nat /\ log'[recv_fr_count + 1] = frames
  BY <1>1 DEF Types
<1>5. ASSUME NEW k \in Nat, k < recv_fr_count PROVE log'[k + 1] = log[k + 1]
  BY <1>1, <1>5 DEF Types
<1>6. SlotsHoldLast'
  <2>1. ASSUME NEW k \in Nat, k < recv_fr_count', recv_fr_count' - k < Slots,
               NEW half \in Halves
        PROVE  ring'[k % Slots][half] = log'[k + 1]
    <3>1. CASE k = recv_fr_count
      BY <3>1, <1>1, <1>4 DEF Written, Filling
    <3>2. CASE k < recv_fr_count
      <4>1. recv_fr_count - k < Slots
        BY <2>1, <1>1, <1>4
      <4>2. ring[k % Slots][half] = log[k + 1]
        BY <3>2, <4>1 DEF SlotsHoldLast
      <4>3. log'[k + 1] = log[k + 1] /\ ring' = ring
        BY <3>2, <1>1, <1>5
      <4> QED BY <4>2, <4>3
    <3>3. k = recv_fr_count \/ k < recv_fr_count
      BY <2>1, <1>1, <1>4
    <3> QED BY <3>1, <3>2, <3>3
  <2> QED BY <2>1 DEF SlotsHoldLast
<1>7. Written'
  BY <1>3 DEF Written, Filling
<1>8. Copied'
  <2>1. sendout_fr_count \in Nat
    BY DEF Types
  <2>2. sendout_fr_count <= recv_fr_count'
    BY <1>1, <1>4, <2>1 DEF Copied
  <2>3. pc["TX"] \in Copying => sendout_fr_count < recv_fr_count /\ sendout_fr_count < recv_fr_count'
                              /\ log'[sendout_fr_count + 1] = log[sendout_fr_count + 1]
    <3> SUFFICES ASSUME pc["TX"] \in Copying
                 PROVE  /\ sendout_fr_count < recv_fr_count /\ sendout_fr_count < recv_fr_count'
                        /\ log'[sendout_fr_count + 1] = log[sendout_fr_count + 1]
      OBVIOUS
    <3>1. sendout_fr_count < recv_fr_count
      BY DEF Copied
    <3>2. log'[sendout_fr_count + 1] = log[sendout_fr_count + 1]
      BY <3>1, <1>5, <2>1
    <3> QED BY <3>1, <3>2, <1>1, <1>4, <2>1
  <2>4. recv_fr_count' - sendout_fr_count < Slots => recv_fr_count - sendout_fr_count < Slots
    BY <1>1, <1>4, <2>1
  <2> QED BY <1>1, <1>3, <2>2, <2>3, <2>4 DEF Copied, Copying
<1> QED BY <1>2, <1>6, <1>7, <1>8

(* streamTX goes on only when there is a frame that it has not copied. *)
LEMMA FrameWaitingInv == ASSUME RingInv, FrameWaiting PROVE RingInv'
<1> USE DEF RingInv
<1>1. /\ recv_fr_count # sendout_fr_count /\ pc["TX"] = "wait" /\ pc' = [pc EXCEPT !["TX"] = "first"]
      /\ UNCHANGED <<ring, log, recv_fr_count, sendout_fr_count, slot, txbuf, frames>>
  BY DEF FrameWaiting, Move, Goto, data
<1>2. Types'
  BY <1>1 DEF Types, T, D, Places
<1>3. pc'["TX"] = "first" /\ pc'["recv"] = pc["recv"]
  BY <1>1 DEF Types, T, D
<1>4. Written' /\ SlotsHoldLast'
  BY <1>1, <1>3 DEF Written, SlotsHoldLast
<1>5. sendout_fr_count < recv_fr_count
  BY <1>1 DEF Copied, Types
<1>6. Copied'
  BY <1>1, <1>3, <1>5 DEF Copied
<1> QED BY <1>2, <1>4, <1>6

(* Each half is copied from a slot that holds the next frame, if the lag is
   less than the ring. *)
LEMMA CopyInv == ASSUME RingInv, CopyFirst \/ CopyRest PROVE RingInv'
<1> USE RingAssumption DEF RingInv
<1>1. PICK half \in Halves :
        /\ txbuf' = [txbuf EXCEPT ![half] = ring[sendout_fr_count % Slots][half]]
        /\ UNCHANGED <<ring, log, recv_fr_count, sendout_fr_count, slot, frames>>
        /\ \/ half = 1 /\ pc["TX"] = "first" /\ pc' = [pc EXCEPT !["TX"] = "rest"]
           \/ half = 2 /\ pc["TX"] = "rest" /\ pc' = [pc EXCEPT !["TX"] = "copied"]
  BY DEF CopyFirst, CopyRest, CopyHalf, Goto, Halves
<1>2. sendout_fr_count \in Nat /\ sendout_fr_count < recv_fr_count
  BY <1>1 DEF Types, Copied, Copying
<1>3. sendout_fr_count % Slots \in 0..Slots-1
  BY <1>2, Division
<1>4. ring[sendout_fr_count % Slots][half] \in Nat
  BY <1>3 DEF Types
<1>5. Types'
  BY <1>1, <1>4 DEF Types, T, D, Places
<1>6. pc'["TX"] \in {"rest", "copied"} /\ pc'["recv"] = pc["recv"]
  BY <1>1 DEF Types, T, D
<1>7. Written' /\ SlotsHoldLast'
  BY <1>1, <1>6 DEF Written, SlotsHoldLast
<1>8. recv_fr_count - sendout_fr_count < Slots => txbuf'[half] = log[sendout_fr_count + 1]
  BY <1>1, <1>2 DEF SlotsHoldLast, Types
<1>9. CASE half = 1
  <2>1. pc["TX"] = "first" /\ pc'["TX"] = "rest"
    BY <1>1, <1>9 DEF Types, T, D
  <2>2. Copied'
    BY <2>1, <1>1, <1>2, <1>8, <1>9 DEF Copied
  <2> QED BY <2>2, <1>5, <1>7
<1>10. CASE half = 2
  <2>1. pc["TX"] = "rest" /\ pc'["TX"] = "copied"
    BY <1>1, <1>10 DEF Types, T, D
  <2>2. txbuf'[1] = txbuf[1]
    BY <1>1, <1>10 DEF Types, Halves
  <2>3. Copied'
    BY <2>1, <2>2, <1>1, <1>2, <1>8, <1>10 DEF Copied, Halves
  <2> QED BY <2>3, <1>5, <1>7
<1> QED BY <1>1, <1>9, <1>10

(* Counting a copied frame as sent lets the next one be copied. *)
LEMMA CountSentInv == ASSUME RingInv, CountSent PROVE RingInv'
<1> USE DEF RingInv
<1>1. /\ pc["TX"] = "copied" /\ pc' = [pc EXCEPT !["TX"] = "push"]
      /\ sendout_fr_count' = sendout_fr_count + 1
      /\ UNCHANGED <<ring, log, recv_fr_count, slot, txbuf, frames>>
  BY DEF CountSent, Goto
<1>2. Types'
  BY <1>1 DEF Types, T, D, Places
<1>3. pc'["TX"] = "push" /\ pc'["recv"] = pc["recv"]
  BY <1>1 DEF Types, T, D
<1>4. Written' /\ SlotsHoldLast'
  BY <1>1, <1>3 DEF Written, SlotsHoldLast
<1>5. sendout_fr_count' <= recv_fr_count'
  BY <1>1 DEF Copied, Copying, Types
<1>6. Copied'
  BY <1>3, <1>5 DEF Copied, Copying
<1> QED BY <1>2, <1>4, <1>6

(* A step of streamRX or of the control of streamTX moves a thread to a
   place where it does not use the ring, and leaves the ring alone. *)
LEMMA MoveStays ==
  ASSUME RingInv, NEW x \in T, NEW to \in Places \ (Filling \cup Copying),
         pc' = [pc EXCEPT ![x] = to], UNCHANGED data
  PROVE  Stays
BY DEF RingInv, Types, Stays, data, T, D

(* Every step of streamRX, and of streamTX outside its copy, is of that kind. *)
LEMMA StreamingStays == ASSUME RingInv, NEW d \in D, Streaming(d) PROVE Stays
<1> USE DEF Goto, StillThreads, T, D, Places, Filling, Copying
<1>1. CASE Begin(d)
  BY <1>1, MoveStays DEF Begin
<1>2. CASE Construct(d) \/ EnableChannels(d) \/ DisableChannels(d) \/ Delete(d) \/ SetNull(d)
  BY <1>2, MoveStays DEF Construct, EnableChannels, DisableChannels, Delete, SetNull, Device
<1>3. CASE EnableFails(d) \/ DieInDestructor(d)
  BY <1>3 DEF EnableFails, DieInDestructor, RingInv, Types, Stays, data, threads
<1>4. CASE Check(d) \/ TransferFails(d)
  BY <1>4, MoveStays DEF Check, TransferFails, Move
<1>5. CASE Announce(d)
  BY <1>5, MoveStays DEF Announce
<1>6. CASE Die(d)
  BY <1>6, MoveStays DEF Die
<1> QED BY <1>1, <1>2, <1>3, <1>4, <1>5, <1>6 DEF Streaming

(* So are the commands: init, start, stop and the sizes leave the ring alone. *)
LEMMA CommandStays == ASSUME RingInv, Command \/ Dummy PROVE Stays
<1> USE DEF T, D, Places, Filling, Copying
<1>1. CASE InitClient
  BY <1>1 DEF InitClient, RingInv, Types, Stays, data, threads
<1>2. ASSUME NEW d \in D, SetBufferSize(d) \/ StopStream(d, d) \/ StopStream(d, "ready") PROVE Stays
  BY <1>2 DEF SetBufferSize, StopStream, RingInv, Types, Stays, data, threads
<1>3. ASSUME NEW d \in D, StartStream(d) PROVE Stays
  <2>1. UNCHANGED data /\ (UNCHANGED pc \/ pc' = [pc EXCEPT ![d] = "begin"])
    BY <1>3 DEF StartStream, Create, Goto, threads
  <2> QED BY <2>1, MoveStays DEF RingInv, Types, Stays, data
<1>4. CASE Dummy
  <2>1. UNCHANGED data /\ (UNCHANGED pc \/ pc' = [pc EXCEPT !["recv"] = "loop"])
    BY <1>4 DEF Dummy, Create, Goto, threads
  <2> QED BY <2>1, MoveStays DEF RingInv, Types, Stays, data
<1> QED BY <1>1, <1>2, <1>3, <1>4 DEF Command

(* So are the steps of stop, the receiver's end and the driver of the tests. *)
LEMMA OthersStay ==
  ASSUME RingInv,
         \/ Die("recv") \/ PushBuffer \/ ReceiveAndSend \/ CloseSockets \/ DieStopping
         \/ \E w \in {"main", "recv"} : Stopping(w)
         \/ UNCHANGED vars
  PROVE  Stays
<1> USE DEF Goto, T, D, Places, Filling, Copying
<1>1. CASE Die("recv") \/ CloseSockets \/ DieStopping
  BY <1>1, MoveStays DEF Die, CloseSockets, DieStopping
<1>2. CASE PushBuffer \/ ReceiveAndSend
  BY <1>2, MoveStays DEF PushBuffer, ReceiveAndSend, Move
<1>3. ASSUME NEW w \in {"main", "recv"}, Stopping(w) PROVE Stays
  BY <1>3 DEF Stopping, Clear, CancelThread, JoinThread, FreeDevice, NullDevice, RingInv, Types,
              Stays, data, threads
<1>4. CASE UNCHANGED vars
  BY <1>4 DEF vars, RingInv, Types, Stays, data, threads
<1> QED BY <1>1, <1>2, <1>3, <1>4

(* Every step keeps the ring's invariant. *)
LEMMA RingStep == ASSUME RingInv, [Next]_vars PROVE RingInv'
<1>1. CASE Receiver
  BY <1>1, RecvCallInv, RecvFirstInv, RecvRestInv, RecvCountInv, OthersStay, StaysInv DEF Receiver
<1>2. CASE Transmit
  BY <1>2, FrameWaitingInv, CopyInv, CountSentInv, OthersStay, StaysInv DEF Transmit
<1>3. CASE \E d \in D : Streaming(d)
  BY <1>3, StreamingStays, StaysInv
<1>4. CASE Command \/ Dummy
  BY <1>4, CommandStays, StaysInv
<1>5. CASE \/ ReceiveAndSend \/ CloseSockets \/ DieStopping
           \/ \E w \in {"main", "recv"} : Stopping(w)
           \/ UNCHANGED vars
  BY <1>5, OthersStay, StaysInv
<1> QED BY <1>1, <1>2, <1>3, <1>4, <1>5 DEF Next

(* The ring's invariant: the slots hold the last frames counted, but for
   the one slot that the receiver may be writing. *)
THEOREM RingInvariant == Spec => []RingInv
<1>1. Init => RingInv
  BY RingInit
<1>2. RingInv /\ [Next]_vars => RingInv'
  BY RingStep
<1> QED BY <1>1, <1>2, PTL DEF Spec

(* For every number of slots and of frames: what streamTX has copied is the
   next frame and whole, as long as the receiver is less than the ring ahead. *)
THEOREM RingIsFifo == Spec => []CopyInOrder
<1>1. RingInv => CopyInOrder
  BY DEF RingInv, Types, Copied, CopyInOrder, Halves
<1> QED BY <1>1, RingInvariant, PTL

-----------------------------------------------------------------------------
(* What main and a failed receiver have left to do, the last thing first *)

StopOps(d) == << <<"null", d>>, <<"free", d>>, <<"join", d>>, <<"cancel", d>>, <<"clear", d>> >>
InitOps ==
  << <<"dummy", "recv">>,
     <<"null", "TX">>, <<"free", "TX">>, <<"join", "TX">>, <<"cancel", "TX">>, <<"clear", "TX">>,
     <<"null", "RX">>, <<"free", "RX">>, <<"join", "RX">>, <<"cancel", "RX">>, <<"clear", "RX">>,
     <<"join", "recv">>, <<"cancel", "recv">>, <<"clear", "recv">> >>
FailOps ==
  << <<"close", "recv">>,
     <<"null", "TX">>, <<"free", "TX">>, <<"join", "TX">>, <<"cancel", "TX">>, <<"clear", "TX">>,
     <<"null", "RX">>, <<"free", "RX">>, <<"join", "RX">>, <<"cancel", "RX">>, <<"clear", "RX">> >>

(* The r-th operation of a stop is that of InitOps and FailOps at Base(x) + r. *)
OpName == <<"null", "free", "join", "cancel", "clear">>
Base(x) == IF x = "TX" THEN 1 ELSE IF x = "RX" THEN 6 ELSE 9

(* The n last operations. *)
Left(ops, n) == [i \in 1..n |-> ops[n + 1 - i]]

(* The n last have their length. *)
LEMMA LeftSeq ==
  ASSUME NEW ops, NEW n \in Nat
  PROVE  Left(ops, n) \in Seq({ops[i] : i \in 1..n}) /\ Len(Left(ops, n)) = n
BY DEF Left

(* None are left at the end. *)
LEMMA LeftNone ==
  ASSUME NEW ops
  PROVE  Left(ops, 0) = <<>>
BY DEF Left

(* The next is the n-th, and leaves the n - 1 last. *)
LEMMA LeftNext ==
  ASSUME NEW ops, NEW n \in Nat, n > 0
  PROVE  Left(ops, n) # <<>> /\ Head(Left(ops, n)) = ops[n] /\ Tail(Left(ops, n)) = Left(ops, n - 1)
<1> DEFINE S == {ops[i] : i \in 1..n}
           l == Left(ops, n)
           m == Left(ops, n - 1)
<1>1. l \in Seq(S) /\ Len(l) = n
  BY LeftSeq
<1>2. m \in Seq({ops[i] : i \in 1..n-1}) /\ Len(m) = n - 1
  BY LeftSeq, n - 1 \in Nat
<1>3. m \in Seq(S)
  BY <1>2, {ops[i] : i \in 1..n-1} \subseteq S
<1>4. l # <<>> /\ Head(l) = l[1]
  BY <1>1
<1>5. l[1] = ops[n]
  BY DEF Left
<1>6. \A i \in 1..n-1 : i + 1 \in 1..n /\ l[i + 1] = ops[n + 1 - (i + 1)] /\ m[i] = ops[(n - 1) + 1 - i]
  BY DEF Left
<1>7. \A i \in 1..n-1 : l[i + 1] = m[i]
  <2> TAKE i \in 1..n-1
  <2>1. n + 1 - (i + 1) = (n - 1) + 1 - i
    OBVIOUS
  <2> QED BY <1>6, <2>1
<1> HIDE DEF S, l, m
<1>8. Tail(l) \in Seq(S) /\ Len(Tail(l)) = n - 1 /\ \A i \in 1..n-1 : Tail(l)[i] = l[i + 1]
  BY <1>1, <1>4, HeadTailProperties
<1>9. Tail(l) = m
  BY <1>2, <1>3, <1>7, <1>8, SeqEqual
<1> QED BY <1>4, <1>5, <1>9 DEF l, m

(* What is left says how much it is, and ends in the same operation. *)
LEMMA LeftEqual ==
  ASSUME NEW a, NEW b, NEW n \in Nat, NEW m \in Nat, Left(a, n) = Left(b, m)
  PROVE  n = m /\ (n > 0 => a[1] = b[1] /\ a[n] = b[n])
<1>1. n = m
  BY LeftSeq
<1>2. ASSUME n > 0 PROVE a[1] = b[1] /\ a[n] = b[n]
  <2>1. Left(a, n)[n] = a[1] /\ Left(b, n)[n] = b[1]
    BY <1>2 DEF Left
  <2>2. Left(a, n)[1] = a[n] /\ Left(b, n)[1] = b[n]
    BY <1>2 DEF Left
  <2> QED BY <1>1, <2>1, <2>2
<1> QED BY <1>1, <1>2

(* stop's script. *)
LEMMA StopIs ==
  ASSUME NEW d
  PROVE  Stop(d) = Left(StopOps(d), 5)
BY DEF Stop, StopOps, Left

(* The failed receiver's. *)
LEMMA FailIs ==
  Stop("RX") \o Stop("TX") \o << <<"close", "recv">> >> = Left(FailOps, 11)
BY SMTT(30) DEF Stop, FailOps, Left

(* init's, with and without a receiver. *)
LEMMA InitIs ==
  /\ StopReceiver \o Stop("RX") \o Stop("TX") \o << <<"dummy", "recv">> >> = Left(InitOps, 14)
  /\ <<>> \o Stop("RX") \o Stop("TX") \o << <<"dummy", "recv">> >> = Left(InitOps, 11)
<1>1. StopReceiver \o Stop("RX") \o Stop("TX") \o << <<"dummy", "recv">> >> = Left(InitOps, 14)
  BY SMTT(90) DEF Stop, InitOps, Left, StopReceiver
<1>2. <<>> \o Stop("RX") \o Stop("TX") \o << <<"dummy", "recv">> >> = Left(InitOps, 11)
  BY SMTT(30) DEF Stop, InitOps, Left
<1> QED BY <1>1, <1>2

(* The name of an operation of stop says which it is. *)
LEMMA StopOp ==
  ASSUME NEW d, NEW n \in 1..5
  PROVE  /\ StopOps(d)[n][2] = d
         /\ \A r \in 1..5 : StopOps(d)[n][1] = OpName[r] <=> n = r
         /\ StopOps(d)[n][1] \notin {"dummy", "close"}
<1> n = 1 \/ n = 2 \/ n = 3 \/ n = 4 \/ n = 5
  OBVIOUS
<1> QED BY DEF StopOps, OpName

(* That of one of init says of which thread, too. *)
LEMMA InitOp ==
  ASSUME NEW n \in 1..14
  PROVE  /\ InitOps[n] \in {"null", "free", "join", "cancel", "clear", "dummy"} \X T
         /\ InitOps[n][1] = "dummy" <=> n = 1
         /\ \A x \in T, r \in 1..5 : InitOps[n] = <<OpName[r], x>> => n = Base(x) + r
         /\ \A r \in 1..5 : InitOps[n][1] = OpName[r] => n = Base(InitOps[n][2]) + r
<1> n = 1 \/ n = 2 \/ n = 3 \/ n = 4 \/ n = 5 \/ n = 6 \/ n = 7 \/ n = 8 \/ n = 9 \/ n = 10
      \/ n = 11 \/ n = 12 \/ n = 13 \/ n = 14
  OBVIOUS
<1> QED BY DEF InitOps, OpName, Base, T, D

(* And that of one of the failed receiver. *)
LEMMA FailOp ==
  ASSUME NEW n \in 1..11
  PROVE  /\ FailOps[n][1] = "close" <=> n = 1
         /\ n > 1 => FailOps[n][2] \in D
         /\ \A r \in 1..5 : FailOps[n][1] = OpName[r] => n = Base(FailOps[n][2]) + r
<1> n = 1 \/ n = 2 \/ n = 3 \/ n = 4 \/ n = 5 \/ n = 6 \/ n = 7 \/ n = 8 \/ n = 9 \/ n = 10
      \/ n = 11
  OBVIOUS
<1> QED BY DEF FailOps, OpName, Base, D

-----------------------------------------------------------------------------
(***************************************************************************)
(* init finds every thread gone.  The pthread_t of a thread is in the      *)
(* variable that named it until it is joined, if by another's stop.        *)
(***************************************************************************)
Pids ==
  /\ tid \in [T -> Threads \cup {None}] /\ handle \in [T -> Threads \cup {None}]
  /\ cancelled \in [T -> BOOLEAN] /\ pc \in [T -> Places]
  /\ \A x \in T : tid[x] # None => tid[x] = handle[x]
  /\ \A x \in T : tid[x] = None => pc[x] \in Gone

(* s is what is left of an init's work, or of a stop's. *)
OfInit(s, n) == n \in 1..14 /\ s = Left(InitOps, n)
OfStop(s, d, n) == n \in 1..5 /\ s = Left(StopOps(d), n)
OfMain(s) == s = <<>> \/ (\E n \in 1..14 : OfInit(s, n)) \/ (\E d \in D, n \in 1..5 : OfStop(s, d, n))

InInit(n) == OfInit(work["main"], n)
InStop(d, n) == OfStop(work["main"], d, n)
MainWork == OfMain(work["main"])

(* What is done of an init's work stays done. *)
InitDone ==
  \A n \in 1..14, d \in D : InInit(n) =>
    /\ n < Base(d) + 3 => tid[d] = None
    /\ n < Base(d) + 1 => dev[d] = None

Works == work = [w \in {"main", "recv"} |-> work[w]]

QuietInv == Pids /\ Works /\ MainWork /\ InitDone /\ dev \in [D -> {None, "made", "buffer", "deleted"}]

(* In an init, main has its next operation to do, and is at one place. *)
LEMMA InitPlace ==
  ASSUME NEW s, NEW n, OfInit(s, n)
  PROVE  /\ s # <<>> /\ Head(s) = InitOps[n]
         /\ Tail(s) = Left(InitOps, n - 1) /\ n - 1 \in Nat
         /\ Len(s) = n /\ s[n] = InitOps[1]
         /\ n \in Nat /\ n \in 1..14
<1>1. n \in Nat /\ n > 0 /\ n - 1 \in Nat /\ n \in 1..14 /\ s = Left(InitOps, n)
  BY DEF OfInit
<1>2. Left(InitOps, n)[n] = InitOps[1]
  BY <1>1 DEF Left
<1> QED BY <1>1, <1>2, LeftNext, LeftSeq

(* So it has in a stop. *)
LEMMA StopPlace ==
  ASSUME NEW s, NEW d, NEW n, OfStop(s, d, n)
  PROVE  /\ s # <<>> /\ Head(s) = StopOps(d)[n]
         /\ Tail(s) = Left(StopOps(d), n - 1) /\ n - 1 \in Nat
         /\ Len(s) = n /\ s[n] = StopOps(d)[1]
         /\ n \in Nat /\ n \in 1..5
<1>1. n \in Nat /\ n > 0 /\ n - 1 \in Nat /\ n \in 1..5 /\ s = Left(StopOps(d), n)
  BY DEF OfStop
<1>2. Left(StopOps(d), n)[n] = StopOps(d)[1]
  BY <1>1 DEF Left
<1> QED BY <1>1, <1>2, LeftNext, LeftSeq

(* The last operation of an init is none of a stop. *)
LEMMA LastOp ==
  /\ \A d : InitOps[1] # StopOps(d)[1]
  /\ \A d, e : StopOps(d)[1] = StopOps(e)[1] => d = e
<1>1. InitOps[1][1] = "dummy" /\ \A d : StopOps(d)[1] = <<"null", d>>
  BY DEF InitOps, StopOps
<1> QED BY <1>1

(* main is at one place. *)
LEMMA OnePlace ==
  ASSUME NEW s
  PROVE  /\ \A n, m : OfInit(s, n) /\ OfInit(s, m) => n = m
         /\ \A n, d, m : ~(OfInit(s, n) /\ OfStop(s, d, m))
         /\ \A d, e, n, m : OfStop(s, d, n) /\ OfStop(s, e, m) => d = e /\ n = m
<1>1. ASSUME NEW n, NEW m, OfInit(s, n), OfInit(s, m) PROVE n = m
  BY <1>1, InitPlace
<1>2. ASSUME NEW n, NEW d, NEW m, OfInit(s, n), OfStop(s, d, m) PROVE FALSE
  <2>1. Len(s) = n /\ s[n] = InitOps[1]
    BY <1>2, InitPlace
  <2>2. Len(s) = m /\ s[m] = StopOps(d)[1]
    BY <1>2, StopPlace
  <2> QED BY <2>1, <2>2, LastOp
<1>3. ASSUME NEW d, NEW e, NEW n, NEW m, OfStop(s, d, n), OfStop(s, e, m) PROVE d = e /\ n = m
  <2>1. Len(s) = n /\ s[n] = StopOps(d)[1]
    BY <1>3, StopPlace
  <2>2. Len(s) = m /\ s[m] = StopOps(e)[1]
    BY <1>3, StopPlace
  <2> QED BY <2>1, <2>2, LastOp
<1> QED BY <1>1, <1>2, <1>3

(* main's next operation, by its name. *)
LEMMA MainDoes ==
  ASSUME NEW s, OfMain(s), s # <<>>, NEW r \in 1..5, Head(s)[1] = OpName[r]
  PROVE  LET x == Head(s)[2]
         IN  (x \in T /\ OfInit(s, Base(x) + r)) \/ (x \in D /\ OfStop(s, x, r))
<1>1. CASE \E n \in 1..14 : OfInit(s, n)
  <2>1. PICK n \in 1..14 : OfInit(s, n)
    BY <1>1
  <2>2. Head(s) = InitOps[n]
    BY <2>1, InitPlace
  <2>3. InitOps[n][1] = OpName[r]
    BY <2>2
  <2>4. n = Base(InitOps[n][2]) + r /\ InitOps[n][2] \in T
    BY <2>3, InitOp
  <2> QED BY <2>1, <2>2, <2>4
<1>2. CASE \E d \in D, n \in 1..5 : OfStop(s, d, n)
  <2>1. PICK d \in D, n \in 1..5 : OfStop(s, d, n)
    BY <1>2
  <2>2. Head(s) = StopOps(d)[n]
    BY <2>1, StopPlace
  <2>3. n = r /\ StopOps(d)[n][2] = d
    BY <2>2, StopOp
  <2> QED BY <2>1, <2>2, <2>3
<1> QED BY <1>1, <1>2 DEF OfMain

(* Then it goes on to the next place. *)
LEMMA MainGoes ==
  ASSUME NEW s, OfMain(s), s # <<>>
  PROVE  /\ OfMain(Tail(s))
         /\ \A n : OfInit(s, n) => IF n = 1 THEN Tail(s) = <<>> ELSE OfInit(Tail(s), n - 1)
         /\ \A d \in D, n \in 1..5 : OfStop(s, d, n) =>
              IF n = 1 THEN Tail(s) = <<>> ELSE OfStop(Tail(s), d, n - 1)
<1>1. ASSUME NEW n, OfInit(s, n) PROVE IF n = 1 THEN Tail(s) = <<>> ELSE OfInit(Tail(s), n - 1)
  <2>1. Tail(s) = Left(InitOps, n - 1) /\ n \in 1..14
    BY <1>1, InitPlace
  <2>2. ASSUME n = 1 PROVE Tail(s) = <<>>
    <3>1. n - 1 = 0
      BY <2>2
    <3> QED BY <2>1, <3>1, LeftNone
  <2>3. n # 1 => n - 1 \in 1..14
    BY <2>1
  <2> QED BY <2>1, <2>2, <2>3 DEF OfInit
<1>2. ASSUME NEW d \in D, NEW n \in 1..5, OfStop(s, d, n)
      PROVE  IF n = 1 THEN Tail(s) = <<>> ELSE OfStop(Tail(s), d, n - 1)
  <2>1. Tail(s) = Left(StopOps(d), n - 1)
    BY <1>2, StopPlace
  <2>2. ASSUME n = 1 PROVE Tail(s) = <<>>
    <3>1. n - 1 = 0
      BY <2>2
    <3> QED BY <2>1, <3>1, LeftNone
  <2>3. n # 1 => n - 1 \in 1..5
    OBVIOUS
  <2> QED BY <2>1, <2>2, <2>3 DEF OfStop
<1>3. OfMain(Tail(s))
  <2>1. CASE \E n \in 1..14 : OfInit(s, n)
    <3>1. PICK n \in 1..14 : OfInit(s, n)
      BY <2>1
    <3>2. n = 1 \/ n - 1 \in 1..14
      OBVIOUS
    <3> QED BY <1>1, <3>1, <3>2 DEF OfMain
  <2>2. CASE \E d \in D, n \in 1..5 : OfStop(s, d, n)
    <3>1. PICK d \in D, n \in 1..5 : OfStop(s, d, n)
      BY <2>2
    <3>2. n = 1 \/ n - 1 \in 1..5
      OBVIOUS
    <3> QED BY <1>2, <3>1, <3>2 DEF OfMain
  <2> QED BY <2>1, <2>2 DEF OfMain
<1> QED BY <1>1, <1>2, <1>3

(* Where it comes from. *)
LEMMA MainCame ==
  ASSUME NEW s, OfMain(s), s # <<>>
  PROVE  /\ \A n : OfInit(Tail(s), n) => OfInit(s, n + 1) /\ n \in 1..13
         /\ \A d, n : OfStop(Tail(s), d, n) => OfStop(s, d, n + 1) /\ n \in 1..4
<1>1. ASSUME NEW n, OfInit(Tail(s), n) PROVE OfInit(s, n + 1) /\ n \in 1..13
  <2>1. Tail(s) # <<>> /\ n \in 1..14
    BY <1>1, InitPlace
  <2>2. CASE \E k \in 1..14 : OfInit(s, k)
    <3>1. PICK k \in 1..14 : OfInit(s, k)
      BY <2>2
    <3>2. OfInit(Tail(s), k - 1)
      BY <2>1, <3>1, MainGoes
    <3>3. k - 1 = n
      BY <1>1, <3>2, OnePlace
    <3>4. k = n + 1 /\ n \in 1..13
      BY <2>1, <3>3
    <3> QED BY <3>1, <3>4
  <2>3. CASE \E d \in D, k \in 1..5 : OfStop(s, d, k)
    <3>1. PICK d \in D, k \in 1..5 : OfStop(s, d, k)
      BY <2>3
    <3>2. OfStop(Tail(s), d, k - 1)
      BY <2>1, <3>1, MainGoes
    <3> QED BY <1>1, <3>2, OnePlace
  <2> QED BY <2>2, <2>3 DEF OfMain
<1>2. ASSUME NEW d, NEW n, OfStop(Tail(s), d, n) PROVE OfStop(s, d, n + 1) /\ n \in 1..4
  <2>1. Tail(s) # <<>> /\ n \in 1..5
    BY <1>2, StopPlace
  <2>2. CASE \E k \in 1..14 : OfInit(s, k)
    <3>1. PICK k \in 1..14 : OfInit(s, k)
      BY <2>2
    <3>2. OfInit(Tail(s), k - 1)
      BY <2>1, <3>1, MainGoes
    <3> QED BY <1>2, <3>2, OnePlace
  <2>3. CASE \E e \in D, k \in 1..5 : OfStop(s, e, k)
    <3>1. PICK e \in D, k \in 1..5 : OfStop(s, e, k)
      BY <2>3
    <3>2. OfStop(Tail(s), e, k - 1)
      BY <2>1, <3>1, MainGoes
    <3>3. k - 1 = n /\ e = d
      BY <1>2, <3>2, OnePlace
    <3>4. k = n + 1 /\ n \in 1..4
      BY <2>1, <3>3
    <3> QED BY <3>1, <3>3, <3>4
  <2> QED BY <2>2, <2>3 DEF OfMain
<1> QED BY <1>1, <1>2

(* A step that makes no streaming thread and, of those gone, no device. *)
Keeps == \A d \in D : tid[d] = None => tid'[d] = None /\ (dev[d] = None => dev'[d] = None)

(* InitDone, where main does not move. *)
LEMMA DoneStays ==
  ASSUME InitDone, Keeps, work'["main"] = work["main"]
  PROVE  InitDone'
<1>1. \A n \in 1..14, d \in D : n < Base(d) + 1 => n < Base(d) + 3
  BY DEF Base, D
<1>2. \A n : InInit(n)' => InInit(n)
  BY DEF InInit
<1> QED BY <1>1, <1>2 DEF InitDone, Keeps

(* InitDone, where main has joined the thread that it is to join, and so on. *)
LEMMA DoneGoes ==
  ASSUME InitDone, Keeps, MainWork, work["main"] # <<>>, work'["main"] = Tail(work["main"]),
         \A d \in D : Head(work["main"]) = <<"join", d>> => tid'[d] = None,
         \A d \in D : Head(work["main"]) = <<"null", d>> => dev'[d] = None
  PROVE  InitDone'
<1> SUFFICES ASSUME NEW n \in 1..14, NEW d \in D, InInit(n)'
             PROVE  (n < Base(d) + 3 => tid'[d] = None) /\ (n < Base(d) + 1 => dev'[d] = None)
  BY DEF InitDone
<1>1. OfInit(work["main"], n + 1) /\ n \in 1..13
  BY MainCame DEF InInit, MainWork
<1>2. Head(work["main"]) = InitOps[n + 1] /\ n + 1 \in 1..14
  BY <1>1, InitPlace
<1>3. (n + 1 < Base(d) + 3 => tid[d] = None) /\ (n + 1 < Base(d) + 1 => dev[d] = None)
  BY <1>1, <1>2 DEF InitDone, InInit
<1>4. Base(d) \in {1, 6} /\ InitOps[Base(d) + 3] = <<"join", d>> /\ InitOps[Base(d) + 1] = <<"null", d>>
  BY DEF Base, D, InitOps
<1>5. n < Base(d) + 3 => tid'[d] = None
  <2>1. CASE n + 1 = Base(d) + 3
    BY <1>2, <1>4, <2>1
  <2>2. CASE n + 1 # Base(d) + 3
    BY <1>3, <1>4, <2>2 DEF Keeps
  <2> QED BY <2>1, <2>2
<1>6. n < Base(d) + 1 => dev'[d] = None
  <2>1. CASE n + 1 = Base(d) + 1
    BY <1>2, <1>4, <2>1
  <2>2. CASE n + 1 # Base(d) + 1
    <3>1. n < Base(d) + 1 => n + 1 < Base(d) + 3 /\ n + 1 < Base(d) + 1
      BY <1>4, <2>2
    <3> QED BY <1>3, <3>1 DEF Keeps
  <2> QED BY <2>1, <2>2
<1> QED BY <1>5, <1>6

(* No thread of a pthread_t left. *)
LEMMA Joined ==
  ASSUME Pids, NEW x, Joinable(x), Join(x)
  PROVE  /\ tid' \in [T -> Threads \cup {None}] /\ (x \in T => tid'[x] = None)
         /\ \A y \in T : tid[y] = None => tid'[y] = None
         /\ \A y \in T : tid'[y] # None => tid'[y] = tid[y]
         /\ \A y \in T : tid'[y] = None => pc[y] \in Gone
BY DEF Pids, Joinable, Join, Named, Gone

(* A thread made. *)
LEMMA Created ==
  ASSUME Pids, NEW x \in T, NEW start \in Places, Create(x, start)
  PROVE  /\ Pids'
         /\ \A y \in T \ {x} : tid'[y] = tid[y] /\ handle'[y] = handle[y] /\ pc'[y] = pc[y]
                               /\ cancelled'[y] = cancelled[y]
         /\ tid'[x] # None /\ pc'[x] = start
<1>1. PICK t \in Offered : /\ tid' = [tid EXCEPT ![x] = t] /\ handle' = [handle EXCEPT ![x] = t]
                           /\ pc' = [pc EXCEPT ![x] = start]
                           /\ cancelled' = [cancelled EXCEPT ![x] = FALSE]
  BY DEF Create, Goto
<1>2. t \in Threads /\ t # None
  <2>1. t \in Free
    <3> DEFINE other == Free \ {handle[y] : y \in T}
    <3>1. other # {} => (CHOOSE u \in other : TRUE) \in other
      OBVIOUS
    <3> QED BY <3>1 DEF Offered
  <2> QED BY <2>1, RingAssumption DEF Free
<1> QED BY <1>1, <1>2 DEF Pids

(* A thread that runs moves. *)
LEMMA Moved ==
  ASSUME Pids, NEW x \in T, pc[x] \notin Gone, NEW to \in Places, Goto(x, to),
         UNCHANGED <<cancelled, tid, handle>>
  PROVE  Pids' /\ \A y \in T \ {x} : pc'[y] = pc[y]
BY DEF Pids, Goto

(* Main's work is not touched. *)
LEMMA QuietStays ==
  ASSUME QuietInv, Pids', Works', Keeps, work'["main"] = work["main"],
         dev' \in [D -> {None, "made", "buffer", "deleted"}]
  PROVE  QuietInv'
BY DoneStays DEF QuietInv, MainWork

(* A step of a streaming thread. *)
LEMMA QuietStreaming ==
  ASSUME QuietInv, NEW d \in D, Streaming(d)
  PROVE  QuietInv'
<1> d \in T /\ D \subseteq T
  BY DEF T
<1>1. CASE EnableFails(d) \/ DieInDestructor(d)
  <2>1. UNCHANGED <<pc, cancelled, tid, handle, dev, work>>
    BY <1>1 DEF EnableFails, DieInDestructor, StillThreads, threads, ctl
  <2> QED BY <2>1, QuietStays DEF QuietInv, Pids, Works, Keeps
<1>2. CASE ~(EnableFails(d) \/ DieInDestructor(d))
  <2>1. /\ UNCHANGED <<cancelled, tid, handle, work>> /\ pc[d] \notin Gone
        /\ \E to \in Places : Goto(d, to)
        /\ dev' = dev \/ \E v \in {None, "made", "buffer", "deleted"} : dev' = [dev EXCEPT ![d] = v]
    BY <1>2 DEF Streaming, Begin, Construct, EnableChannels, Check, TransferFails, DisableChannels,
                Delete, SetNull, Announce, Die, Device, Move, StillThreads, ctl, threads, Places,
                Gone, CancelPoints
  <2>2. Pids' /\ tid[d] # None
    BY <2>1, Moved DEF QuietInv, Pids
  <2>3. Keeps /\ dev' \in [D -> {None, "made", "buffer", "deleted"}]
    BY <2>1, <2>2 DEF Keeps, QuietInv
  <2>4. Works' /\ work'["main"] = work["main"]
    BY <2>1 DEF QuietInv, Works
  <2> QED BY <2>2, <2>3, <2>4, QuietStays
<1> QED BY <1>1, <1>2

(* A step of streamTX in its loop, or of streamRX. *)
LEMMA QuietTransfer ==
  ASSUME QuietInv, Transmit \/ ReceiveAndSend
  PROVE  QuietInv'
<1> D \subseteq T
  BY DEF T
<1>1. PICK d \in D : /\ UNCHANGED <<cancelled, tid, handle, work, dev>> /\ pc[d] \notin Gone
                     /\ \E to \in Places : Goto(d, to)
  BY DEF Transmit, FrameWaiting, CopyFirst, CopyRest, CopyHalf, CountSent, PushBuffer,
         ReceiveAndSend, Move, StillThreads, ctl, threads, Places, Gone, D
<1>2. Pids'
  BY <1>1, Moved DEF QuietInv
<1> QED BY <1>1, <1>2, QuietStays DEF QuietInv, Works, Keeps

(* A step of the receiver. *)
LEMMA QuietReceiver ==
  ASSUME QuietInv, Receiver
  PROVE  QuietInv'
<1> "recv" \in T
  BY DEF T
<1>1. /\ UNCHANGED <<cancelled, tid, handle, dev>> /\ pc["recv"] \notin Gone
      /\ \E to \in Places : Goto("recv", to)
      /\ work' = work \/ \E s : work' = [work EXCEPT !["recv"] = s]
  BY DEF Receiver, RecvCall, RecvFirst, RecvRest, RecvCount, Die, Fail, ctl, Places, Gone, CancelPoints
<1>2. Pids'
  BY <1>1, Moved DEF QuietInv
<1>3. Works' /\ work'["main"] = work["main"]
  BY <1>1 DEF QuietInv, Works
<1> QED BY <1>1, <1>2, <1>3, QuietStays DEF QuietInv, Keeps

(* A cancellation takes nothing back. *)
LEMMA CancelGrows ==
  ASSUME Pids, NEW x, Cancel(x)
  PROVE  /\ cancelled' \in [T -> BOOLEAN]
         /\ \A y \in T : cancelled[y] => cancelled'[y]
         /\ x \in T /\ tid[x] # None => cancelled'[x]
<1> DEFINE on(y) == cancelled[y] \/ y \in Named(x)
<1>1. cancelled' = [y \in T |-> on(y)]
  BY DEF Cancel
<1>2. \A y \in T : on(y) \in BOOLEAN /\ (cancelled[y] => on(y)) /\ (y \in Named(x) => on(y))
  BY Zenon
<1>3. x \in T /\ tid[x] # None => x \in Named(x)
  BY DEF Named, Pids
<1> HIDE DEF on
<1> QED BY <1>1, <1>2, <1>3

(* An operation of a stop. *)
LEMMA QuietStopping ==
  ASSUME QuietInv, NEW w \in {"main", "recv"}, Stopping(w)
  PROVE  QuietInv'
<1> DEFINE x == Head(work[w])[2]
<1> D \subseteq T
  BY DEF T
<1>1. /\ work[w] # <<>> /\ Works' /\ work'[w] = Tail(work[w]) /\ UNCHANGED <<pc, handle>>
      /\ w = "recv" => work'["main"] = work["main"]
  BY DEF QuietInv, Works, Stopping, Clear, CancelThread, JoinThread, FreeDevice, NullDevice, Doing,
         Done, threads
<1>2. CASE Clear(w) \/ FreeDevice(w) \/ NullDevice(w)
  <2>1. UNCHANGED <<pc, cancelled, tid, handle>>
    BY <1>2 DEF Clear, FreeDevice, NullDevice, threads
  <2>2. Pids'
    BY <2>1 DEF QuietInv, Pids
  <2>3. dev' = dev \/ \E v \in {None, "deleted"} :
          dev' = [dev EXCEPT ![x] = v] /\ (v = None \/ dev[x] # None)
    BY <1>2 DEF Clear, FreeDevice, NullDevice
  <2>4. dev' \in [D -> {None, "made", "buffer", "deleted"}] /\ Keeps
    <3>1. \A d \in D : dev[d] = None => dev'[d] = None
      BY <2>3 DEF QuietInv
    <3> QED BY <2>1, <2>3, <3>1 DEF QuietInv, Keeps
  <2>5. ~(Head(work[w])[1] = "join") /\ (Head(work[w])[1] = "null" => dev' = [dev EXCEPT ![x] = None])
    BY <1>2 DEF Clear, FreeDevice, NullDevice, Doing
  <2>6. CASE w = "recv"
    BY <1>1, <2>2, <2>4, <2>6, QuietStays
  <2>7. CASE w = "main"
    <3>1. \A d \in D : Head(work["main"]) = <<"null", d>> => dev'[d] = None
      BY <2>5, <2>7 DEF QuietInv
    <3>2. \A d \in D : Head(work["main"]) # <<"join", d>>
      BY <2>5, <2>7
    <3>3. InitDone' /\ MainWork'
      BY <1>1, <2>4, <2>7, <3>1, <3>2, DoneGoes, MainGoes DEF QuietInv, MainWork
    <3> QED BY <1>1, <2>2, <2>4, <3>3 DEF QuietInv
  <2> QED BY <2>6, <2>7
<1>3. CASE CancelThread(w)
  <2>1. UNCHANGED <<pc, tid, handle, dev>> /\ Cancel(x) /\ Head(work[w])[1] = "cancel"
    BY <1>3 DEF CancelThread, ctl, Doing
  <2>2. Pids' /\ Keeps
    BY <2>1, CancelGrows DEF QuietInv, Pids, Keeps
  <2>3. CASE w = "recv"
    BY <1>1, <2>1, <2>2, <2>3, QuietStays DEF QuietInv
  <2>4. CASE w = "main"
    <3>1. \A d \in D : Head(work["main"]) # <<"join", d>> /\ Head(work["main"]) # <<"null", d>>
      BY <2>1, <2>4
    <3>2. InitDone' /\ MainWork'
      BY <1>1, <2>2, <2>4, <3>1, DoneGoes, MainGoes DEF QuietInv, MainWork
    <3> QED BY <1>1, <2>1, <2>2, <3>2 DEF QuietInv
  <2> QED BY <2>3, <2>4
<1>4. CASE JoinThread(w)
  <2>1. UNCHANGED <<pc, cancelled, handle, dev>> /\ Joinable(x) /\ Join(x) /\ Head(work[w])[1] = "join"
    BY <1>4 DEF JoinThread, ctl, Doing
  <2>2. Pids' /\ Keeps
    <3>1. /\ tid' \in [T -> Threads \cup {None}]
          /\ \A y \in T : (tid[y] = None => tid'[y] = None) /\ (tid'[y] # None => tid'[y] = tid[y])
                           /\ (tid'[y] = None => pc[y] \in Gone)
      BY <2>1, Joined DEF QuietInv
    <3> QED BY <2>1, <3>1 DEF QuietInv, Pids, Keeps
  <2>3. CASE w = "recv"
    BY <1>1, <2>1, <2>2, <2>3, QuietStays DEF QuietInv
  <2>4. CASE w = "main"
    <3>1. \A d \in D : Head(work["main"]) # <<"null", d>>
      BY <2>1, <2>4
    <3>2. x \in T => tid'[x] = None
      BY <2>1, Joined DEF QuietInv
    <3>3. \A d \in D : Head(work["main"]) = <<"join", d>> => tid'[d] = None
      BY <2>4, <3>2
    <3>4. InitDone' /\ MainWork'
      BY <1>1, <2>2, <2>4, <3>1, <3>3, DoneGoes, MainGoes DEF QuietInv, MainWork
    <3> QED BY <1>1, <2>1, <2>2, <3>4 DEF QuietInv
  <2> QED BY <2>3, <2>4
<1> QED BY <1>2, <1>3, <1>4 DEF Stopping

(* The end of a failed receiver. *)
LEMMA QuietFailed ==
  ASSUME QuietInv, CloseSockets \/ DieStopping
  PROVE  QuietInv'
<1>1. /\ UNCHANGED <<cancelled, tid, handle, dev>> /\ Goto("recv", "ended")
      /\ \E s : work' = [work EXCEPT !["recv"] = s]
  BY DEF CloseSockets, DieStopping, Done, ctl
<1>2. Pids'
  BY <1>1 DEF QuietInv, Pids, Goto, Places, Gone
<1>3. Works' /\ work'["main"] = work["main"]
  BY <1>1 DEF QuietInv, Works
<1> QED BY <1>1, <1>2, <1>3, QuietStays DEF QuietInv, Keeps

(* The receiver of a new host. *)
LEMMA QuietDummy ==
  ASSUME QuietInv, Dummy
  PROVE  QuietInv'
<1>1. /\ work["main"] # <<>> /\ Works' /\ work'["main"] = Tail(work["main"]) /\ dev' = dev
      /\ Head(work["main"])[1] = "dummy"
  BY DEF QuietInv, Works, Dummy, Doing, Done
<1>2. Pids' /\ Keeps
  <2>1. CASE UNCHANGED threads
    BY <1>1, <2>1 DEF threads, QuietInv, Pids, Keeps
  <2>2. CASE Create("recv", "loop")
    <3>1. "recv" \in T /\ "loop" \in Places /\ \A d \in D : d \in T \ {"recv"}
      BY DEF T, D, Places
    <3>2. Pids' /\ \A d \in D : tid'[d] = tid[d]
      BY <2>2, <3>1, Created DEF QuietInv
    <3> QED BY <1>1, <3>2 DEF Keeps
  <2> QED BY <2>1, <2>2 DEF Dummy
<1>3. \A d \in D : Head(work["main"]) # <<"null", d>> /\ Head(work["main"]) # <<"join", d>>
  BY <1>1
<1>4. InitDone' /\ MainWork'
  BY <1>1, <1>2, <1>3, DoneGoes, MainGoes DEF QuietInv, MainWork
<1> QED BY <1>1, <1>2, <1>4 DEF QuietInv

(* The work of a new init begins before any join. *)
LEMMA QuietInit ==
  ASSUME QuietInv, InitClient
  PROVE  QuietInv'
<1>1. /\ UNCHANGED <<pc, cancelled, tid, handle, dev>>
      /\ work' = [work EXCEPT !["main"] = (IF running THEN StopReceiver ELSE <<>>)
                     \o Stop("RX") \o Stop("TX") \o << <<"dummy", "recv">> >>]
  BY DEF InitClient, threads, ctl
<1>2. Works' /\ work'["main"] = IF running THEN Left(InitOps, 14) ELSE Left(InitOps, 11)
  BY <1>1, InitIs DEF QuietInv, Works
<1>3. \E n \in {11, 14} : OfInit(work'["main"], n)
  BY <1>2 DEF OfInit
<1>4. MainWork'
  BY <1>3 DEF MainWork, OfMain
<1>5. InitDone'
  <2> SUFFICES ASSUME NEW n \in 1..14, NEW d \in D, OfInit(work'["main"], n)
               PROVE  ~(n < Base(d) + 3)
    BY DEF InitDone, InInit, Base, D
  <2>1. n \in {11, 14}
    BY <1>3, OnePlace
  <2> QED BY <2>1 DEF Base, D
<1> QED BY <1>1, <1>2, <1>4, <1>5 DEF QuietInv, Pids

(* "start", and the sizes. *)
LEMMA QuietStart ==
  ASSUME QuietInv, NEW d \in D, SetBufferSize(d) \/ StartStream(d)
  PROVE  QuietInv'
<1>1. work["main"] = <<>> /\ work' = work /\ dev' = dev
  BY DEF SetBufferSize, StartStream, Idle, ctl
<1>2. Pids'
  <2>1. CASE UNCHANGED threads
    BY <2>1 DEF threads, QuietInv, Pids
  <2>2. CASE Create(d, "begin")
    <3>1. d \in T /\ "begin" \in Places
      BY DEF T, Places
    <3> QED BY <2>2, <3>1, Created DEF QuietInv
  <2> QED BY <2>1, <2>2 DEF SetBufferSize, StartStream
<1>3. \A n : ~InInit(n)'
  BY <1>1, InitPlace DEF InInit
<1> QED BY <1>1, <1>2, <1>3 DEF QuietInv, Works, MainWork, OfMain, InitDone

(* "stop". *)
LEMMA QuietStop ==
  ASSUME QuietInv, NEW d \in D, NEW then, StopStream(d, then)
  PROVE  QuietInv'
<1>1. /\ work["main"] = <<>> /\ UNCHANGED <<pc, cancelled, tid, handle, dev>>
      /\ work' = work \/ work' = [work EXCEPT !["main"] = Stop(d)]
  BY DEF StopStream, Idle, ctl, threads
<1>2. Works' /\ (work'["main"] = <<>> \/ OfStop(work'["main"], d, 5))
  BY <1>1, StopIs DEF QuietInv, Works, OfStop
<1>3. \A n : ~InInit(n)'
  BY <1>2, InitPlace, OnePlace DEF InInit
<1>4. MainWork' /\ InitDone'
  BY <1>2, <1>3 DEF MainWork, OfMain, InitDone
<1> QED BY <1>1, <1>2, <1>4 DEF QuietInv, Pids

(* Every step. *)
LEMMA QuietStep ==
  ASSUME QuietInv, [Next]_vars
  PROVE  QuietInv'
<1>1. CASE Command
  BY <1>1, QuietInit, QuietStart, QuietStop DEF Command
<1>2. CASE Dummy \/ Receiver \/ Transmit \/ ReceiveAndSend \/ CloseSockets \/ DieStopping
  BY <1>2, QuietDummy, QuietReceiver, QuietTransfer, QuietFailed
<1>3. CASE \E d \in D : Streaming(d)
  BY <1>3, QuietStreaming
<1>4. CASE \E w \in {"main", "recv"} : Stopping(w)
  BY <1>4, QuietStopping
<1>5. CASE UNCHANGED vars
  BY <1>5 DEF vars, threads, ctl, QuietInv, Pids, Works, MainWork, InitDone, InInit
<1> QED BY <1>1, <1>2, <1>3, <1>4, <1>5 DEF Next

(* At first main has nothing to do, and there is no thread. *)
LEMMA QuietHolds == Init => QuietInv
<1> SUFFICES ASSUME Init PROVE QuietInv
  OBVIOUS
<1>1. work["main"] = <<>> /\ Works
  BY DEF Init, Works
<1>2. \A n : ~InInit(n)
  BY <1>1, InitPlace DEF InInit
<1>3. Pids
  BY DEF Init, Pids, Places, Gone, None
<1> QED BY <1>1, <1>2, <1>3 DEF Init, QuietInv, MainWork, OfMain, InitDone

(* It is an invariant. *)
LEMMA QuietInvariant == Spec => []QuietInv
<1>1. QuietInv /\ [Next]_vars => QuietInv'
  BY QuietStep
<1> QED BY QuietHolds, <1>1, PTL DEF Spec

(* When initClient waits for its dummy, no streaming thread of the host
   before runs and no device of theirs is left, however the stops went. *)
THEOREM InitFindsAllGone == Spec => []InitQuiesces
<1>1. ASSUME QuietInv PROVE InitQuiesces
  <2> SUFFICES ASSUME work["main"] # <<>>, Head(work["main"])[1] = "dummy", NEW d \in D
               PROVE  pc[d] \in Gone /\ dev[d] = None
    BY DEF InitQuiesces, Doing
  <2>1. CASE \E n \in 1..14 : OfInit(work["main"], n)
    <3>1. PICK n \in 1..14 : OfInit(work["main"], n)
      BY <2>1
    <3>2. InitOps[n][1] = "dummy"
      BY <3>1, InitPlace
    <3>3. n = 1
      BY <3>2, InitOp
    <3>4. tid[d] = None /\ dev[d] = None
      BY <1>1, <3>1, <3>3 DEF QuietInv, InitDone, InInit, Base
    <3> QED BY <1>1, <3>4 DEF QuietInv, Pids, T
  <2>2. CASE \E e \in D, n \in 1..5 : OfStop(work["main"], e, n)
    <3>1. PICK e \in D, n \in 1..5 : OfStop(work["main"], e, n)
      BY <2>2
    <3> QED BY <3>1, StopPlace, StopOp
  <2> QED BY <1>1, <2>1, <2>2 DEF QuietInv, MainWork, OfMain
<1>2. QuietInv => InitQuiesces
  BY <1>1
<1> QED BY QuietInvariant, <1>2, PTL

-----------------------------------------------------------------------------
(***************************************************************************)
(* start makes no second thread, and no device is deleted twice: what main *)
(* and a failed receiver have still to do for each direction.              *)
(***************************************************************************)
OfFail(s, n) == n \in 1..11 /\ s = Left(FailOps, n)
InFail(n) == OfFail(work["recv"], n)

(* main will yet join the thread of d. *)
MainWillJoin(d) ==
  \/ \E n \in 1..14 : InInit(n) /\ n >= Base(d) + 3
  \/ \E n \in 3..5 : InStop(d, n)

(* The receiver has cleared d's flag, and is to join its thread. *)
FailWillJoin(d) == InFail(Base(d) + 3) \/ InFail(Base(d) + 4)

(* The thread was cancelled, perhaps by the receiver that was itself
   cancelled before it could join it. *)
Leaving(d) == cancelled[d] /\ pc["recv"] = "ended"

(* The receiver runs while its flag is set, or init stops it. *)
RecvStops ==
  /\ \A n \in 1..14 : InInit(n) => (n < 14 => ~running) /\ (n < 12 => tid["recv"] = None)
  /\ ~running => tid["recv"] = None \/ \E n \in 12..14 : InInit(n)

StopDone == \A d \in D, n \in 1..2 : InStop(d, n) => tid[d] = None

FailWork ==
  /\ pc["recv"] # "failed" => work["recv"] = <<>>
  /\ pc["recv"] = "failed" => \E n \in 1..11 : InFail(n)

FailDone ==
  \A d \in D, n \in 1..11 : InFail(n) =>
    /\ n < Base(d) + 3 => tid[d] = None
    /\ n = Base(d) + 3 => pc[d] \in Gone \/ cancelled[d]

(* A thread whose flag is cleared will be joined, or is leaving. *)
WillJoin ==
  \A d \in D : up /\ pc[d] \notin Gone /\ ~active[d] =>
    MainWillJoin(d) \/ FailWillJoin(d) \/ Leaving(d)

(* The pointer to a deleted device is about to be reset. *)
WillReset ==
  \A d \in D : up /\ dev[d] = "deleted" =>
    pc[d] = "null" \/ InInit(Base(d) + 1) \/ InStop(d, 1) \/ InFail(Base(d) + 1)

(* The driver's start follows its stop. *)
StopFirst ==
  \A d \in D : up /\ host = d => pc[d] \in Gone \/ MainWillJoin(d) \/ Leaving(d)

Stops == RecvStops /\ StopDone /\ FailWork /\ FailDone /\ WillJoin /\ WillReset /\ StopFirst

StopInv == QuietInv /\ active \in [D -> BOOLEAN] /\ Stops

(* A failed receiver's place. *)
LEMMA FailPlace ==
  ASSUME NEW s, NEW n, OfFail(s, n)
  PROVE  /\ s # <<>> /\ Head(s) = FailOps[n]
         /\ Tail(s) = Left(FailOps, n - 1) /\ n - 1 \in Nat
         /\ Len(s) = n /\ n \in 1..11
         /\ IF n = 1 THEN Tail(s) = <<>> ELSE OfFail(Tail(s), n - 1)
<1>1. n \in Nat /\ n > 0 /\ n - 1 \in Nat /\ n \in 1..11 /\ s = Left(FailOps, n)
  BY DEF OfFail
<1>2. Tail(s) = Left(FailOps, n - 1)
  BY <1>1, LeftNext
<1>3. ASSUME n = 1 PROVE Tail(s) = <<>>
  <2>1. n - 1 = 0
    BY <1>3
  <2> QED BY <1>2, <2>1, LeftNone
<1>4. n # 1 => OfFail(Tail(s), n - 1)
  <2>1. n # 1 => n - 1 \in 1..11
    BY <1>1
  <2> QED BY <1>2, <2>1 DEF OfFail
<1> QED BY <1>1, <1>2, <1>3, <1>4, LeftNext, LeftSeq

(* It is one. *)
LEMMA OneFailPlace ==
  ASSUME NEW s, NEW n, NEW m, OfFail(s, n), OfFail(s, m)
  PROVE  n = m
<1>1. Len(s) = n
  BY FailPlace
<1>2. Len(s) = m
  BY FailPlace
<1> QED BY <1>1, <1>2

(* Its next operation, by its name. *)
LEMMA FailDoes ==
  ASSUME NEW s, NEW n, OfFail(s, n), NEW r \in 1..5, Head(s)[1] = OpName[r]
  PROVE  Head(s)[2] \in D /\ n = Base(Head(s)[2]) + r
<1>1. Head(s) = FailOps[n] /\ n \in 1..11
  BY FailPlace
<1>2. FailOps[n][1] = OpName[r]
  BY <1>1
<1>3. n > 1
  <2>1. OpName[r] # "close"
    <3> r = 1 \/ r = 2 \/ r = 3 \/ r = 4 \/ r = 5
      OBVIOUS
    <3> QED BY DEF OpName
  <2>2. FailOps[1][1] = "close"
    BY DEF FailOps
  <2> QED BY <1>1, <1>2, <2>1, <2>2
<1> QED BY <1>1, <1>2, <1>3, FailOp

(* main does not move. *)
LEMMA SameMain ==
  ASSUME work'["main"] = work["main"]
  PROVE  /\ \A n : InInit(n)' <=> InInit(n)
         /\ \A d, n : InStop(d, n)' <=> InStop(d, n)
         /\ \A d : MainWillJoin(d)' <=> MainWillJoin(d)
<1>1. \A n : InInit(n)' <=> InInit(n)
  BY DEF InInit
<1>2. \A d, n : InStop(d, n)' <=> InStop(d, n)
  BY DEF InStop
<1> QED BY <1>1, <1>2 DEF MainWillJoin

(* The receiver does not move. *)
LEMMA SameFail ==
  ASSUME work'["recv"] = work["recv"]
  PROVE  /\ \A n : InFail(n)' <=> InFail(n)
         /\ \A d : FailWillJoin(d)' <=> FailWillJoin(d)
<1>1. \A n : InFail(n)' <=> InFail(n)
  BY DEF InFail
<1> QED BY <1>1 DEF FailWillJoin

(* A streaming thread, or the program, moves. *)
LEMMA StreamKeeps ==
  ASSUME Stops, NEW d \in D,
         UNCHANGED <<tid, cancelled, work, running, host>>, up' => up,
         pc' = pc \/ (pc[d] \notin Gone /\ \E to : pc' = [pc EXCEPT ![d] = to]), Pids,
         \A e \in D \ {d} : active'[e] = active[e] /\ dev'[e] = dev[e],
         up' /\ pc'[d] \notin Gone /\ ~active'[d] => ~active[d],
         up' /\ dev'[d] = "deleted" => pc'[d] = "null" \/ (dev[d] = "deleted" /\ pc[d] # "null")
  PROVE  Stops'
<1> D \subseteq T /\ "recv" \notin D /\ "recv" \in T
  BY DEF T, D
<1>1. /\ \A n : InInit(n)' <=> InInit(n)
      /\ \A e, n : InStop(e, n)' <=> InStop(e, n)
      /\ \A e : MainWillJoin(e)' <=> MainWillJoin(e)
      /\ \A n : InFail(n)' <=> InFail(n)
      /\ \A e : FailWillJoin(e)' <=> FailWillJoin(e)
  BY SameMain, SameFail
<1>2. /\ pc'["recv"] = pc["recv"] /\ \A e \in D \ {d} : pc'[e] = pc[e]
      /\ \A e \in D : pc[e] \in Gone => pc'[e] \in Gone
  BY DEF Pids
<1>3. RecvStops' /\ StopDone'
  BY <1>1 DEF Stops, RecvStops, StopDone
<1>4. FailWork' /\ FailDone'
  BY <1>1, <1>2 DEF Stops, FailWork, FailDone
<1>5. \A e \in D : Leaving(e)' <=> Leaving(e)
  BY <1>2 DEF Leaving
<1>6. WillJoin'
  BY <1>1, <1>2, <1>5 DEF Stops, WillJoin
<1>7. WillReset'
  BY <1>1, <1>2 DEF Stops, WillReset
<1>8. StopFirst'
  BY <1>1, <1>2, <1>5 DEF Stops, StopFirst
<1> QED BY <1>3, <1>4, <1>6, <1>7, <1>8 DEF Stops

(* A step of a streaming thread. *)
LEMMA StopsStreaming ==
  ASSUME StopInv, NEW d \in D, Streaming(d)
  PROVE  Stops'
<1>1. CASE EnableFails(d) \/ DieInDestructor(d)
  <2>1. up' = FALSE /\ UNCHANGED <<tid, cancelled, work, running, host, pc, active, dev>>
    BY <1>1 DEF EnableFails, DieInDestructor, StillThreads, threads, ctl
  <2> QED BY <2>1, StreamKeeps DEF StopInv, QuietInv
<1>2. CASE ~(EnableFails(d) \/ DieInDestructor(d))
  <2>1. /\ UNCHANGED <<tid, cancelled, work, running, host, up>> /\ pc[d] \notin Gone
        /\ \E to : pc' = [pc EXCEPT ![d] = to]
    BY <1>2 DEF Streaming, Begin, Construct, EnableChannels, Check, TransferFails, DisableChannels,
                Delete, SetNull, Announce, Die, Device, Move, StillThreads, ctl, Goto, Gone, CancelPoints
  <2>2. \/ active' = active
        \/ active' = [active EXCEPT ![d] = TRUE]
        \/ active' = [active EXCEPT ![d] = FALSE] /\ pc' = [pc EXCEPT ![d] = "ended"]
    BY <1>2 DEF Streaming, Begin, Construct, EnableChannels, Check, TransferFails, DisableChannels,
                Delete, SetNull, Announce, Die, Device, Move, ctl, Goto
  <2>3. \/ dev' = dev /\ pc[d] # "null"
        \/ \E v \in {None, "made", "buffer"} : dev' = [dev EXCEPT ![d] = v]
        \/ dev' = [dev EXCEPT ![d] = "deleted"] /\ pc' = [pc EXCEPT ![d] = "null"]
    BY <1>2 DEF Streaming, Begin, Construct, EnableChannels, Check, TransferFails, DisableChannels,
                Delete, SetNull, Announce, Die, Device, Move, ctl, Goto, CancelPoints
  <2>4. pc \in [T -> Places] /\ d \in T /\ active \in [D -> BOOLEAN] /\ dev \in [D -> {None, "made", "buffer", "deleted"}]
    BY DEF StopInv, QuietInv, Pids, T
  <2>5. \A e \in D \ {d} : active'[e] = active[e] /\ dev'[e] = dev[e]
    BY <2>2, <2>3, <2>4
  <2>6. pc'[d] \notin Gone /\ ~active'[d] => ~active[d]
    BY <2>2, <2>4 DEF Gone
  <2>7. dev'[d] = "deleted" => pc'[d] = "null" \/ (dev[d] = "deleted" /\ pc[d] # "null")
    BY <2>3, <2>4 DEF None
  <2> QED BY <2>1, <2>5, <2>6, <2>7, StreamKeeps DEF StopInv, QuietInv
<1> QED BY <1>1, <1>2

(* A step of streamTX in its loop, or of streamRX. *)
LEMMA StopsTransfer ==
  ASSUME StopInv, Transmit \/ ReceiveAndSend
  PROVE  Stops'
<1>1. PICK d \in D : /\ UNCHANGED <<tid, cancelled, work, running, host, up, active, dev>>
                     /\ pc[d] \notin Gone /\ pc[d] # "null"
                     /\ \E to : pc' = [pc EXCEPT ![d] = to]
  BY DEF Transmit, FrameWaiting, CopyFirst, CopyRest, CopyHalf, CountSent, PushBuffer,
         ReceiveAndSend, Move, StillThreads, ctl, threads, Goto, Gone, D
<1> QED BY <1>1, StreamKeeps DEF StopInv, QuietInv

(* A step of the receiver: when it fails, it is to stop both directions. *)
LEMMA StopsReceiver ==
  ASSUME StopInv, Receiver
  PROVE  Stops'
<1> D \subseteq T /\ "recv" \notin D /\ "recv" \in T
  BY DEF T, D
<1>1. /\ UNCHANGED <<tid, cancelled, running, host, up, active, dev>> /\ pc["recv"] \notin Gone
      /\ pc["recv"] # "failed"
      /\ \/ work' = work /\ \E to \in Places \ {"failed"} : pc' = [pc EXCEPT !["recv"] = to]
         \/ Fail
  BY DEF Receiver, RecvCall, RecvFirst, RecvRest, RecvCount, Die, ctl, Goto, Places, Gone, CancelPoints
<1>2. work' = work \/ work' = [work EXCEPT !["recv"] = Left(FailOps, 11)]
  BY <1>1, FailIs DEF Fail
<1>3. work'["main"] = work["main"]
  BY <1>2 DEF StopInv, QuietInv, Works
<1>4. work["recv"] = <<>> /\ \A n : ~InFail(n)
  <2>1. work["recv"] = <<>>
    BY <1>1 DEF StopInv, Stops, FailWork
  <2> QED BY <2>1, FailPlace DEF InFail
<1>5. /\ \A n : InInit(n)' <=> InInit(n)
      /\ \A e, n : InStop(e, n)' <=> InStop(e, n)
      /\ \A e : MainWillJoin(e)' <=> MainWillJoin(e)
  BY <1>3, SameMain
<1>6. /\ \A e \in D : pc'[e] = pc[e]
      /\ \/ work'["recv"] = <<>> /\ pc'["recv"] # "failed"
         \/ OfFail(work'["recv"], 11) /\ pc'["recv"] = "failed"
  <2>1. CASE work' = work /\ \E to \in Places \ {"failed"} : pc' = [pc EXCEPT !["recv"] = to]
    BY <2>1, <1>4 DEF StopInv, QuietInv, Pids
  <2>2. CASE Fail
    <3>1. pc' = [pc EXCEPT !["recv"] = "failed"] /\ work' = [work EXCEPT !["recv"] = Left(FailOps, 11)]
      BY <2>2, FailIs DEF Fail, Goto
    <3> QED BY <3>1 DEF StopInv, QuietInv, Pids, Works, OfFail
  <2> QED BY <1>1, <2>1, <2>2
<1>7. RecvStops' /\ StopDone'
  BY <1>1, <1>5 DEF StopInv, Stops, RecvStops, StopDone
<1>8. FailWork'
  BY <1>6 DEF FailWork, InFail
<1>9. FailDone'
  <2>1. \A n : InFail(n)' => n = 11
    BY <1>6, OneFailPlace, FailPlace DEF InFail
  <2>2. \A d \in D : Base(d) \in {1, 6}
    BY DEF Base, D
  <2> QED BY <2>1, <2>2 DEF FailDone
<1>10. WillJoin'
  BY <1>1, <1>4, <1>5, <1>6 DEF StopInv, Stops, WillJoin, FailWillJoin, Leaving, Gone
<1>11. WillReset'
  BY <1>1, <1>4, <1>5, <1>6 DEF StopInv, Stops, WillReset
<1>12. StopFirst'
  BY <1>1, <1>5, <1>6 DEF StopInv, Stops, StopFirst, Leaving, Gone
<1> QED BY <1>7, <1>8, <1>9, <1>10, <1>11, <1>12 DEF Stops

(* main still will join d, unless it does now. *)
LEMMA StillWill ==
  ASSUME MainWork, work["main"] # <<>>, work'["main"] = Tail(work["main"]), NEW d \in D,
         MainWillJoin(d), Head(work["main"]) # <<"join", d>>
  PROVE  MainWillJoin(d)'
<1>1. CASE \E n \in 1..14 : InInit(n) /\ n >= Base(d) + 3
  <2>1. PICK n \in 1..14 : InInit(n) /\ n >= Base(d) + 3
    BY <1>1
  <2>2. Head(work["main"]) = InitOps[n]
    BY <2>1, InitPlace DEF InInit
  <2>3. Base(d) \in {1, 6} /\ InitOps[Base(d) + 3] = <<"join", d>>
    BY DEF Base, D, InitOps
  <2>4. n # Base(d) + 3
    BY <2>2, <2>3
  <2>5. n - 1 \in 1..14 /\ n - 1 >= Base(d) + 3 /\ n # 1
    BY <2>1, <2>3, <2>4
  <2>6. InInit(n - 1)'
    BY <2>1, <2>5, MainGoes DEF InInit, MainWork
  <2> QED BY <2>5, <2>6 DEF MainWillJoin
<1>2. CASE \E n \in 3..5 : InStop(d, n)
  <2>1. PICK n \in 3..5 : InStop(d, n)
    BY <1>2
  <2>2. Head(work["main"]) = StopOps(d)[n] /\ n \in 1..5
    BY <2>1, StopPlace DEF InStop
  <2>3. n # 3
    BY <2>2 DEF StopOps
  <2>4. n - 1 \in 3..5 /\ n # 1
    BY <2>1, <2>3
  <2>5. InStop(d, n - 1)'
    BY <2>1, <2>2, <2>4, MainGoes DEF InStop, MainWork
  <2> QED BY <2>4, <2>5 DEF MainWillJoin
<1> QED BY <1>1, <1>2 DEF MainWillJoin

(* What main does at its r-th operation for x: then it goes to the next. *)
LEMMA MainAt ==
  ASSUME MainWork, work["main"] # <<>>, work'["main"] = Tail(work["main"]), NEW d \in D, NEW r \in 2..5,
         Head(work["main"]) = <<OpName[r], d>>
  PROVE  InInit(Base(d) + (r - 1))' \/ InStop(d, r - 1)'
<1>1. r \in 1..5 /\ r - 1 \in 1..5 /\ r # 1 /\ Head(work["main"])[1] = OpName[r] /\ Head(work["main"])[2] = d
  OBVIOUS
<1>2. OfInit(work["main"], Base(d) + r) \/ OfStop(work["main"], d, r)
  BY <1>1, MainDoes DEF MainWork
<1>3. Base(d) + r # 1 /\ (Base(d) + r) - 1 = Base(d) + (r - 1)
  BY DEF Base, D
<1> QED BY <1>1, <1>2, <1>3, MainGoes DEF MainWork, InInit, InStop

(* When a pointer is to be reset, it is next. *)
LEMMA ResetIsNext ==
  ASSUME NEW d \in D, InInit(Base(d) + 1) \/ InStop(d, 1)
  PROVE  Head(work["main"]) = <<"null", d>>
<1>1. CASE InInit(Base(d) + 1)
  <2>1. Head(work["main"]) = InitOps[Base(d) + 1]
    BY <1>1, InitPlace DEF InInit
  <2> QED BY <2>1 DEF InitOps, Base, D
<1>2. CASE InStop(d, 1)
  <2>1. Head(work["main"]) = StopOps(d)[1]
    BY <1>2, StopPlace DEF InStop
  <2> QED BY <2>1 DEF StopOps
<1> QED BY <1>1, <1>2

(* main's next operation, of any kind, leaves what is left in order. *)
MainStep ==
  /\ work["main"] # <<>> /\ work'["main"] = Tail(work["main"]) /\ work'["recv"] = work["recv"]
  /\ UNCHANGED <<pc, host>> /\ (up' => up)
  /\ \A x \in T : /\ tid[x] = None => tid'[x] = None
                  /\ Head(work["main"]) = <<"join", x>> => tid'[x] = None /\ pc[x] \in Gone
                  /\ cancelled[x] => cancelled'[x]
  /\ IF Head(work["main"]) = <<"clear", "recv">> THEN ~running' ELSE running' = running
  /\ \A d \in D : /\ ~active'[d] => ~active[d] \/ Head(work["main"]) = <<"clear", d>>
                  /\ up' /\ dev'[d] = "deleted" =>
                       \/ dev[d] = "deleted" /\ Head(work["main"]) # <<"null", d>>
                       \/ Head(work["main"]) = <<"free", d>>

(* So all of the invariant stays. *)
LEMMA StopsMain ==
  ASSUME Stops, MainWork, MainStep
  PROVE  Stops'
<1> DEFINE op == Head(work["main"])
<1> D \subseteq T /\ "recv" \notin D /\ "recv" \in T
  BY DEF T, D
<1>1. work["main"] # <<>> /\ work'["main"] = Tail(work["main"]) /\ pc' = pc
  BY DEF MainStep
<1>2. /\ \A n : InFail(n)' <=> InFail(n)
      /\ \A e : FailWillJoin(e)' <=> FailWillJoin(e)
  BY SameFail DEF MainStep
<1>3. /\ \A n : InInit(n)' => InInit(n + 1) /\ n \in 1..13 /\ op = InitOps[n + 1]
      /\ \A d, n : InStop(d, n)' => InStop(d, n + 1) /\ n \in 1..4 /\ op = StopOps(d)[n + 1]
  <2>1. ASSUME NEW n, InInit(n)' PROVE InInit(n + 1) /\ n \in 1..13 /\ op = InitOps[n + 1]
    <3>1. OfInit(work["main"], n + 1) /\ n \in 1..13
      BY <1>1, <2>1, MainCame DEF InInit, MainWork
    <3> QED BY <3>1, InitPlace DEF InInit
  <2>2. ASSUME NEW d, NEW n, InStop(d, n)' PROVE InStop(d, n + 1) /\ n \in 1..4 /\ op = StopOps(d)[n + 1]
    <3>1. OfStop(work["main"], d, n + 1) /\ n \in 1..4
      BY <1>1, <2>2, MainCame DEF InStop, MainWork
    <3> QED BY <3>1, StopPlace DEF InStop
  <2> QED BY <2>1, <2>2
<1>4. RecvStops'
  <2>1. ASSUME NEW n \in 1..14, InInit(n)' PROVE (n < 14 => ~running') /\ (n < 12 => tid'["recv"] = None)
    <3>1. InInit(n + 1) /\ n \in 1..13 /\ op = InitOps[n + 1] /\ n + 1 \in 1..14
      BY <1>3, <2>1
    <3>2. (n + 1 < 14 => ~running) /\ (n + 1 < 12 => tid["recv"] = None)
      BY <3>1 DEF Stops, RecvStops
    <3>3. CASE n + 1 = 14
      <4>1. op = <<"clear", "recv">>
        BY <3>1, <3>3 DEF InitOps
      <4> QED BY <3>3, <4>1 DEF MainStep
    <3>4. CASE n + 1 = 12
      <4>1. op = <<"join", "recv">>
        BY <3>1, <3>4 DEF InitOps
      <4>2. op # <<"clear", "recv">>
        BY <4>1
      <4> QED BY <3>2, <3>4, <4>1, <4>2 DEF MainStep
    <3>5. CASE n + 1 # 14 /\ n + 1 # 12
      <4>1. ~running /\ ~running' /\ (n < 12 => n + 1 < 12)
        BY <3>1, <3>2, <3>5 DEF MainStep
      <4> QED BY <3>2, <4>1 DEF MainStep
    <3> QED BY <3>3, <3>4, <3>5
  <2>2. ASSUME ~running' PROVE tid'["recv"] = None \/ \E n \in 12..14 : InInit(n)'
    <3>1. CASE op = <<"clear", "recv">>
      <4>1. op[1] = OpName[5] /\ op[2] = "recv" /\ 5 \in 1..5
        BY <3>1 DEF OpName
      <4>2. InInit(14)
        BY <1>1, <4>1, MainDoes DEF MainWork, InInit, Base
      <4>3. InInit(13)'
        BY <1>1, <4>2, MainGoes, 14 - 1 = 13 DEF MainWork, InInit
      <4> QED BY <4>3
    <3>2. CASE op # <<"clear", "recv">>
      <4>1. tid["recv"] = None \/ \E n \in 12..14 : InInit(n)
        BY <2>2, <3>2 DEF Stops, RecvStops, MainStep
      <4>2. ASSUME NEW n \in 12..14, InInit(n) PROVE tid'["recv"] = None \/ \E m \in 12..14 : InInit(m)'
        <5>1. op = InitOps[n]
          BY <4>2, InitPlace DEF InInit
        <5>2. CASE n = 12
          BY <5>1, <5>2 DEF InitOps, MainStep
        <5>3. CASE n # 12
          <6>1. n - 1 \in 12..14 /\ n # 1
            BY <5>3
          <6> QED BY <1>1, <4>2, <6>1, MainGoes DEF MainWork, InInit
        <5> QED BY <5>2, <5>3
      <4> QED BY <4>1, <4>2 DEF MainStep
    <3> QED BY <3>1, <3>2
  <2> QED BY <2>1, <2>2 DEF RecvStops
<1>5. StopDone'
  <2> SUFFICES ASSUME NEW d \in D, NEW n \in 1..2, InStop(d, n)' PROVE tid'[d] = None
    BY DEF StopDone
  <2>1. InStop(d, n + 1) /\ op = StopOps(d)[n + 1]
    BY <1>3
  <2>2. CASE n = 1
    BY <2>1, <2>2, 1 + 1 = 2 DEF Stops, StopDone, MainStep
  <2>3. CASE n = 2
    <3>1. op = <<"join", d>>
      BY <2>1, <2>3 DEF StopOps
    <3> QED BY <3>1 DEF MainStep
  <2> QED BY <2>2, <2>3
<1>6. FailWork' /\ FailDone'
  BY <1>1, <1>2 DEF Stops, FailWork, FailDone, MainStep
<1>7. \A d \in D : MainWillJoin(d) => MainWillJoin(d)' \/ pc[d] \in Gone
  BY <1>1, StillWill DEF MainStep
<1>8. \A d \in D : Leaving(d) => Leaving(d)'
  BY <1>1 DEF Leaving, MainStep
<1>9. \A d \in D : Base(d) \in {1, 6}
  BY DEF Base, D
<1>10. WillJoin'
  <2> SUFFICES ASSUME NEW d \in D, up', pc[d] \notin Gone, ~active'[d]
               PROVE  MainWillJoin(d)' \/ FailWillJoin(d)' \/ Leaving(d)'
    BY <1>1 DEF WillJoin
  <2>1. CASE op = <<"clear", d>>
    <3>1. op = <<OpName[5], d>> /\ 5 \in 2..5 /\ 5 - 1 = 4
      BY <2>1 DEF OpName
    <3>2. InInit(Base(d) + 4)' \/ InStop(d, 4)'
      BY <1>1, <3>1, MainAt
    <3>3. Base(d) + 4 \in 1..14 /\ Base(d) + 4 >= Base(d) + 3 /\ 4 \in 3..5
      BY <1>9
    <3> QED BY <3>2, <3>3 DEF MainWillJoin
  <2>2. CASE op # <<"clear", d>>
    BY <1>2, <1>7, <1>8, <2>2 DEF Stops, WillJoin, MainStep
  <2> QED BY <2>1, <2>2
<1>11. WillReset'
  <2> SUFFICES ASSUME NEW d \in D, up', dev'[d] = "deleted"
               PROVE  pc[d] = "null" \/ InInit(Base(d) + 1)' \/ InStop(d, 1)' \/ InFail(Base(d) + 1)'
    BY <1>1 DEF WillReset
  <2>1. CASE op = <<"free", d>>
    <3>1. op = <<OpName[2], d>> /\ 2 \in 2..5 /\ 2 - 1 = 1
      BY <2>1 DEF OpName
    <3> QED BY <1>1, <3>1, MainAt
  <2>2. CASE op # <<"free", d>>
    <3>1. dev[d] = "deleted" /\ op # <<"null", d>> /\ up
      BY <2>2 DEF MainStep
    <3> QED BY <1>2, <3>1, ResetIsNext DEF Stops, WillReset
  <2> QED BY <2>1, <2>2
<1>12. StopFirst'
  BY <1>1, <1>7, <1>8 DEF Stops, StopFirst, MainStep
<1> QED BY <1>4, <1>5, <1>6, <1>10, <1>11, <1>12 DEF Stops

(* The failed receiver's next operation, the r-th for x, does. *)
FailStep(x, r) ==
  /\ work["recv"] # <<>> /\ work'["recv"] = Tail(work["recv"]) /\ work'["main"] = work["main"]
  /\ Head(work["recv"])[1] = OpName[r] /\ Head(work["recv"])[2] = x
  /\ UNCHANGED <<pc, host>> /\ (up' => up) /\ running' = running
  /\ \A y \in T : (tid[y] = None => tid'[y] = None) /\ (cancelled[y] => cancelled'[y])
  /\ r = 3 => tid'[x] = None /\ pc[x] \in Gone
  /\ r = 4 => pc[x] \in Gone \/ cancelled'[x]
  /\ \A d \in D : /\ ~active'[d] => ~active[d] \/ (r = 5 /\ x = d)
                  /\ up' /\ dev'[d] = "deleted" =>
                       \/ dev[d] = "deleted" /\ ~(r = 1 /\ x = d)
                       \/ r = 2 /\ x = d

(* And leaves the others of that direction in order. *)
LEMMA StopsFailed ==
  ASSUME Stops, NEW x, NEW r \in 1..5, FailStep(x, r)
  PROVE  Stops'
<1> D \subseteq T /\ "recv" \notin D /\ "recv" \in T
  BY DEF T, D
<1>1. work["recv"] # <<>> /\ work'["recv"] = Tail(work["recv"]) /\ pc' = pc
  BY DEF FailStep
<1>2. pc["recv"] = "failed" /\ \E n \in 1..11 : InFail(n)
  BY <1>1 DEF Stops, FailWork
<1>3. PICK n \in 1..11 : InFail(n)
  BY <1>2
<1>4. x \in D /\ n = Base(x) + r
  BY <1>3, FailDoes DEF FailStep, InFail
<1>5. \A d \in D : Base(d) \in {1, 6} /\ (Base(d) = Base(x) => d = x)
  BY <1>4 DEF Base, D
<1>6. n # 1 /\ n - 1 \in 1..11
  BY <1>4, <1>5
<1>7. InFail(n - 1)'
  BY <1>1, <1>3, <1>6, FailPlace DEF InFail
<1>8. \A m : InFail(m) => m = n
  BY <1>3, OneFailPlace DEF InFail
<1>9. \A m : InFail(m)' => m = n - 1
  <2> SUFFICES ASSUME NEW m, InFail(m)' PROVE m = n - 1
    OBVIOUS
  <2>1. OfFail(work'["recv"], m) /\ OfFail(work'["recv"], n - 1)
    BY <1>7 DEF InFail
  <2> QED BY <2>1, OneFailPlace
<1>10. /\ \A m : InInit(m)' <=> InInit(m)
       /\ \A e, m : InStop(e, m)' <=> InStop(e, m)
       /\ \A e : MainWillJoin(e)' <=> MainWillJoin(e)
  BY SameMain DEF FailStep
<1>11. RecvStops' /\ StopDone'
  BY <1>10 DEF Stops, RecvStops, StopDone, FailStep
<1>12. FailWork'
  BY <1>1, <1>2, <1>6, <1>7 DEF FailWork
<1>13. FailDone'
  <2> SUFFICES ASSUME NEW d \in D
               PROVE  /\ n - 1 < Base(d) + 3 => tid'[d] = None
                      /\ n - 1 = Base(d) + 3 => pc[d] \in Gone \/ cancelled'[d]
    BY <1>1, <1>9 DEF FailDone
  <2>1. n < Base(d) + 3 => tid'[d] = None
    BY <1>3 DEF Stops, FailDone, FailStep
  <2>2. n = Base(d) + 3 => x = d /\ r = 3
    BY <1>4, <1>5
  <2>3. n = Base(d) + 4 => x = d /\ r = 4
    BY <1>4, <1>5
  <2> QED BY <1>5, <2>1, <2>2, <2>3 DEF FailStep
<1>14. WillJoin'
  <2> SUFFICES ASSUME NEW d \in D, up', pc[d] \notin Gone, ~active'[d]
               PROVE  MainWillJoin(d) \/ FailWillJoin(d)'
    BY <1>1, <1>10 DEF WillJoin
  <2>1. CASE r = 5 /\ x = d
    <3>1. n - 1 = Base(d) + 4
      BY <1>4, <1>5, <2>1
    <3> QED BY <1>7, <3>1 DEF FailWillJoin
  <2>2. CASE ~(r = 5 /\ x = d)
    <3>1. MainWillJoin(d) \/ FailWillJoin(d)
      BY <1>2, <2>2 DEF Stops, WillJoin, Leaving, FailStep
    <3>2. CASE n = Base(d) + 3
      <4>1. x = d /\ r = 3
        BY <1>4, <1>5, <3>2
      <4> QED BY <4>1 DEF FailStep
    <3>3. CASE n = Base(d) + 4
      <4>1. n - 1 = Base(d) + 3
        BY <1>5, <3>3
      <4> QED BY <1>7, <4>1 DEF FailWillJoin
    <3> QED BY <1>8, <3>1, <3>2, <3>3 DEF FailWillJoin
  <2> QED BY <2>1, <2>2
<1>15. WillReset'
  <2> SUFFICES ASSUME NEW d \in D, up', dev'[d] = "deleted"
               PROVE  pc[d] = "null" \/ InInit(Base(d) + 1) \/ InStop(d, 1) \/ InFail(Base(d) + 1)'
    BY <1>1, <1>10 DEF WillReset
  <2>1. CASE r = 2 /\ x = d
    <3>1. n - 1 = Base(d) + 1
      BY <1>4, <1>5, <2>1
    <3> QED BY <1>7, <3>1
  <2>2. CASE ~(r = 2 /\ x = d)
    <3>1. dev[d] = "deleted" /\ ~(r = 1 /\ x = d) /\ up
      BY <2>2 DEF FailStep
    <3>2. n # Base(d) + 1
      BY <1>4, <1>5, <3>1
    <3> QED BY <1>8, <3>1, <3>2 DEF Stops, WillReset
  <2> QED BY <2>1, <2>2
<1>16. StopFirst'
  BY <1>1, <1>2, <1>10 DEF Stops, StopFirst, Leaving, FailStep
<1> QED BY <1>11, <1>12, <1>13, <1>14, <1>15, <1>16 DEF Stops

(* An operation is a name and a thread. *)
LEMMA MainOp ==
  ASSUME NEW s, OfMain(s), s # <<>>
  PROVE  Head(s) = <<Head(s)[1], Head(s)[2]>> /\ Head(s)[2] \in T
<1>1. CASE \E n \in 1..14 : OfInit(s, n)
  <2>1. PICK n \in 1..14 : OfInit(s, n)
    BY <1>1
  <2>2. Head(s) = InitOps[n] /\ InitOps[n] \in {"null", "free", "join", "cancel", "clear", "dummy"} \X T
    BY <2>1, InitPlace, InitOp
  <2> QED BY <2>2
<1>2. CASE \E d \in D, n \in 1..5 : OfStop(s, d, n)
  <2>1. PICK d \in D, n \in 1..5 : OfStop(s, d, n)
    BY <1>2
  <2>2. Head(s) = StopOps(d)[n] /\ n \in 1..5 /\ d \in T
    BY <2>1, StopPlace DEF T
  <2>3. StopOps(d)[n] \in {"null", "free", "join", "cancel", "clear"} \X {d}
    <3> n = 1 \/ n = 2 \/ n = 3 \/ n = 4 \/ n = 5
      OBVIOUS
    <3> QED BY DEF StopOps
  <2> QED BY <2>2, <2>3
<1> QED BY <1>1, <1>2 DEF OfMain

(* main's stops. *)
LEMMA StopsStopping ==
  ASSUME StopInv, Stopping("main")
  PROVE  Stops'
<1> DEFINE op == Head(work["main"])
           x == op[2]
<1> D \subseteq T /\ "recv" \notin D
  BY DEF T, D
<1>1. /\ work["main"] # <<>> /\ work'["main"] = Tail(work["main"]) /\ work'["recv"] = work["recv"]
      /\ UNCHANGED <<pc, host>> /\ up
  BY DEF StopInv, QuietInv, Works, Stopping, Clear, CancelThread, JoinThread, FreeDevice, NullDevice,
         Doing, Done, threads
<1>2. op = <<op[1], x>> /\ x \in T
  BY <1>1, MainOp DEF StopInv, QuietInv, MainWork
<1>3. Pids /\ active \in [D -> BOOLEAN] /\ dev \in [D -> {None, "made", "buffer", "deleted"}]
  BY DEF StopInv, QuietInv
<1>4. CASE Clear("main")
  <2>1. UNCHANGED <<tid, cancelled, dev, up>> /\ op = <<"clear", x>>
    BY <1>2, <1>4 DEF Clear, threads, Doing
  <2>2. IF x = "recv" THEN running' = FALSE /\ active' = active
        ELSE active' = [active EXCEPT ![x] = FALSE] /\ running' = running
    BY <1>4 DEF Clear
  <2>3. IF op = <<"clear", "recv">> THEN ~running' ELSE running' = running
    BY <2>1, <2>2
  <2>4. \A d \in D : ~active'[d] => ~active[d] \/ op = <<"clear", d>>
    BY <1>3, <2>1, <2>2
  <2>5. \A y : op # <<"join", y>> /\ op # <<"null", y>>
    BY <2>1
  <2> QED BY <1>1, <2>1, <2>3, <2>4, <2>5, StopsMain DEF MainStep, StopInv, QuietInv
<1>5. CASE CancelThread("main")
  <2>1. UNCHANGED <<tid, active, running, dev, up>> /\ Cancel(x) /\ op = <<"cancel", x>>
    BY <1>2, <1>5 DEF CancelThread, ctl, Doing
  <2>2. \A y \in T : cancelled[y] => cancelled'[y]
    BY <1>3, <2>1, CancelGrows
  <2>3. \A y : op # <<"join", y>> /\ op # <<"null", y>> /\ op # <<"clear", y>>
    BY <2>1
  <2> QED BY <1>1, <2>1, <2>2, <2>3, StopsMain DEF MainStep, StopInv, QuietInv
<1>6. CASE JoinThread("main")
  <2>1. UNCHANGED <<cancelled, active, running, dev, up>> /\ Joinable(x) /\ Join(x) /\ op = <<"join", x>>
    BY <1>2, <1>6 DEF JoinThread, ctl, Doing
  <2>2. /\ tid'[x] = None
        /\ \A y \in T : (tid[y] = None => tid'[y] = None) /\ (tid'[y] = None => pc[y] \in Gone)
    BY <1>2, <1>3, <2>1, Joined
  <2>3. \A y : (op = <<"join", y>> => y = x) /\ op # <<"null", y>> /\ op # <<"clear", y>>
    BY <2>1
  <2> QED BY <1>1, <1>2, <2>1, <2>2, <2>3, StopsMain DEF MainStep, StopInv, QuietInv
<1>7. CASE FreeDevice("main")
  <2>1. /\ UNCHANGED <<tid, cancelled, active, running>> /\ op = <<"free", x>>
        /\ dev' = [dev EXCEPT ![x] = IF @ = None THEN None ELSE "deleted"]
    BY <1>2, <1>7 DEF FreeDevice, threads, Doing
  <2>2. \A d \in D : dev'[d] = "deleted" => dev[d] = "deleted" \/ op = <<"free", d>>
    BY <1>3, <2>1
  <2>3. \A y : op # <<"join", y>> /\ op # <<"null", y>> /\ op # <<"clear", y>>
    BY <2>1
  <2> QED BY <1>1, <2>1, <2>2, <2>3, StopsMain DEF MainStep, StopInv, QuietInv
<1>8. CASE NullDevice("main")
  <2>1. /\ UNCHANGED <<tid, cancelled, active, running>> /\ op = <<"null", x>>
        /\ dev' = [dev EXCEPT ![x] = None]
    BY <1>2, <1>8 DEF NullDevice, threads, Doing
  <2>2. \A d \in D : dev'[d] = "deleted" => dev[d] = "deleted" /\ op # <<"null", d>>
    BY <1>3, <2>1 DEF None
  <2>3. \A y : op # <<"join", y>> /\ op # <<"clear", y>>
    BY <2>1
  <2> QED BY <1>1, <2>1, <2>2, <2>3, StopsMain DEF MainStep, StopInv, QuietInv
<1> QED BY <1>4, <1>5, <1>6, <1>7, <1>8 DEF Stopping

(* The failed receiver's. *)
LEMMA StopsFailing ==
  ASSUME StopInv, Stopping("recv")
  PROVE  Stops'
<1> DEFINE op == Head(work["recv"])
           x == op[2]
<1>1. /\ work["recv"] # <<>> /\ work'["recv"] = Tail(work["recv"]) /\ work'["main"] = work["main"]
      /\ UNCHANGED <<pc, host>> /\ up
  BY DEF StopInv, QuietInv, Works, Stopping, Clear, CancelThread, JoinThread, FreeDevice, NullDevice,
         Doing, Done, threads
<1>2. PICK n \in 1..11 : OfFail(work["recv"], n)
  BY <1>1 DEF StopInv, Stops, FailWork, InFail
<1>3. Pids /\ active \in [D -> BOOLEAN] /\ dev \in [D -> {None, "made", "buffer", "deleted"}] /\ Stops
  BY DEF StopInv, QuietInv
<1>4. \A r \in 1..5 : op[1] = OpName[r] => x \in D /\ x \in T /\ x # "recv"
  BY <1>2, FailDoes DEF T, D
<1>5. CASE Clear("recv")
  <2>1. UNCHANGED <<tid, cancelled, dev, up>> /\ op[1] = OpName[5]
    BY <1>5 DEF Clear, threads, Doing, OpName
  <2>2. active' = [active EXCEPT ![x] = FALSE] /\ running' = running
    BY <1>4, <1>5, <2>1 DEF Clear
  <2>3. \A d \in D : ~active'[d] => ~active[d] \/ x = d
    BY <1>3, <2>2
  <2>4. FailStep(x, 5)
    BY <1>1, <2>1, <2>2, <2>3 DEF FailStep
  <2> QED BY <1>3, <2>4, StopsFailed
<1>6. CASE CancelThread("recv")
  <2>1. UNCHANGED <<tid, active, running, dev, up>> /\ Cancel(x) /\ op[1] = OpName[4]
    BY <1>6 DEF CancelThread, ctl, Doing, OpName
  <2>2. /\ \A y \in T : cancelled[y] => cancelled'[y]
        /\ x \in T /\ tid[x] # None => cancelled'[x]
    BY <1>3, <2>1, CancelGrows
  <2>3. pc[x] \in Gone \/ cancelled'[x]
    BY <1>3, <1>4, <2>1, <2>2 DEF Pids
  <2>4. FailStep(x, 4)
    BY <1>1, <2>1, <2>2, <2>3 DEF FailStep
  <2> QED BY <1>3, <2>4, StopsFailed
<1>7. CASE JoinThread("recv")
  <2>1. UNCHANGED <<cancelled, active, running, dev, up>> /\ Joinable(x) /\ Join(x) /\ op[1] = OpName[3]
    BY <1>7 DEF JoinThread, ctl, Doing, OpName
  <2>2. x \in T
    BY <1>4, <2>1
  <2>3. /\ tid'[x] = None
        /\ \A y \in T : (tid[y] = None => tid'[y] = None) /\ (tid'[y] = None => pc[y] \in Gone)
    BY <1>3, <2>1, <2>2, Joined
  <2>4. FailStep(x, 3)
    BY <1>1, <2>1, <2>2, <2>3 DEF FailStep
  <2> QED BY <1>3, <2>4, StopsFailed
<1>8. CASE FreeDevice("recv")
  <2>1. /\ UNCHANGED <<tid, cancelled, active, running>> /\ op[1] = OpName[2]
        /\ dev' = [dev EXCEPT ![x] = IF @ = None THEN None ELSE "deleted"]
    BY <1>8 DEF FreeDevice, threads, Doing, OpName
  <2>2. \A d \in D : dev'[d] = "deleted" => dev[d] = "deleted" \/ x = d
    BY <1>3, <2>1
  <2>3. FailStep(x, 2)
    BY <1>1, <2>1, <2>2 DEF FailStep
  <2> QED BY <1>3, <2>3, StopsFailed
<1>9. CASE NullDevice("recv")
  <2>1. /\ UNCHANGED <<tid, cancelled, active, running>> /\ op[1] = OpName[1]
        /\ dev' = [dev EXCEPT ![x] = None]
    BY <1>9 DEF NullDevice, threads, Doing, OpName
  <2>2. \A d \in D : dev'[d] = "deleted" => dev[d] = "deleted" /\ x # d
    BY <1>3, <2>1 DEF None
  <2>3. FailStep(x, 1)
    BY <1>1, <2>1, <2>2 DEF FailStep
  <2> QED BY <1>3, <2>3, StopsFailed
<1> QED BY <1>5, <1>6, <1>7, <1>8, <1>9 DEF Stopping

(* The failed receiver ends, at its last call or before: what it cleared
   and did not join is cancelled. *)
LEMMA StopsEnd ==
  ASSUME StopInv, CloseSockets \/ DieStopping
  PROVE  Stops'
<1> D \subseteq T /\ "recv" \notin D /\ "recv" \in T
  BY DEF T, D
<1>1. /\ UNCHANGED <<tid, cancelled, running, host, up, active, dev>> /\ work["recv"] # <<>>
      /\ pc' = [pc EXCEPT !["recv"] = "ended"]
      /\ \E s : work' = [work EXCEPT !["recv"] = s]
      /\ Head(work["recv"])[1] \in {"join", "free", "close"}
  <2>1. CASE CloseSockets
    BY <2>1 DEF CloseSockets, Doing, Done, ctl, Goto
  <2>2. CASE DieStopping
    <3>1. work["recv"] # <<>>
      <4>1. pc["recv"] = "failed"
        BY <2>2 DEF DieStopping
      <4> QED BY <4>1, FailPlace DEF StopInv, Stops, FailWork, InFail
    <3> QED BY <2>2, <3>1 DEF DieStopping, ctl, Goto
  <2> QED BY <2>1, <2>2
<1>2. PICK n \in 1..11 : OfFail(work["recv"], n)
  BY <1>1 DEF StopInv, Stops, FailWork, InFail
<1>3. \A m : InFail(m) => m = n
  BY <1>2, OneFailPlace DEF InFail
<1>4. FailOps[n][1] \in {"join", "free", "close"} /\ Head(work["recv"]) = FailOps[n]
  BY <1>1, <1>2, FailPlace
<1>5. work'["main"] = work["main"] /\ work'["recv"] = <<>>
  <2>1. CASE DieStopping
    BY <2>1 DEF DieStopping, StopInv, QuietInv, Works
  <2>2. CASE CloseSockets
    <3>1. FailOps[n][1] = "close"
      BY <1>4, <2>2 DEF CloseSockets, Doing
    <3>2. n = 1
      BY <3>1, FailOp
    <3>3. Tail(work["recv"]) = <<>>
      BY <1>2, <3>2, FailPlace
    <3> QED BY <2>2, <3>3 DEF CloseSockets, Done, StopInv, QuietInv, Works
  <2> QED BY <2>1, <2>2
<1>6. /\ \A m : InInit(m)' <=> InInit(m)
      /\ \A e, m : InStop(e, m)' <=> InStop(e, m)
      /\ \A e : MainWillJoin(e)' <=> MainWillJoin(e)
  BY <1>5, SameMain
<1>7. pc'["recv"] = "ended" /\ \A d \in D : pc'[d] = pc[d]
  BY <1>1 DEF StopInv, QuietInv, Pids
<1>8. \A m : ~InFail(m)'
  BY <1>5, FailPlace DEF InFail
<1>9. RecvStops' /\ StopDone'
  BY <1>1, <1>6 DEF StopInv, Stops, RecvStops, StopDone
<1>10. FailWork' /\ FailDone'
  BY <1>5, <1>7, <1>8 DEF FailWork, FailDone
<1>11. \A d \in D : FailWillJoin(d) => pc[d] \in Gone \/ cancelled[d]
  <2> SUFFICES ASSUME NEW d \in D, FailWillJoin(d) PROVE pc[d] \in Gone \/ cancelled[d]
    OBVIOUS
  <2>1. n = Base(d) + 3 \/ n = Base(d) + 4
    BY <1>3 DEF FailWillJoin
  <2>2. FailOps[Base(d) + 4][1] = "cancel"
    BY DEF FailOps, Base, D
  <2>3. n = Base(d) + 3
    BY <1>4, <2>1, <2>2
  <2> QED BY <1>2, <2>3 DEF StopInv, Stops, FailDone, InFail
<1>12. WillJoin'
  BY <1>1, <1>6, <1>7, <1>11 DEF StopInv, Stops, WillJoin, Leaving
<1>13. \A d \in D : ~InFail(Base(d) + 1)
  <2>1. \A d \in D : FailOps[Base(d) + 1][1] = "null"
    BY DEF FailOps, Base, D
  <2> QED BY <1>3, <1>4, <2>1
<1>14. WillReset'
  BY <1>1, <1>6, <1>7, <1>13 DEF StopInv, Stops, WillReset
<1>15. StopFirst'
  BY <1>1, <1>6, <1>7 DEF StopInv, Stops, StopFirst, Leaving
<1> QED BY <1>9, <1>10, <1>12, <1>14, <1>15 DEF Stops

(* The dummy of a new host: there is no thread then. *)
LEMMA StopsDummy ==
  ASSUME StopInv, Dummy
  PROVE  Stops'
<1> D \subseteq T /\ "recv" \notin D /\ "recv" \in T
  BY DEF T, D
<1>1. /\ work["main"] # <<>> /\ work'["main"] = Tail(work["main"]) /\ work'["recv"] = work["recv"]
      /\ UNCHANGED <<active, dev>> /\ up /\ Head(work["main"])[1] = "dummy"
  BY DEF StopInv, QuietInv, Works, Dummy, Doing, Done
<1>2. CASE UNCHANGED <<threads, running, host>>
  <2>1. \A y : Head(work["main"]) # <<"join", y>> /\ Head(work["main"]) # <<"clear", y>>
               /\ Head(work["main"]) # <<"null", y>>
    BY <1>1
  <2>2. UNCHANGED <<pc, tid, cancelled, running, host>>
    BY <1>2 DEF threads
  <2>3. MainStep
    BY <1>1, <2>1, <2>2 DEF MainStep
  <2> QED BY <2>3, StopsMain DEF StopInv, QuietInv
<1>3. CASE running' = TRUE /\ Create("recv", "loop") /\ host' = "accepted"
  <2>1. InInit(1)
    <3>1. CASE \E n \in 1..14 : OfInit(work["main"], n)
      <4>1. PICK n \in 1..14 : OfInit(work["main"], n)
        BY <3>1
      <4>2. InitOps[n][1] = "dummy"
        BY <1>1, <4>1, InitPlace
      <4> QED BY <4>1, <4>2, InitOp DEF InInit
    <3>2. CASE \E e \in D, n \in 1..5 : OfStop(work["main"], e, n)
      <4>1. PICK e \in D, n \in 1..5 : OfStop(work["main"], e, n)
        BY <3>2
      <4> QED BY <1>1, <4>1, StopPlace, StopOp
    <3> QED BY <1>1, <3>1, <3>2 DEF StopInv, QuietInv, MainWork, OfMain
  <2>2. work'["main"] = <<>>
    BY <1>1, <2>1, MainGoes DEF InInit, StopInv, QuietInv, MainWork
  <2>3. tid["recv"] = None /\ \A d \in D : tid[d] = None /\ dev[d] = None
    BY <2>1 DEF StopInv, QuietInv, InitDone, Stops, RecvStops, Base, D
  <2>4. pc["recv"] \in Gone /\ \A d \in D : pc[d] \in Gone
    BY <2>3 DEF StopInv, QuietInv, Pids
  <2>5. work'["recv"] = <<>>
    BY <1>1, <2>4 DEF StopInv, Stops, FailWork, Gone
  <2>6. pc'["recv"] = "loop" /\ tid'["recv"] # None /\ \A d \in D : pc'[d] = pc[d] /\ tid'[d] = tid[d]
    <3>1. "loop" \in Places /\ \A d \in D : d \in T \ {"recv"}
      BY DEF Places
    <3> QED BY <1>3, <3>1, Created DEF StopInv, QuietInv
  <2>7. /\ \A n : ~InInit(n)' /\ ~InFail(n)'
        /\ \A d, n : ~InStop(d, n)'
    BY <2>2, <2>5, InitPlace, StopPlace, FailPlace DEF InInit, InStop, InFail
  <2>8. RecvStops' /\ StopDone' /\ FailWork' /\ FailDone'
    BY <1>3, <2>5, <2>6, <2>7 DEF RecvStops, StopDone, FailWork, FailDone
  <2>9. WillJoin' /\ WillReset' /\ StopFirst'
    BY <1>1, <2>3, <2>4, <2>6 DEF WillJoin, WillReset, StopFirst, None
  <2> QED BY <2>8, <2>9 DEF Stops
<1> QED BY <1>2, <1>3 DEF Dummy

(* A new init: it will join both, and the receiver if there is one. *)
LEMMA StopsInit ==
  ASSUME StopInv, InitClient
  PROVE  Stops'
<1> D \subseteq T /\ "recv" \notin D
  BY DEF T, D
<1>1. /\ UNCHANGED <<pc, cancelled, tid, dev, active, running>> /\ up /\ host' = "init"
      /\ work["main"] = <<>> /\ pc["recv"] # "failed"
      /\ work' = [work EXCEPT !["main"] = (IF running THEN StopReceiver ELSE <<>>)
                     \o Stop("RX") \o Stop("TX") \o << <<"dummy", "recv">> >>]
  BY DEF InitClient, threads, ctl, Idle
<1>2. /\ work'["recv"] = work["recv"]
      /\ work'["main"] = IF running THEN Left(InitOps, 14) ELSE Left(InitOps, 11)
  BY <1>1, InitIs DEF StopInv, QuietInv, Works
<1>3. IF running THEN InInit(14)' ELSE InInit(11)'
  BY <1>2 DEF InInit, OfInit
<1>4. /\ \A n : InInit(n)' => n = IF running THEN 14 ELSE 11
      /\ \A d, n : ~InStop(d, n)'
  <2>1. \E m : OfInit(work'["main"], m) /\ m = IF running THEN 14 ELSE 11
    BY <1>3 DEF InInit
  <2> QED BY <2>1, OnePlace DEF InInit, InStop
<1>5. /\ \A n : ~InInit(n)
      /\ \A d, n : ~InStop(d, n)
  BY <1>1, InitPlace, StopPlace DEF InInit, InStop
<1>6. /\ \A n : InFail(n)' <=> InFail(n)
      /\ \A e : FailWillJoin(e)' <=> FailWillJoin(e)
  BY <1>2, SameFail
<1>7. ~running => tid["recv"] = None
  BY <1>5 DEF StopInv, Stops, RecvStops
<1>8. RecvStops'
  BY <1>1, <1>3, <1>4, <1>7 DEF RecvStops
<1>9. StopDone' /\ FailWork' /\ FailDone'
  BY <1>1, <1>2, <1>4, <1>6 DEF StopInv, Stops, StopDone, FailWork, FailDone
<1>10. \A d \in D : MainWillJoin(d)'
  <2> SUFFICES ASSUME NEW d \in D PROVE \E n \in {11, 14} : InInit(n)' /\ n >= Base(d) + 3
    BY DEF MainWillJoin
  <2>1. Base(d) \in {1, 6}
    BY DEF Base, D
  <2> QED BY <1>3, <2>1
<1>11. WillJoin' /\ StopFirst'
  BY <1>10 DEF WillJoin, StopFirst
<1>12. WillReset'
  BY <1>1, <1>5, <1>6 DEF StopInv, Stops, WillReset
<1> QED BY <1>8, <1>9, <1>11, <1>12 DEF Stops

(* A command that leaves main nothing to do. *)
LEMMA StopsIdle ==
  ASSUME StopInv, Idle, work' = work, UNCHANGED <<tid, cancelled, pc, running, active, dev>>,
         \A d \in D : up' /\ host' = d => pc[d] \in Gone \/ Leaving(d)
  PROVE  Stops'
<1>1. up /\ work["main"] = <<>>
  BY DEF Idle
<1>2. /\ \A n : InInit(n)' <=> InInit(n)
      /\ \A e, n : InStop(e, n)' <=> InStop(e, n)
      /\ \A e : MainWillJoin(e)' <=> MainWillJoin(e)
      /\ \A n : InFail(n)' <=> InFail(n)
      /\ \A e : FailWillJoin(e)' <=> FailWillJoin(e)
  BY SameMain, SameFail
<1>3. \A d : Leaving(d)' <=> Leaving(d)
  BY DEF Leaving
<1>4. RecvStops' /\ StopDone' /\ FailWork' /\ FailDone'
  BY <1>2 DEF StopInv, Stops, RecvStops, StopDone, FailWork, FailDone
<1>5. WillJoin' /\ WillReset'
  BY <1>1, <1>2, <1>3 DEF StopInv, Stops, WillJoin, WillReset
<1>6. StopFirst'
  BY <1>3 DEF StopFirst
<1> QED BY <1>4, <1>5, <1>6 DEF Stops

(* What is said of a thread whose flag is cleared, between two commands. *)
LEMMA WhenIdle ==
  ASSUME StopInv, Idle
  PROVE  /\ \A n : ~InInit(n) /\ ~InFail(n)
         /\ \A d, n : ~InStop(d, n)
         /\ \A d \in D : ~MainWillJoin(d) /\ ~FailWillJoin(d)
         /\ \A d \in D : pc[d] \notin Gone /\ ~active[d] => Leaving(d)
<1>1. up /\ work["main"] = <<>> /\ work["recv"] = <<>>
  BY DEF Idle, StopInv, Stops, FailWork
<1>2. /\ \A n : ~InInit(n) /\ ~InFail(n)
      /\ \A d, n : ~InStop(d, n)
  BY <1>1, InitPlace, StopPlace, FailPlace DEF InInit, InStop, InFail
<1>3. \A d \in D : ~MainWillJoin(d) /\ ~FailWillJoin(d)
  BY <1>2 DEF MainWillJoin, FailWillJoin
<1> QED BY <1>1, <1>2, <1>3 DEF StopInv, Stops, WillJoin

(* The sizes. *)
LEMMA StopsSize ==
  ASSUME StopInv, NEW d \in D, SetBufferSize(d)
  PROVE  Stops'
<1>1. Idle /\ work' = work /\ UNCHANGED <<tid, cancelled, pc, running, active, dev>>
  BY DEF SetBufferSize, threads, ctl
<1>2. \A e \in D : host' # e
  BY DEF SetBufferSize, D
<1> QED BY <1>1, <1>2, StopsIdle

(* "stop": skipped, or the first of its work. *)
LEMMA StopsStop ==
  ASSUME StopInv, NEW d \in D, NEW then \in {d, "ready"}, StopStream(d, then)
  PROVE  Stops'
<1> D \subseteq T /\ "recv" \notin D
  BY DEF T, D
<1>1. Idle /\ UNCHANGED <<tid, cancelled, pc, running, active, dev>> /\ host' = then
  BY DEF StopStream, threads, ctl
<1>2. /\ \A e \in D : host' = e => e = d
      /\ \A e \in D : pc[e] \notin Gone /\ ~active[e] => Leaving(e)
  BY <1>1, WhenIdle DEF D
<1>3. CASE ~active[d]
  <2>1. work' = work
    BY <1>3 DEF StopStream
  <2> QED BY <1>1, <1>2, <1>3, <2>1, StopsIdle
<1>4. CASE active[d]
  <2>1. work' = [work EXCEPT !["main"] = Stop(d)]
    BY <1>4 DEF StopStream
  <2>2. work'["recv"] = work["recv"] /\ OfStop(work'["main"], d, 5)
    BY <2>1, StopIs DEF StopInv, QuietInv, Works, OfStop
  <2>3. /\ \A n : ~InInit(n)'
        /\ InStop(d, 5)' /\ \A e, n : InStop(e, n)' => n = 5 /\ e = d
    BY <2>2, OnePlace DEF InInit, InStop
  <2>4. /\ \A n : InFail(n)' <=> InFail(n)
        /\ \A e : FailWillJoin(e)' <=> FailWillJoin(e)
    BY <2>2, SameFail
  <2>5. MainWillJoin(d)'
    <3>1. 5 \in 3..5
      OBVIOUS
    <3> QED BY <2>3, <3>1 DEF MainWillJoin
  <2>6. RecvStops'
    BY <1>1, <2>3, WhenIdle DEF StopInv, Stops, RecvStops
  <2>7. StopDone' /\ FailWork' /\ FailDone'
    BY <1>1, <2>2, <2>3, <2>4 DEF StopInv, Stops, StopDone, FailWork, FailDone
  <2>8. WillJoin'
    <3>1. \A e \in D : Leaving(e) => Leaving(e)'
      BY <1>1 DEF Leaving
    <3> QED BY <1>1, <1>2, <3>1 DEF WillJoin
  <2>9. WillReset'
    BY <1>1, <2>4, WhenIdle DEF StopInv, Stops, WillReset, Idle
  <2>10. StopFirst'
    BY <1>2, <2>5 DEF StopFirst
  <2> QED BY <2>6, <2>7, <2>8, <2>9, <2>10 DEF Stops
<1> QED BY <1>3, <1>4

(* "start": the model ends where it makes a second thread. *)
LEMMA StopsStart ==
  ASSUME StopInv, NEW d \in D, StartStream(d)
  PROVE  Stops'
<1> D \subseteq T /\ "recv" \notin D /\ "recv" \in T /\ d \in T
  BY DEF T, D
<1>1. /\ Idle /\ work' = work /\ UNCHANGED <<running, dev>> /\ host' = "ready"
      /\ active' = [active EXCEPT ![d] = TRUE]
  BY DEF StartStream
<1>2. /\ \A n : InInit(n)' <=> InInit(n)
      /\ \A e, n : InStop(e, n)' <=> InStop(e, n)
      /\ \A e : MainWillJoin(e)' <=> MainWillJoin(e)
      /\ \A n : InFail(n)' <=> InFail(n)
      /\ \A e : FailWillJoin(e)' <=> FailWillJoin(e)
  BY <1>1, SameMain, SameFail
<1>3. /\ \A e \in T \ {d} : tid'[e] = tid[e] /\ pc'[e] = pc[e] /\ cancelled'[e] = cancelled[e]
      /\ up' => pc[d] \in Gone \/ pc'[d] = pc[d]
  <2>1. CASE UNCHANGED threads
    BY <2>1 DEF threads
  <2>2. CASE Create(d, "begin") /\ up' = (~closed /\ pc[d] \in Gone)
    <3>1. "begin" \in Places
      BY DEF Places
    <3> QED BY <2>2, <3>1, Created DEF StopInv, QuietInv
  <2> QED BY <2>1, <2>2 DEF StartStream
<1>4. active'[d] /\ \A e \in D \ {d} : active'[e] = active[e]
  BY <1>1 DEF StopInv
<1>5. RecvStops' /\ StopDone' /\ FailWork' /\ FailDone'
  BY <1>1, <1>2, <1>3, WhenIdle DEF StopInv, Stops, RecvStops, StopDone, FailWork, FailDone
<1>6. WillJoin'
  <2>1. \A e \in D \ {d} : Leaving(e) => Leaving(e)'
    BY <1>3 DEF Leaving
  <2> QED BY <1>1, <1>3, <1>4, <2>1, WhenIdle DEF WillJoin
<1>7. WillReset'
  <2>1. \A e \in D : dev[e] = "deleted" => pc[e] = "null"
    BY <1>1, WhenIdle DEF StopInv, Stops, WillReset, Idle
  <2> QED BY <1>1, <1>3, <2>1 DEF WillReset, Gone
<1>8. StopFirst'
  BY <1>1 DEF StopFirst, D
<1> QED BY <1>5, <1>6, <1>7, <1>8 DEF Stops

(* Every step. *)
LEMMA StopsStep ==
  ASSUME StopInv, [Next]_vars
  PROVE  Stops'
<1>1. CASE Command
  BY <1>1, StopsInit, StopsSize, StopsStart, StopsStop DEF Command
<1>2. CASE Dummy \/ Receiver \/ Transmit \/ ReceiveAndSend \/ CloseSockets \/ DieStopping
  BY <1>2, StopsDummy, StopsReceiver, StopsTransfer, StopsEnd
<1>3. CASE \E d \in D : Streaming(d)
  BY <1>3, StopsStreaming
<1>4. CASE \E w \in {"main", "recv"} : Stopping(w)
  BY <1>4, StopsStopping, StopsFailing
<1>5. CASE UNCHANGED vars
  <2>1. UNCHANGED <<tid, cancelled, work, running, host, up, pc, active, dev>>
    BY <1>5 DEF vars, threads, ctl
  <2>2. /\ \A n : InInit(n)' <=> InInit(n)
        /\ \A e, n : InStop(e, n)' <=> InStop(e, n)
        /\ \A e : MainWillJoin(e)' <=> MainWillJoin(e)
        /\ \A n : InFail(n)' <=> InFail(n)
        /\ \A e : FailWillJoin(e)' <=> FailWillJoin(e)
    BY <2>1, SameMain, SameFail
  <2> QED BY <2>1, <2>2 DEF StopInv, Stops, RecvStops, StopDone, FailWork, FailDone, WillJoin,
                            WillReset, StopFirst, Leaving
<1> QED BY <1>1, <1>2, <1>3, <1>4, <1>5 DEF Next

(* The flags. *)
LEMMA FlagStep ==
  ASSUME active \in [D -> BOOLEAN], [Next]_vars
  PROVE  active' \in [D -> BOOLEAN]
<1>1. active' = active \/ \E x : active' = [active EXCEPT ![x] = FALSE] \/ active' = [active EXCEPT ![x] = TRUE]
  BY DEF Next, Command, InitClient, SetBufferSize, StartStream, StopStream, Dummy, Receiver, RecvCall,
         RecvFirst, RecvRest, RecvCount, Die, Transmit, FrameWaiting, CopyFirst, CopyRest, CopyHalf,
         CountSent, PushBuffer, ReceiveAndSend, CloseSockets, DieStopping, Streaming, Begin, Construct,
         EnableChannels, EnableFails, Check, TransferFails, DisableChannels, Delete, SetNull, Announce,
         DieInDestructor, Device, Move, Stopping, Clear, CancelThread, JoinThread, FreeDevice,
         NullDevice, vars, ctl
<1> QED BY <1>1

(* At first. *)
LEMMA StopsHold == Init => StopInv
<1> SUFFICES ASSUME Init PROVE StopInv
  OBVIOUS
<1>1. QuietInv /\ active \in [D -> BOOLEAN]
  BY QuietHolds DEF Init
<1>2. /\ work["main"] = <<>> /\ work["recv"] = <<>> /\ tid["recv"] = None /\ pc["recv"] = None
      /\ \A d \in D : pc[d] = None /\ dev[d] = None
  BY DEF Init, T, D
<1>3. /\ \A n : ~InInit(n) /\ ~InFail(n)
      /\ \A d, n : ~InStop(d, n)
  BY <1>2, InitPlace, StopPlace, FailPlace DEF InInit, InStop, InFail
<1>4. Stops
  BY <1>2, <1>3 DEF Stops, RecvStops, StopDone, FailWork, FailDone, WillJoin, WillReset, StopFirst,
                    None, Gone
<1> QED BY <1>1, <1>4 DEF StopInv

(* It is an invariant. *)
LEMMA StopInvariant == Spec => []StopInv
<1>1. StopInv /\ [Next]_vars => StopInv'
  BY QuietStep, StopsStep, FlagStep DEF StopInv
<1> QED BY StopsHold, <1>1, PTL DEF Spec

(* start never makes a second thread of a direction, but for one thread that
   is leaving: cancelled by a failed receiver that was itself cancelled
   before it joined it. *)
THEOREM StartFindsGone == Spec => OneStreamThread
<1> DEFINE Starts == \A d \in D : tid'[d] \notin {None, tid[d]} => pc[d] \in Gone \/ Leaving(d)
<1>1. ASSUME StopInv, [Next]_vars PROVE Starts
  <2> SUFFICES ASSUME NEW d \in D, tid'[d] \notin {None, tid[d]} PROVE pc[d] \in Gone \/ Leaving(d)
    OBVIOUS
  <2>1. PICK e \in D : StartStream(e) /\ Create(e, "begin")
    <3>1. CASE Command
      <4>1. tid' # tid
        OBVIOUS
      <4> QED BY <3>1, <4>1 DEF Command, InitClient, SetBufferSize, StopStream, StartStream, threads
    <3>2. CASE Dummy
      <4>1. d \in T \ {"recv"} /\ "recv" \in T /\ "loop" \in Places
        BY DEF T, D, Places
      <4>2. Create("recv", "loop") => tid'[d] = tid[d]
        BY <1>1, <4>1, Created DEF StopInv, QuietInv
      <4> QED BY <3>2, <4>2 DEF Dummy, threads
    <3>3. CASE \E w \in {"main", "recv"} : JoinThread(w)
      <4>1. d \in T
        BY DEF T
      <4>2. tid'[d] \in {None, tid[d]}
        BY <3>3, <4>1 DEF JoinThread, Join
      <4> QED BY <4>2
    <3>4. CASE tid' = tid
      BY <3>4
    <3>5. Command \/ Dummy \/ (\E w \in {"main", "recv"} : JoinThread(w)) \/ tid' = tid
      BY <1>1 DEF Next, Receiver, RecvCall, RecvFirst, RecvRest, RecvCount, Die, Transmit, FrameWaiting,
         CopyFirst, CopyRest, CopyHalf, CountSent, PushBuffer, ReceiveAndSend, CloseSockets,
         DieStopping, Streaming, Begin, Construct, EnableChannels, EnableFails, Check, TransferFails,
         DisableChannels, Delete, SetNull, Announce, DieInDestructor, Device, Move, Stopping, Clear,
         CancelThread, FreeDevice, NullDevice, vars, threads, StillThreads
    <3> QED BY <3>1, <3>2, <3>3, <3>4, <3>5
  <2>2. d = e
    <3>1. e \in T /\ d \in T /\ "begin" \in Places
      BY DEF T, Places
    <3> QED BY <1>1, <2>1, <3>1, Created DEF StopInv, QuietInv
  <2>3. Idle /\ host = d /\ up
    BY <2>1, <2>2 DEF StartStream, Idle
  <2> QED BY <1>1, <2>3, WhenIdle DEF StopInv, Stops, StopFirst
<1>2. StopInv /\ [Next]_vars => Starts
  BY <1>1
<1>3. StopInv /\ [Next]_vars => [Starts]_vars
  BY <1>2
<1>4. [][Starts]_vars <=> OneStreamThread
  BY DEF OneStreamThread, Leaving
<1> QED BY StopInvariant, <1>3, <1>4, PTL DEF Spec

(* Of a thread's end and the stop that follows it, one deletes the device,
   unless main and the failed receiver stop the direction at once. *)
THEOREM OneDelete == Spec => []NoDoubleDelete
<1>1. ASSUME StopInv, NEW w \in {"main", "recv"}, NEW v \in {"main", "recv"}, v # w,
             Doing(w, "free"), work[v] = <<>>, dev[Head(work[w])[2]] = "deleted"
      PROVE  FALSE
  <2> DEFINE x == Head(work[w])[2]
  <2>1. up /\ work[w] # <<>> /\ Head(work[w])[1] = OpName[2] /\ 2 \in 1..5
    BY <1>1 DEF Doing, OpName
  <2>2. x \in D /\ tid[x] = None
    <3>1. CASE w = "main"
      <4>1. (x \in T /\ OfInit(work["main"], Base(x) + 2)) \/ (x \in D /\ OfStop(work["main"], x, 2))
        BY <1>1, <2>1, <3>1, MainDoes DEF StopInv, QuietInv, MainWork
      <4>2. CASE x \in T /\ OfInit(work["main"], Base(x) + 2)
        <5>1. InitOps[Base(x) + 2][1] = "free" /\ Base(x) + 2 \in 1..14
          BY <2>1, <3>1, <4>2, InitPlace DEF OpName
        <5>2. x # "recv"
          BY <5>1 DEF InitOps, Base
        <5>3. x \in D /\ Base(x) + 2 < Base(x) + 3
          BY <4>2, <5>2 DEF T, D, Base
        <5> QED BY <1>1, <4>2, <5>1, <5>3 DEF StopInv, QuietInv, InitDone, InInit
      <4>3. CASE x \in D /\ OfStop(work["main"], x, 2)
        BY <1>1, <4>3, 2 \in 1..2 DEF StopInv, Stops, StopDone, InStop
      <4> QED BY <4>1, <4>2, <4>3
    <3>2. CASE w = "recv"
      <4>1. PICK n \in 1..11 : OfFail(work["recv"], n)
        BY <1>1, <2>1, <3>2 DEF StopInv, Stops, FailWork, InFail
      <4>2. x \in D /\ n = Base(x) + 2
        BY <2>1, <3>2, <4>1, FailDoes
      <4>3. n < Base(x) + 3
        BY <4>2 DEF Base
      <4> QED BY <1>1, <4>1, <4>2, <4>3 DEF StopInv, Stops, FailDone, InFail
    <3> QED BY <3>1, <3>2
  <2>3. pc[x] \in Gone /\ pc[x] # "null"
    BY <1>1, <2>2 DEF StopInv, QuietInv, Pids, T, Gone
  <2>4. InInit(Base(x) + 1) \/ InStop(x, 1) \/ InFail(Base(x) + 1)
    BY <1>1, <2>1, <2>2, <2>3 DEF StopInv, Stops, WillReset
  <2>5. CASE InInit(Base(x) + 1) \/ InStop(x, 1)
    <3>1. Head(work["main"]) = <<"null", x>>
      BY <2>2, <2>5, ResetIsNext
    <3>2. work["main"] # <<>>
      BY <2>5, InitPlace, StopPlace DEF InInit, InStop
    <3> QED BY <1>1, <2>1, <3>1, <3>2 DEF OpName
  <2>6. CASE InFail(Base(x) + 1)
    <3>1. work["recv"] # <<>> /\ Head(work["recv"]) = FailOps[Base(x) + 1]
      BY <2>6, FailPlace DEF InFail
    <3>2. FailOps[Base(x) + 1][1] = "null"
      BY <2>2 DEF FailOps, Base, D
    <3> QED BY <1>1, <2>1, <3>1, <3>2 DEF OpName
  <2> QED BY <2>4, <2>5, <2>6
<1>2. StopInv => NoDoubleDelete
  BY <1>1 DEF NoDoubleDelete
<1> QED BY StopInvariant, <1>2, PTL

-----------------------------------------------------------------------------
(* The types: no two threads have the same pthread_t, nor that of one that
   was leaked; a frame that is filled in has come. *)

Sizes == {InitSize, HostSize}

Apart ==
  /\ \A x \in T : tid[x] \in Threads \cup {None} /\ tid[x] \notin leaked
  /\ None \notin leaked
  /\ \A x, y \in T : tid[x] # None /\ tid[x] = tid[y] => x = y

DataTypes ==
  /\ ring \in [0..Slots-1 -> Cell] /\ txbuf \in Cell /\ log \in Seq(1..MaxFrames)
  /\ frames \in 0..MaxFrames /\ size \in [rx : Sizes, tx : Sizes] /\ rlen \in {0} \cup Sizes
  /\ pc["recv"] \in {"fill", "count"} => frames \in 1..MaxFrames

TypeInv == DataTypes /\ Apart

(* What the ring's invariant says of the types. *)
LEMMA TypesEnough == RingInv /\ TypeInv => TypeOK
<1> SUFFICES ASSUME RingInv, TypeInv PROVE TypeOK
  OBVIOUS
<1>1. sendout_fr_count \in 0..recv_fr_count
  BY DEF RingInv, Types, Copied
<1> QED BY <1>1 DEF RingInv, Types, TypeInv, DataTypes, Apart, Sizes, TypeOK

(* A thread made has a pthread_t of its own. *)
LEMMA ApartCreate ==
  ASSUME Pids, Apart, NEW x \in T, NEW start, Create(x, start)
  PROVE  Apart'
<1>1. PICK t \in Offered : /\ tid' = [tid EXCEPT ![x] = t]
                           /\ leaked' = leaked \cup ({tid[x]} \ {None})
  BY DEF Create
<1>2. t \in Free
  <2> DEFINE other == Free \ {handle[y] : y \in T}
  <2>1. other # {} => (CHOOSE u \in other : TRUE) \in other
    OBVIOUS
  <2> QED BY <2>1 DEF Offered
<1>3. t \in Threads /\ t # None /\ t \notin leaked /\ \A y \in T : tid[y] # t
  BY <1>2, RingAssumption DEF Free
<1>4. tid'[x] = t /\ \A y \in T \ {x} : tid'[y] = tid[y]
  BY <1>1 DEF Pids
<1>5. \A y \in T : tid'[y] \in Threads \cup {None} /\ tid'[y] \notin leaked'
  BY <1>1, <1>3, <1>4 DEF Apart
<1>6. \A y, z \in T : tid'[y] # None /\ tid'[y] = tid'[z] => y = z
  BY <1>3, <1>4 DEF Apart
<1>7. None \notin leaked'
  BY <1>1 DEF Apart
<1> QED BY <1>5, <1>6, <1>7 DEF Apart

(* Every step keeps them apart. *)
LEMMA ApartStep ==
  ASSUME QuietInv, Apart, [Next]_vars
  PROVE  Apart'
<1>1. CASE UNCHANGED <<tid, leaked>>
  BY <1>1 DEF Apart
<1>2. CASE \E x \in T : \E start : Create(x, start)
  BY <1>2, ApartCreate DEF QuietInv
<1>3. CASE \E w \in {"main", "recv"} : JoinThread(w)
  <2>1. leaked' = leaked /\ \A y \in T : tid'[y] \in {None, tid[y]}
    BY <1>3 DEF JoinThread, Join
  <2> QED BY <2>1 DEF Apart
<1>4. \/ UNCHANGED <<tid, leaked>> \/ (\E w \in {"main", "recv"} : JoinThread(w))
      \/ \E x \in T : \E start : Create(x, start)
  <2>1. CASE \E d \in D : StartStream(d)
    BY <2>1, SMTT(30) DEF StartStream, threads, T
  <2>2. CASE Dummy
    BY <2>2 DEF Dummy, threads, T
  <2>3. CASE ~Dummy /\ ~\E d \in D : StartStream(d)
    BY <2>3 DEF Next, Command, InitClient, SetBufferSize, StopStream, Receiver, RecvCall, RecvFirst,
         RecvRest, RecvCount, Die, Transmit, FrameWaiting, CopyFirst, CopyRest, CopyHalf, CountSent,
         PushBuffer, ReceiveAndSend, CloseSockets, DieStopping, Streaming, Begin, Construct,
         EnableChannels, EnableFails, Check, TransferFails, DisableChannels, Delete, SetNull,
         Announce, DieInDestructor, Device, Move, Stopping, Clear, CancelThread, FreeDevice,
         NullDevice, vars, threads, StillThreads
  <2> QED BY <2>1, <2>2, <2>3
<1> QED BY <1>1, <1>2, <1>3, <1>4

(* The frames. *)
LEMMA DataStep ==
  ASSUME DataTypes, RingInv, QuietInv, [Next]_vars
  PROVE  DataTypes'
<1> USE RingAssumption
<1>1. /\ slot \in 0..Slots-1 /\ pc \in [T -> Places] /\ "recv" \in T /\ frames \in Nat
      /\ recv_fr_count \in Nat /\ sendout_fr_count \in Nat /\ size.rx \in Sizes
  BY DEF RingInv, Types, DataTypes, T
<1>2. CASE RecvFirst
  <2>1. frames' = frames + 1 /\ frames' \in 1..MaxFrames
    BY <1>1, <1>2 DEF RecvFirst, DataTypes
  <2>2. ring' = [ring EXCEPT ![slot] = [ring[slot] EXCEPT ![1] = frames']]
    BY <1>2 DEF RecvFirst
  <2>3. ring' \in [0..Slots-1 -> Cell]
    BY <1>1, <2>1, <2>2, SMTT(30) DEF DataTypes, Cell, Halves
  <2> QED BY <1>2, <2>1, <2>3 DEF RecvFirst, DataTypes
<1>3. CASE RecvRest
  <2>1. ring' = [ring EXCEPT ![slot] = [ring[slot] EXCEPT ![2] = frames]] /\ frames \in 1..MaxFrames
    BY <1>3 DEF RecvRest, DataTypes
  <2>2. ring' \in [0..Slots-1 -> Cell]
    BY <1>1, <2>1 DEF DataTypes, Cell, Halves
  <2> QED BY <1>3, <2>1, <2>2 DEF RecvRest, DataTypes
<1>4. CASE RecvCount
  <2>1. frames \in 1..MaxFrames /\ log' = Append(log, frames) /\ pc' = [pc EXCEPT !["recv"] = "loop"]
    BY <1>4 DEF RecvCount, DataTypes, Goto
  <2>2. log' \in Seq(1..MaxFrames)
    BY <2>1 DEF DataTypes
  <2> QED BY <1>1, <1>4, <2>1, <2>2 DEF RecvCount, DataTypes
<1>5. CASE RecvCall
  <2>1. rlen' \in {0} \cup Sizes /\ pc'["recv"] \in {"recv", "failed"}
    BY <1>1, <1>5 DEF RecvCall, Fail, Goto, DataTypes
  <2> QED BY <1>5, <2>1 DEF RecvCall, DataTypes
<1>6. CASE CopyFirst \/ CopyRest
  <2>1. PICK half \in Halves : txbuf' = [txbuf EXCEPT ![half] = ring[sendout_fr_count % Slots][half]]
    BY <1>6 DEF CopyFirst, CopyRest, CopyHalf, Halves
  <2>2. sendout_fr_count % Slots \in 0..Slots-1
    BY <1>1, Division
  <2>3. ring[sendout_fr_count % Slots][half] \in 0..MaxFrames
    BY <2>1, <2>2 DEF DataTypes, Cell
  <2>4. txbuf' \in Cell
    BY <2>1, <2>3 DEF DataTypes, Cell
  <2>5. pc'["recv"] = pc["recv"] /\ UNCHANGED <<ring, log, frames, size, rlen>>
    BY <1>1, <1>6 DEF CopyFirst, CopyRest, CopyHalf, Goto
  <2> QED BY <2>4, <2>5 DEF DataTypes
<1>7. CASE \E d \in D : SetBufferSize(d)
  <2>1. UNCHANGED <<ring, txbuf, log, frames, rlen, pc>>
    BY <1>7 DEF SetBufferSize, data, threads
  <2>2. size' \in [rx : Sizes, tx : Sizes]
    BY <1>7 DEF SetBufferSize, DataTypes, Sizes
  <2> QED BY <2>1, <2>2 DEF DataTypes
<1>8. CASE /\ UNCHANGED <<ring, txbuf, log, frames, size, rlen>>
           /\ pc'["recv"] \in {"fill", "count"} => pc'["recv"] = pc["recv"]
  BY <1>8 DEF DataTypes
<1>9. CASE ~(RecvFirst \/ RecvRest \/ RecvCount \/ RecvCall \/ CopyFirst \/ CopyRest
               \/ \E d \in D : SetBufferSize(d))
  <2>1. UNCHANGED <<ring, txbuf, log, frames, size, rlen>>
    BY <1>9 DEF Next, Command, InitClient, StopStream, StartStream, Dummy, Receiver, Die, Transmit,
         FrameWaiting, CountSent, PushBuffer, ReceiveAndSend, CloseSockets, DieStopping, Streaming,
         Begin, Construct, EnableChannels, EnableFails, Check, TransferFails, DisableChannels,
         Delete, SetNull, Announce, DieInDestructor, Device, Move, Stopping, Clear, CancelThread,
         JoinThread, FreeDevice, NullDevice, vars, data
  <2>2. pc'["recv"] \in {"fill", "count"} => pc'["recv"] = pc["recv"]
    <3>1. CASE \E d \in D : Streaming(d) \/ Transmit \/ ReceiveAndSend
      <4>1. pc' = pc \/ \E d \in D : \E to : pc' = [pc EXCEPT ![d] = to]
        BY <1>9, <3>1 DEF Transmit, FrameWaiting, CountSent, PushBuffer, ReceiveAndSend, Streaming,
         Begin, Construct, EnableChannels, EnableFails, Check, TransferFails, DisableChannels,
         Delete, SetNull, Announce, DieInDestructor, Die, Device, Move, threads, StillThreads, Goto, D
      <4> QED BY <1>1, <4>1 DEF D
    <3>2. CASE Die("recv") \/ CloseSockets \/ DieStopping
      BY <1>1, <3>2 DEF Die, CloseSockets, DieStopping, Goto
    <3>3. CASE \E x \in T, start \in {"loop", "begin"} : Create(x, start)
      BY <1>1, <3>3 DEF Create, Goto
    <3>4. CASE pc' = pc
      BY <3>4
    <3>5. \/ \E d \in D : Streaming(d) \/ Transmit \/ ReceiveAndSend
          \/ Die("recv") \/ CloseSockets \/ DieStopping
          \/ \E x \in T, start \in {"loop", "begin"} : Create(x, start)
          \/ pc' = pc
      BY <1>9 DEF Next, Command, InitClient, StopStream, StartStream, Dummy, Receiver, Stopping, Clear,
         CancelThread, JoinThread, FreeDevice, NullDevice, vars, threads, T, D
    <3> QED BY <3>1, <3>2, <3>3, <3>4, <3>5
  <2> QED BY <1>8, <2>1, <2>2
<1> QED BY <1>2, <1>3, <1>4, <1>5, <1>6, <1>7, <1>9

(* At first. *)
LEMMA TypeHolds == Init => TypeInv
<1> SUFFICES ASSUME Init PROVE TypeInv
  OBVIOUS
<1> USE RingAssumption
<1>1. Fresh \in Cell
  BY DEF Fresh, Cell, Halves
<1>2. ring \in [0..Slots-1 -> Cell] /\ txbuf \in Cell
  BY <1>1 DEF Init
<1>3. log \in Seq(1..MaxFrames) /\ frames \in 0..MaxFrames /\ rlen = 0
  BY DEF Init
<1>4. size \in [rx : Sizes, tx : Sizes]
  BY DEF Init, Sizes
<1>5. pc["recv"] = "none" /\ \A x \in T : tid[x] = None
  BY DEF Init, T, None
<1>6. leaked = {}
  BY DEF Init
<1> QED BY <1>2, <1>3, <1>4, <1>5, <1>6 DEF TypeInv, DataTypes, Apart

(* The state has its types, the frames sent are counted within their bound,
   and no thread has the pthread_t of another or of one leaked. *)
THEOREM RingTypes == Spec => []TypeOK
<1>1. RingInv /\ QuietInv /\ TypeInv /\ [Next]_vars => TypeInv'
  BY ApartStep, DataStep DEF TypeInv
<1>2. Spec => []TypeInv
  BY RingInvariant, QuietInvariant, TypeHolds, <1>1, PTL DEF Spec
<1> QED BY RingInvariant, <1>2, TypesEnough, PTL
=============================================================================
