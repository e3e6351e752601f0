-------------------------- MODULE ControllerProofs --------------------------
(***************************************************************************)
(* Theorems of Controller, for every set of sizes and faults and every     *)
(* bound on the stream socket.                                             *)
(***************************************************************************)
EXTENDS Controller, TLAPS

(* Half the values of an int are not negative, and the sizes are among them. *)
LEMMA IntFacts ==
  /\ IntRange \div 2 \in Nat
  /\ IntRange \div 2 > MaxSize
  /\ IntRange = 2 * (IntRange \div 2)
<1>1. IntRange \in Nat /\ IntRange % 2 = 0 /\ IntRange \div 2 > MaxSize
  BY ControllerAssumption
<1> QED
  BY <1>1

(* The sizes the board uses unasked are ints and fit a datagram. *)
LEMMA SizeFacts ==
  /\ 0 \in ServerSizes
  /\ DUMMYBUF_SIZE_BYTE \in ServerSizes
  /\ DUMMYBUF_SIZE_BYTE \in 0..MaxPayload
  /\ DUMMYBUF_SIZE_BYTE \div 4 \in IntValues
  /\ DUMMYBUF_SIZE_BYTE = 4 * (DUMMYBUF_SIZE_BYTE \div 4)
<1>1. DUMMYBUF_SIZE_BYTE \div 4 = 4096 /\ DUMMYBUF_SIZE_BYTE = 4 * 4096
  BY DEF DUMMYBUF_SIZE_BYTE
<1>2. 0 \in ServerSizes /\ DUMMYBUF_SIZE_BYTE \in ServerSizes
  BY IntFacts DEF ServerSizes, MaxSize, DUMMYBUF_SIZE_BYTE
<1>3. DUMMYBUF_SIZE_BYTE \in 0..MaxPayload
  BY DEF MaxPayload, DUMMYBUF_SIZE_BYTE
<1>4. 4096 \in IntValues
  BY IntFacts DEF IntValues, INT_MAX, MaxSize
<1> QED
  BY <1>1, <1>2, <1>3, <1>4

(* A remainder lies below its divisor. *)
LEMMA RemainderBelow ==
  ASSUME NEW a \in Int, NEW n \in Nat, n > 0
  PROVE  a % n \in 0..(n - 1)
OBVIOUS

(* The remainder of a number below the divisor is the number. *)
LEMMA RemainderSame ==
  ASSUME NEW a \in Nat, NEW n \in Nat, a < n
  PROVE  a % n = a
OBVIOUS

(* A conversion to int gives an int ... *)
LEMMA NarrowIsInt ==
  ASSUME NEW v \in Int
  PROVE  Narrow(v) \in IntValues
<1> DEFINE h == IntRange \div 2
<1>1. h \in Nat /\ h > 0 /\ IntRange = 2 * h
  BY IntFacts DEF MaxSize
<1>2. (v + h) % IntRange \in 0..(IntRange - 1)
  <2>1. v + h \in Int /\ IntRange \in Nat /\ IntRange > 0
    BY <1>1
  <2> QED
    BY ONLY <2>1, RemainderBelow
<1>3. ((v + h) % IntRange) - h \in -h..(h - 1)
  BY <1>1, <1>2
<1> QED
  BY <1>3 DEF Narrow, IntValues, INT_MAX

(* ... and the number itself if it is one. *)
LEMMA NarrowSame ==
  ASSUME NEW v \in IntValues
  PROVE  Narrow(v) = v
<1> DEFINE h == IntRange \div 2
<1>1. h \in Nat /\ h > 0 /\ IntRange = 2 * h
  BY IntFacts DEF MaxSize
<1>2. v \in -h..(h - 1)
  BY DEF IntValues, INT_MAX
<1>3. v + h \in Nat /\ v + h < IntRange /\ IntRange \in Nat
  BY <1>1, <1>2
<1>4. (v + h) % IntRange = v + h
  BY ONLY <1>3, RemainderSame
<1>5. ((v + h) % IntRange) - h = v
  BY <1>1, <1>2, <1>4
<1> QED
  BY <1>5 DEF Narrow

(* A number of bytes is a number of samples, of which the driver's is whole. *)
LEMMA SamplesFacts ==
  ASSUME NEW v \in Int
  PROVE  /\ Samples(v) \in Int
         /\ v % 4 = 0 => v = 4 * Samples(v)
<1>1. CASE v >= 0
  <2>1. v \div 4 \in Int /\ (v % 4 = 0 => v = 4 * (v \div 4))
    BY <1>1
  <2> QED
    BY <1>1, <2>1 DEF Samples
<1>2. CASE ~(v >= 0)
  <2>1. -((-v) \div 4) \in Int /\ (v % 4 = 0 => v = 4 * (-((-v) \div 4)))
    BY <1>2
  <2> QED
    BY <1>2, <2>1 DEF Samples
<1> QED
  BY <1>1, <1>2

(* What set buffersize stores is an int, and the server's size at most what it
   accepts. *)
LEMMA SetSizeFacts ==
  ASSUME NEW val \in Int
  PROVE  /\ Narrow(Samples(val)) \in IntValues
         /\ Narrow(val) <= MaxSize => Narrow(val) \in ServerSizes
<1>1. Narrow(Samples(val)) \in IntValues
  BY SamplesFacts, NarrowIsInt
<1>2. Narrow(val) \in IntValues
  BY NarrowIsInt
<1>3. Narrow(val) <= MaxSize => Narrow(val) \in ServerSizes
  BY <1>2, IntFacts DEF IntValues, INT_MAX, ServerSizes, MaxSize
<1> QED
  BY <1>1, <1>3

(* What the driver asks for is stored as it is, in bytes and in samples. *)
LEMMA DriverSizeFacts ==
  ASSUME NEW val \in Int, DriverAsksFor(val)
  PROVE  /\ Narrow(val) = val
         /\ val <= MaxSize
         /\ val = 4 * Narrow(Samples(val))
<1>1. val \in IntValues /\ val <= MaxSize /\ val % 4 = 0
  BY DEF DriverAsksFor
<1>2. Narrow(val) = val
  BY <1>1, NarrowSame
<1>3. Samples(val) \in Int /\ val = 4 * Samples(val)
  BY <1>1, SamplesFacts
<1>4. Samples(val) \in IntValues
  BY <1>1, <1>3, IntFacts DEF IntValues, INT_MAX
<1>5. Narrow(Samples(val)) = Samples(val)
  BY <1>4, NarrowSame
<1> QED
  BY <1>1, <1>2, <1>3, <1>5

(* The bytes of a positive number of samples. *)
LEMMA BytesOfSamples ==
  ASSUME NEW n \in Int, n > 0
  PROVE  4 * n \in Nat
OBVIOUS

(* A number stored for one direction. *)
LEMMA StoreNat ==
  ASSUME NEW f \in [Dirs -> Nat], NEW d \in Dirs, NEW n \in Nat
  PROVE  [f EXCEPT ![d] = n] \in [Dirs -> Nat]
OBVIOUS

(* The environment and the sizes it asks for. *)
LEMMA EnvironmentFacts ==
  ASSUME TypeOK
  PROVE  /\ env.host \in {"any", "driver"}
         /\ env.sizes \subseteq Int
<1>1. env \in [host : {"any", "driver"}, faults : SUBSET FaultKinds, sizes : SUBSET Int]
  BY ControllerAssumption DEF TypeOK
<1> QED
  BY <1>1

(* The variables have their types at first ... *)
LEMMA TypeInit == Init => TypeOK
<1> SUFFICES ASSUME Init PROVE TypeOK
  OBVIOUS
<1>1. /\ thread_active \in [Dirs -> BOOLEAN]
      /\ cancelled \in [Dirs -> BOOLEAN]
      /\ channels \in [Dirs -> BOOLEAN]
      /\ isStreaming \in [Dirs -> BOOLEAN]
      /\ env \in Environments
  BY DEF Init
<1>2. /\ pc \in [Dirs -> ThreadPC]
      /\ iiobuf \in [Dirs -> {"null", "live", "destroyed"}]
      /\ handle \in [Dirs -> Dirs \cup {"ended", "nobody"}]
  BY DEF Init, ThreadPC, Gone
<1>3. /\ bufSizeByte \in [Dirs -> Nat]
      /\ bufferSizeSample \in [Dirs -> IntValues]
      /\ streamSizeByte \in [Dirs -> ServerSizes]
      /\ frameSize \in [Dirs -> ServerSizes]
  BY SizeFacts DEF Init
<1>4. /\ mainAt \in {"recv", "check", "join", "disable", "reset", "dummy"}
      /\ mainOp \in {"stop", "init"}
      /\ mainDir \in Dirs
  BY DEF Init, Dirs
<1>5. session \in {"closed", "init", "rx", "tx", "ready"} /\ terminated \in BOOLEAN
  BY DEF Init
<1>6. streamq \in Seq(0..MaxPayload)
  BY DEF Init
<1> QED
  BY <1>1, <1>2, <1>3, <1>4, <1>5, <1>6 DEF TypeOK

(* Every step of a thread, of the main thread and of the network keeps the types. *)
LEMMA TypeStep == TypeOK /\ [Next]_vars => TypeOK'
<1> SUFFICES ASSUME TypeOK, [Next]_vars PROVE TypeOK'
  OBVIOUS
<1> USE DEF TypeOK, vars, threadVars, deviceVars, sizeVars, mainVars, Goto, Exit, HostBecomes
<1>0. env' = env
  BY DEF Next
<1> USE <1>0
<1>1. ASSUME NEW d \in Dirs, Prologue(d) PROVE TypeOK'
  <2>1. thread_active' \in [Dirs -> BOOLEAN]
    BY <1>1 DEF Prologue
  <2>2. pc' \in [Dirs -> ThreadPC]
    BY <1>1 DEF Prologue, ThreadPC
  <2> QED
    BY <1>1, <2>1, <2>2 DEF Prologue
<1>2. ASSUME NEW d \in Dirs, EnableChannels(d) PROVE TypeOK'
  <2>1. pc' \in [Dirs -> ThreadPC]
    <3>1. pc' = pc \/ pc' = [pc EXCEPT ![d] = "creating"]
      BY <1>2 DEF EnableChannels
    <3> QED
      BY <3>1 DEF ThreadPC
  <2>2. channels' \in [Dirs -> BOOLEAN]
    BY <1>2 DEF EnableChannels
  <2>3. terminated' \in BOOLEAN
    BY <1>2 DEF EnableChannels
  <2> QED
    BY <1>2, <2>1, <2>2, <2>3 DEF EnableChannels
<1>3. ASSUME NEW d \in Dirs, CreateBuffer(d) PROVE TypeOK'
  <2>1. pc' \in [Dirs -> ThreadPC]
    BY <1>3 DEF CreateBuffer, ThreadPC
  <2>2. iiobuf' \in [Dirs -> {"null", "live", "destroyed"}]
    BY <1>3 DEF CreateBuffer
  <2>3. bufSizeByte' \in [Dirs -> Nat]
    <3>1. \/ /\ bufSizeByte' = [bufSizeByte EXCEPT ![d] = 4 * bufferSizeSample[d]]
             /\ bufferSizeSample[d] > 0
          \/ bufSizeByte' = bufSizeByte
      BY <1>3 DEF CreateBuffer
    <3>2. bufSizeByte \in [Dirs -> Nat]
      OBVIOUS
    <3>3. bufferSizeSample[d] \in Int
      BY <1>3 DEF IntValues, INT_MAX
    <3> QED
      BY ONLY <1>3, <3>1, <3>2, <3>3, BytesOfSamples, StoreNat
  <2>4. isStreaming' \in [Dirs -> BOOLEAN]
    BY <1>3 DEF CreateBuffer
  <2> QED
    BY <1>3, <2>1, <2>2, <2>3, <2>4 DEF CreateBuffer
<1>4. ASSUME NEW d \in Dirs, CreateBufferFails(d) PROVE TypeOK'
  BY <1>4 DEF CreateBufferFails
<1>5. ASSUME NEW d \in Dirs, Snapshot(d) PROVE TypeOK'
  <2>1. pc' \in [Dirs -> ThreadPC]
    BY <1>5 DEF Snapshot, ThreadPC
  <2>2. frameSize' \in [Dirs -> ServerSizes]
    BY <1>5, SizeFacts DEF Snapshot
  <2> QED
    BY <1>5, <2>1, <2>2 DEF Snapshot
<1>6. CASE Refill
  <2>1. pc' \in [Dirs -> ThreadPC]
    BY <1>6 DEF Refill, ThreadPC, Dirs
  <2> QED
    BY <1>6, <2>1 DEF Refill
<1>7. CASE RecvFrame
  <2>1. pc' \in [Dirs -> ThreadPC]
    BY <1>7 DEF RecvFrame, ThreadPC, Dirs
  <2>2. streamq' \in Seq(0..MaxPayload)
    BY <1>7 DEF RecvFrame
  <2> QED
    BY <1>7, <2>1, <2>2 DEF RecvFrame
<1>8. ASSUME NEW d \in Dirs, Transfer(d) PROVE TypeOK'
  <2>1. pc' \in [Dirs -> ThreadPC]
    BY <1>8 DEF Transfer, ThreadPC
  <2> QED
    BY <1>8, <2>1 DEF Transfer
<1>9. ASSUME NEW d \in Dirs, TransferFails(d) PROVE TypeOK'
  <2>1. pc' \in [Dirs -> ThreadPC]
    BY <1>9 DEF TransferFails, ThreadPC
  <2> QED
    BY <1>9, <2>1 DEF TransferFails
<1>10. ASSUME NEW d \in Dirs, DestroyBuffer(d) PROVE TypeOK'
  <2>1. pc' \in [Dirs -> ThreadPC]
    BY <1>10 DEF DestroyBuffer, ThreadPC
  <2>2. iiobuf' \in [Dirs -> {"null", "live", "destroyed"}]
    BY <1>10 DEF DestroyBuffer
  <2> QED
    BY <1>10, <2>1, <2>2 DEF DestroyBuffer
<1>11. ASSUME NEW d \in Dirs, NullBuffer(d) PROVE TypeOK'
  <2>1. pc' \in [Dirs -> ThreadPC]
    BY <1>11 DEF NullBuffer, ThreadPC
  <2>2. iiobuf' \in [Dirs -> {"null", "live", "destroyed"}]
    BY <1>11 DEF NullBuffer
  <2>3. bufSizeByte' \in [Dirs -> Nat]
    BY <1>11 DEF NullBuffer
  <2> QED
    BY <1>11, <2>1, <2>2, <2>3 DEF NullBuffer
<1>12. ASSUME NEW d \in Dirs, DisableChannels(d) PROVE TypeOK'
  <2>1. pc' \in [Dirs -> ThreadPC]
    BY <1>12 DEF DisableChannels, ThreadPC
  <2>2. channels' \in [Dirs -> BOOLEAN]
    BY <1>12 DEF DisableChannels
  <2>3. isStreaming' \in [Dirs -> BOOLEAN]
    BY <1>12 DEF DisableChannels
  <2> QED
    BY <1>12, <2>1, <2>2, <2>3 DEF DisableChannels
<1>13. ASSUME NEW d \in Dirs, Announce(d) PROVE TypeOK'
  <2>1. pc' \in [Dirs -> ThreadPC]
    BY <1>13 DEF Announce, ThreadPC, Gone
  <2>2. thread_active' \in [Dirs -> BOOLEAN]
    BY <1>13 DEF Announce
  <2>3. frameSize' \in [Dirs -> ServerSizes]
    BY <1>13, SizeFacts DEF Announce
  <2> QED
    BY <1>13, <2>1, <2>2, <2>3 DEF Announce
<1>14. ASSUME NEW d \in Dirs, ActOnCancel(d) PROVE TypeOK'
  <2>1. pc' \in [Dirs -> ThreadPC]
    BY <1>14 DEF ActOnCancel, ThreadPC, Gone
  <2>2. frameSize' \in [Dirs -> ServerSizes]
    BY <1>14, SizeFacts DEF ActOnCancel
  <2> QED
    BY <1>14, <2>1, <2>2 DEF ActOnCancel
<1>15. ASSUME NEW d \in Dirs, Start(d) PROVE TypeOK'
  <2>1. pc' \in [Dirs -> ThreadPC]
    BY <1>15 DEF Start, ThreadPC
  <2>2. thread_active' \in [Dirs -> BOOLEAN]
    BY <1>15 DEF Start
  <2>3. cancelled' \in [Dirs -> BOOLEAN]
    BY <1>15 DEF Start
  <2>4. handle' \in [Dirs -> Dirs \cup {"ended", "nobody"}]
    BY <1>15 DEF Start, NewHandle
  <2> QED
    BY <1>15, <2>1, <2>2, <2>3, <2>4 DEF Start
<1>16. ASSUME NEW d \in Dirs, StartFails(d) PROVE TypeOK'
  <2>1. thread_active' \in [Dirs -> BOOLEAN]
    BY <1>16 DEF StartFails
  <2> QED
    BY <1>16, <2>1 DEF StartFails
<1>17. ASSUME NEW d \in Dirs, StopCommand(d) PROVE TypeOK'
  BY <1>17 DEF StopCommand, Dirs
<1>18. CASE InitCommand
  <2>1. session' \in {"closed", "init", "rx", "tx", "ready"}
    BY <1>18 DEF InitCommand
  <2> QED
    BY <1>18, <2>1 DEF InitCommand, Dirs
<1>19. CASE StopCheck
  <2>1. cancelled' \in [Dirs -> BOOLEAN]
    BY <1>19 DEF StopCheck
  <2>2. mainAt' \in {"recv", "check", "join", "disable", "reset", "dummy"}
    BY <1>19 DEF StopCheck
  <2> QED
    BY <1>19, <2>1, <2>2 DEF StopCheck
<1>20. CASE StopJoin
  <2>1. pc' \in [Dirs -> ThreadPC]
    BY <1>20 DEF StopJoin, ThreadPC, Gone
  <2>2. thread_active' \in [Dirs -> BOOLEAN]
    BY <1>20 DEF StopJoin
  <2>3. cancelled' \in [Dirs -> BOOLEAN]
    BY <1>20 DEF StopJoin
  <2>4. handle' \in [Dirs -> Dirs \cup {"ended", "nobody"}]
    BY <1>20 DEF StopJoin
  <2> QED
    BY <1>20, <2>1, <2>2, <2>3, <2>4 DEF StopJoin
<1>21. CASE StopDisable
  <2>1. iiobuf' \in [Dirs -> {"null", "live", "destroyed"}]
    BY <1>21 DEF StopDisable
  <2>2. bufSizeByte' \in [Dirs -> Nat]
    BY <1>21 DEF StopDisable
  <2>3. channels' \in [Dirs -> BOOLEAN]
    BY <1>21 DEF StopDisable
  <2>4. isStreaming' \in [Dirs -> BOOLEAN]
    BY <1>21 DEF StopDisable
  <2>5. mainAt' \in {"recv", "check", "join", "disable", "reset", "dummy"}
    BY <1>21 DEF StopDisable
  <2>6. mainDir' \in Dirs
    BY <1>21 DEF StopDisable, Dirs
  <2> QED
    BY <1>21, <2>1, <2>2, <2>3, <2>4, <2>5, <2>6 DEF StopDisable
<1>22. CASE InitReset
  <2>1. streamSizeByte' \in [Dirs -> ServerSizes]
    BY <1>22, SizeFacts DEF InitReset
  <2> QED
    BY <1>22, <2>1 DEF InitReset
<1>23. CASE InitDummy
  <2>1. streamq' \in Seq(0..MaxPayload)
    BY <1>23 DEF InitDummy
  <2>2. session' \in {"closed", "init", "rx", "tx", "ready"}
    BY <1>23 DEF InitDummy
  <2> QED
    BY <1>23, <2>1, <2>2 DEF InitDummy
<1>24. ASSUME NEW d \in Dirs, NEW val \in env.sizes, SetBufferSize(d, val) PROVE TypeOK'
  <2>0. val \in Int
    BY <1>24, EnvironmentFacts
  <2>1. bufferSizeSample' \in [Dirs -> IntValues]
    <3>1. Narrow(Samples(val)) \in IntValues
      BY <2>0, SetSizeFacts
    <3> QED
      BY <1>24, <3>1 DEF SetBufferSize
  <2>2. streamSizeByte' \in [Dirs -> ServerSizes]
    <3>1. Narrow(val) <= MaxSize => Narrow(val) \in ServerSizes
      BY <2>0, SetSizeFacts
    <3> QED
      BY <1>24, <3>1 DEF SetBufferSize
  <2>3. session' \in {"closed", "init", "rx", "tx", "ready"}
    BY <1>24 DEF SetBufferSize
  <2> QED
    BY <1>24, <2>1, <2>2, <2>3 DEF SetBufferSize
<1>25. ASSUME NEW size \in Datagrams, FrameArrives(size) PROVE TypeOK'
  <2>1. streamq' \in Seq(0..MaxPayload)
    BY <1>25 DEF FrameArrives, Datagrams
  <2> QED
    BY <1>25, <2>1 DEF FrameArrives
<1>26. CASE StopUndefined
  BY <1>26 DEF StopUndefined
<1>27. CASE StopDestroysTwice
  BY <1>27 DEF StopDestroysTwice
<1>28. CASE UNCHANGED vars
  BY <1>28
<1> QED
  BY <1>1, <1>2, <1>3, <1>4, <1>5, <1>6, <1>7, <1>8, <1>9, <1>10, <1>11,
     <1>12, <1>13, <1>14, <1>15, <1>16, <1>17, <1>18, <1>19, <1>20, <1>21,
     <1>22, <1>23, <1>24, <1>25, <1>26, <1>27, <1>28
  DEF Next, ThreadStep, ThreadFault, MainStep, Command

(* The variables keep their types in every behaviour, whatever numbers a host asks
   for: the sizes stay ints, the server's at most 65535, and every IIO buffer has
   a positive number of bytes or none. *)
THEOREM TypeCorrect == Spec => []TypeOK
BY TypeInit, TypeStep, PTL DEF Spec

-----------------------------------------------------------------------------
(* The flag, the thread and the device are handed over in an order that keeps
   them consistent, whatever the host asks for and whatever fails. *)
LEMMA ControlInit == Init => ControlInv
<1> SUFFICES ASSUME Init PROVE ControlInv
  OBVIOUS
<1>1. RunningIsActive
  BY DEF Init, RunningIsActive, Gone
<1>2. ThreadOwnsDevice
  BY DEF Init, ThreadOwnsDevice
<1>3. GoneMeansOff
  BY DEF Init, GoneMeansOff, Off
<1>4. CancelledIsJoined
  BY DEF Init, CancelledIsJoined
<1>5. DisableAfterThread
  BY DEF Init, DisableAfterThread
<1>6. InitInOrder
  <2>1. mainAt = "recv"
    BY DEF Init
  <2> QED BY <2>1 DEF InitInOrder
<1>7. HandleNamesThread
  BY DEF Init, HandleNamesThread, Gone, Dirs
<1>8. FlagInv
  <2>1. mainAt # "join" /\ \A d \in Dirs : ~thread_active[d]
    BY DEF Init
  <2> QED
    BY <2>1, Zenon DEF FlagInv
<1> QED BY <1>1, <1>2, <1>3, <1>4, <1>5, <1>6, <1>7, <1>8 DEF ControlInv

(* Each step hands flag, thread and device over as the invariant has it. *)
LEMMA ControlStep == TypeOK /\ ControlInv /\ [Next]_vars => ControlInv'
<1> SUFFICES ASSUME TypeOK, ControlInv, [Next]_vars PROVE ControlInv'
  OBVIOUS
<1> USE DEF TypeOK, ControlInv, RunningIsActive, ThreadOwnsDevice, GoneMeansOff,
            HandleNamesThread, CancelledIsJoined, FlagInv, DisableAfterThread, InitInOrder,
            AtRest, Off, Gone, Dirs, vars, threadVars, deviceVars, sizeVars, mainVars,
            Goto, Exit
<1>0. env' = env
  BY DEF Next
<1> USE <1>0
<1>1. ASSUME NEW d \in Dirs, Prologue(d) PROVE ControlInv'
  BY <1>1 DEF Prologue
<1>2. ASSUME NEW d \in Dirs, EnableChannels(d) PROVE ControlInv'
  BY <1>2 DEF EnableChannels
<1>3. ASSUME NEW d \in Dirs, CreateBuffer(d) PROVE ControlInv'
  BY <1>3 DEF CreateBuffer
<1>4. ASSUME NEW d \in Dirs, CreateBufferFails(d) PROVE ControlInv'
  BY <1>4 DEF CreateBufferFails
<1>5. ASSUME NEW d \in Dirs, Snapshot(d) PROVE ControlInv'
  BY <1>5 DEF Snapshot
<1>6. CASE Refill
  BY <1>6 DEF Refill
<1>7. CASE RecvFrame
  BY <1>7 DEF RecvFrame
<1>8. ASSUME NEW d \in Dirs, Transfer(d) PROVE ControlInv'
  BY <1>8 DEF Transfer
<1>9. ASSUME NEW d \in Dirs, TransferFails(d) PROVE ControlInv'
  BY <1>9 DEF TransferFails
<1>10. ASSUME NEW d \in Dirs, DestroyBuffer(d) PROVE ControlInv'
  BY <1>10 DEF DestroyBuffer
<1>11. ASSUME NEW d \in Dirs, NullBuffer(d) PROVE ControlInv'
  BY <1>11 DEF NullBuffer
<1>12. ASSUME NEW d \in Dirs, DisableChannels(d) PROVE ControlInv'
  BY <1>12 DEF DisableChannels
<1>13. ASSUME NEW d \in Dirs, Announce(d) PROVE ControlInv'
  BY <1>13 DEF Announce
<1>14. ASSUME NEW d \in Dirs, ActOnCancel(d) PROVE ControlInv'
  BY <1>14 DEF ActOnCancel
<1>15. ASSUME NEW d \in Dirs, Start(d) PROVE ControlInv'
  BY <1>15 DEF Start, NewHandle
<1>16. ASSUME NEW d \in Dirs, StartFails(d) PROVE ControlInv'
  BY <1>16 DEF StartFails
<1>17. ASSUME NEW d \in Dirs, StopCommand(d) PROVE ControlInv'
  BY <1>17 DEF StopCommand
<1>18. CASE InitCommand
  BY <1>18 DEF InitCommand
<1>19. CASE StopCheck
  BY <1>19 DEF StopCheck
<1>20. CASE StopJoin
  BY <1>20 DEF StopJoin
<1>21. CASE StopDisable
  BY <1>21 DEF StopDisable
<1>22. CASE InitReset
  BY <1>22 DEF InitReset
<1>23. CASE InitDummy
  BY <1>23 DEF InitDummy
<1>24. ASSUME NEW d \in Dirs, NEW val \in env.sizes, SetBufferSize(d, val) PROVE ControlInv'
  BY <1>24 DEF SetBufferSize
<1>25. ASSUME NEW size \in Datagrams, FrameArrives(size) PROVE ControlInv'
  BY <1>25 DEF FrameArrives
<1>26. CASE StopUndefined
  BY <1>26 DEF StopUndefined
<1>27. CASE StopDestroysTwice
  BY <1>27 DEF StopDestroysTwice
<1>28. CASE UNCHANGED vars
  BY <1>28
<1> QED
  BY <1>1, <1>2, <1>3, <1>4, <1>5, <1>6, <1>7, <1>8, <1>9, <1>10, <1>11,
     <1>12, <1>13, <1>14, <1>15, <1>16, <1>17, <1>18, <1>19, <1>20, <1>21,
     <1>22, <1>23, <1>24, <1>25, <1>26, <1>27, <1>28
  DEF Next, ThreadStep, ThreadFault, MainStep, Command

(* Flag, thread, device and the main thread's progress stay consistent in every
   behaviour of the board, with any host and any fault. *)
THEOREM ControlInvariant == Spec => []ControlInv
BY TypeInit, TypeStep, ControlInit, ControlStep, PTL DEF Spec

(* No start ever finds its direction streaming already: the exception of
   enableChannels, which nothing catches, is never thrown. *)
THEOREM EnableSafe == Spec => []EnableNeverThrows
<1>1. ControlInv => EnableNeverThrows
  BY DEF ControlInv, ThreadOwnsDevice, EnableNeverThrows
<1> QED
  BY <1>1, ControlInvariant, PTL

(* stop and initClient disable a direction only when its thread is gone. *)
THEOREM DisableSafe == Spec => []DisableExclusive
<1>1. ControlInv => DisableExclusive
  BY DEF ControlInv, DisableAfterThread, DisableExclusive
<1> QED
  BY <1>1, ControlInvariant, PTL

(* initClient resets the sizes and takes the dummy with both directions at
   rest, so that it is the only reader of the stream socket. *)
THEOREM InitSafe == Spec => []InitQuiesces
<1>1. ControlInv => InitQuiesces
  BY DEF ControlInv, InitInOrder, InitQuiesces, Dirs
<1> QED
  BY <1>1, ControlInvariant, PTL

-----------------------------------------------------------------------------
(* The pointer to a destroyed buffer is left by the thread that destroyed it, to
   the stop that cancelled it at most. *)
LEMMA DestroyStep ==
  TypeOK /\ ControlInv /\ NoUseAfterDestroy /\ [Next]_vars => NoUseAfterDestroy'
<1> SUFFICES ASSUME TypeOK, ControlInv, NoUseAfterDestroy,
                      [Next]_vars PROVE NoUseAfterDestroy'
  OBVIOUS
<1>0. env' = env
  BY DEF Next, vars
<1> USE <1>0
<1> USE DEF TypeOK, NoUseAfterDestroy, Gone, Dirs, vars, threadVars, deviceVars, sizeVars,
            mainVars, Goto, Exit
<1>1. ASSUME NEW d \in Dirs, Prologue(d) PROVE NoUseAfterDestroy'
  BY <1>1 DEF Prologue
<1>2. ASSUME NEW d \in Dirs, EnableChannels(d) PROVE NoUseAfterDestroy'
  BY <1>2 DEF EnableChannels
<1>3. ASSUME NEW d \in Dirs, CreateBuffer(d) PROVE NoUseAfterDestroy'
  BY <1>3 DEF CreateBuffer
<1>4. ASSUME NEW d \in Dirs, CreateBufferFails(d) PROVE NoUseAfterDestroy'
  BY <1>4 DEF CreateBufferFails
<1>5. ASSUME NEW d \in Dirs, Snapshot(d) PROVE NoUseAfterDestroy'
  BY <1>5 DEF Snapshot
<1>6. CASE Refill
  BY <1>6 DEF Refill
<1>7. CASE RecvFrame
  BY <1>7 DEF RecvFrame
<1>8. ASSUME NEW d \in Dirs, Transfer(d) PROVE NoUseAfterDestroy'
  BY <1>8 DEF Transfer
<1>9. ASSUME NEW d \in Dirs, TransferFails(d) PROVE NoUseAfterDestroy'
  BY <1>9 DEF TransferFails
<1>10. ASSUME NEW d \in Dirs, DestroyBuffer(d) PROVE NoUseAfterDestroy'
  BY <1>10 DEF DestroyBuffer
<1>11. ASSUME NEW d \in Dirs, NullBuffer(d) PROVE NoUseAfterDestroy'
  BY <1>11 DEF NullBuffer
<1>12. ASSUME NEW d \in Dirs, DisableChannels(d) PROVE NoUseAfterDestroy'
  BY <1>12 DEF DisableChannels
<1>13. ASSUME NEW d \in Dirs, Announce(d) PROVE NoUseAfterDestroy'
  BY <1>13 DEF Announce
<1>14. ASSUME NEW d \in Dirs, ActOnCancel(d) PROVE NoUseAfterDestroy'
  BY <1>14 DEF ActOnCancel, CancelPoints, ControlInv, RunningIsActive
<1>15. ASSUME NEW d \in Dirs, Start(d) PROVE NoUseAfterDestroy'
  BY <1>15 DEF Start, ControlInv, RunningIsActive
<1>16. ASSUME NEW d \in Dirs, StartFails(d) PROVE NoUseAfterDestroy'
  BY <1>16 DEF StartFails
<1>17. ASSUME NEW d \in Dirs, StopCommand(d) PROVE NoUseAfterDestroy'
  BY <1>17 DEF StopCommand
<1>18. CASE InitCommand
  BY <1>18 DEF InitCommand
<1>19. CASE StopCheck
  BY <1>19 DEF StopCheck
<1>20. CASE StopJoin
  BY <1>20 DEF StopJoin
<1>21. CASE StopDisable
  BY <1>21 DEF StopDisable
<1>22. CASE InitReset
  BY <1>22 DEF InitReset
<1>23. CASE InitDummy
  BY <1>23 DEF InitDummy
<1>24. ASSUME NEW d \in Dirs, NEW val \in env.sizes, SetBufferSize(d, val) PROVE NoUseAfterDestroy'
  BY <1>24 DEF SetBufferSize
<1>25. ASSUME NEW size \in Datagrams, FrameArrives(size) PROVE NoUseAfterDestroy'
  BY <1>25 DEF FrameArrives
<1>26. CASE StopUndefined
  BY <1>26 DEF StopUndefined
<1>27. CASE StopDestroysTwice
  BY <1>27 DEF StopDestroysTwice
<1>28. CASE UNCHANGED vars
  BY <1>28
<1> QED
  BY <1>1, <1>2, <1>3, <1>4, <1>5, <1>6, <1>7, <1>8, <1>9, <1>10, <1>11,
     <1>12, <1>13, <1>14, <1>15, <1>16, <1>17, <1>18, <1>19, <1>20, <1>21,
     <1>22, <1>23, <1>24, <1>25, <1>26, <1>27, <1>28
  DEF Next, ThreadStep, ThreadFault, MainStep, Command

(* With every fault, a cancellation inside iio_buffer_destroy included, a
   destroyed buffer is never left to a streaming thread or to a start. *)
THEOREM BufferSafe == Spec => []NoUseAfterDestroy
<1>1. Init => NoUseAfterDestroy
  BY DEF Init, NoUseAfterDestroy
<1>2. TypeOK /\ ControlInv /\ NoUseAfterDestroy /\ [Next]_vars => NoUseAfterDestroy'
  BY DestroyStep
<1> QED
  BY <1>1, <1>2, TypeCorrect, ControlInvariant, PTL DEF Spec

-----------------------------------------------------------------------------
(* A host that keeps to the order of UDPClient::initProcedure gets whole IIO
   buffers: sizes are set only while nothing streams, and nothing streams before
   both have been set. *)
LEMMA SizeInit == Init => SizeInv
BY SMTT(30) DEF Init, SizeInv, SizesAgree, Gone, Dirs

(* Each step keeps the sizes of device, server, buffer and thread in agreement. *)
LEMMA SizeStep == TypeOK /\ ControlInv /\ SizeInv /\ [Next]_vars => SizeInv'
<1> SUFFICES ASSUME TypeOK, ControlInv, SizeInv, [Next]_vars, env.host = "driver"
             PROVE  SizeInv'
  BY DEF SizeInv, Next, vars
<1>0. env' = env
  BY DEF Next, vars
<1> USE <1>0
<1> USE DEF TypeOK, SizeInv, SizesAgree, Gone, Dirs, vars, threadVars, deviceVars, sizeVars,
            mainVars, Goto, Exit, HostBecomes, HostIs
<1>1. ASSUME NEW d \in Dirs, Prologue(d) PROVE SizeInv'
  BY <1>1 DEF Prologue
<1>2. ASSUME NEW d \in Dirs, EnableChannels(d) PROVE SizeInv'
  BY <1>2, ZenonT(40) DEF EnableChannels
<1>3. ASSUME NEW d \in Dirs, CreateBuffer(d) PROVE SizeInv'
  BY <1>3, SMTT(30) DEF CreateBuffer, ControlInv, ThreadOwnsDevice
<1>4. ASSUME NEW d \in Dirs, CreateBufferFails(d) PROVE SizeInv'
  BY <1>4 DEF CreateBufferFails
<1>5. ASSUME NEW d \in Dirs, Snapshot(d) PROVE SizeInv'
  BY <1>5 DEF Snapshot
<1>6. CASE Refill
  BY <1>6 DEF Refill
<1>7. CASE RecvFrame
  BY <1>7 DEF RecvFrame
<1>8. ASSUME NEW d \in Dirs, Transfer(d) PROVE SizeInv'
  BY <1>8 DEF Transfer
<1>9. ASSUME NEW d \in Dirs, TransferFails(d) PROVE SizeInv'
  BY <1>9 DEF TransferFails
<1>10. ASSUME NEW d \in Dirs, DestroyBuffer(d) PROVE SizeInv'
  BY <1>10 DEF DestroyBuffer
<1>11. ASSUME NEW d \in Dirs, NullBuffer(d) PROVE SizeInv'
  BY <1>11, SMTT(30) DEF NullBuffer
<1>12. ASSUME NEW d \in Dirs, DisableChannels(d) PROVE SizeInv'
  BY <1>12 DEF DisableChannels
<1>13. ASSUME NEW d \in Dirs, Announce(d) PROVE SizeInv'
  BY <1>13, SMTT(30) DEF Announce
<1>14. ASSUME NEW d \in Dirs, ActOnCancel(d) PROVE SizeInv'
  BY <1>14 DEF ActOnCancel
<1>15. ASSUME NEW d \in Dirs, Start(d) PROVE SizeInv'
  BY <1>15, SMTT(30) DEF Start, ControlInv, RunningIsActive
<1>16. ASSUME NEW d \in Dirs, StartFails(d) PROVE SizeInv'
  BY <1>16 DEF StartFails
<1>17. ASSUME NEW d \in Dirs, StopCommand(d) PROVE SizeInv'
  BY <1>17 DEF StopCommand
<1>18. CASE InitCommand
  BY <1>18 DEF InitCommand
<1>19. CASE StopCheck
  BY <1>19 DEF StopCheck
<1>20. CASE StopJoin
  BY <1>20 DEF StopJoin
<1>21. CASE StopDisable
  BY <1>21 DEF StopDisable, ControlInv, DisableAfterThread
<1>22. CASE InitReset
  BY <1>22 DEF InitReset, ControlInv, InitInOrder, AtRest
<1>23. CASE InitDummy
  BY <1>23 DEF InitDummy, ControlInv, InitInOrder, AtRest
<1>24. ASSUME NEW d \in Dirs, NEW val \in env.sizes, SetBufferSize(d, val) PROVE SizeInv'
  <2>1. val \in Int /\ DriverAsksFor(val)
    BY <1>24, EnvironmentFacts DEF SetBufferSize
  <2>2. Narrow(val) = val /\ val <= MaxSize /\ val = 4 * Narrow(Samples(val))
    BY <2>1, DriverSizeFacts
  <2>3. /\ mainAt = "recv" /\ session = d
        /\ session' = IF d = "rx" THEN "tx" ELSE "ready"
        /\ bufferSizeSample' = [bufferSizeSample EXCEPT ![d] = Narrow(Samples(val))]
        /\ streamSizeByte' = [streamSizeByte EXCEPT ![d] = val]
        /\ UNCHANGED <<threadVars, deviceVars, frameSize, mainVars>>
    <3>1. Narrow(val) = val /\ ~(val > MaxSize)
      BY <2>1, <2>2 DEF MaxSize
    <3>2. \/ /\ streamSizeByte' = [streamSizeByte EXCEPT ![d] = Narrow(val)]
             /\ session' = IF d = "rx" THEN "tx" ELSE "ready"
          \/ Narrow(val) > MaxSize
      BY <1>24 DEF SetBufferSize
    <3> QED
      BY <1>24, <3>1, <3>2 DEF SetBufferSize
  <2>4. \A e \in Dirs : pc'[e] \in Gone
    BY <2>3
  <2>5. streamSizeByte'[d] = 4 * bufferSizeSample'[d]
    BY <1>24, <2>2, <2>3
  <2>6. \A e \in Dirs : e # d => /\ streamSizeByte'[e] = streamSizeByte[e]
                                 /\ bufferSizeSample'[e] = bufferSizeSample[e]
    BY <1>24, <2>3
  <2> QED
    BY <1>24, <2>3, <2>4, <2>5, <2>6<1>25. ASSUME NEW size \in Datagrams, FrameArrives(size) PROVE SizeInv'
  BY <1>25 DEF FrameArrives
<1>26. CASE StopUndefined
  BY <1>26 DEF StopUndefined
<1>27. CASE StopDestroysTwice
  BY <1>27 DEF StopDestroysTwice
<1>28. CASE UNCHANGED vars
  BY <1>28
<1> QED
  BY <1>1, <1>2, <1>3, <1>4, <1>5, <1>6, <1>7, <1>8, <1>9, <1>10, <1>11,
     <1>12, <1>13, <1>14, <1>15, <1>16, <1>17, <1>18, <1>19, <1>20, <1>21,
     <1>22, <1>23, <1>24, <1>25, <1>26, <1>27, <1>28
  DEF Next, ThreadStep, ThreadFault, MainStep, Command

(* A frame is a whole buffer in every behaviour of the driver's host. *)
THEOREM FrameSafe == Spec => []FrameIsWholeBuffer
<1>1. Init => SizeInv
  BY SizeInit
<1>2. TypeOK /\ SizeInv => FrameIsWholeBuffer
  BY DEF TypeOK, SizeInv, SizesAgree, FrameIsWholeBuffer, Gone
<1>3. TypeOK /\ ControlInv /\ SizeInv /\ [Next]_vars => SizeInv'
  BY SizeStep
<1> QED
  BY <1>1, <1>2, <1>3, TypeCorrect, ControlInvariant, PTL DEF Spec

(* ... and so do the two sizes of a direction agree, whenever it may be
   started and as long as it streams. *)
THEOREM SizesSafe == Spec => []SizeInv
<1>1. Init => SizeInv
  BY SizeInit
<1>2. TypeOK /\ ControlInv /\ SizeInv /\ [Next]_vars => SizeInv'
  BY SizeStep
<1> QED
  BY <1>1, <1>2, TypeCorrect, ControlInvariant, PTL DEF Spec

-----------------------------------------------------------------------------
(* As long as pthread_create does not fail, "Check if RX is active" tells whether
   there is a thread: start never answers "done" for a stream that has ended. *)
THEOREM ActiveSafe == Spec => []ActiveMeansThread
<1>1. ControlInv => ActiveMeansThread
  BY DEF ControlInv, FlagInv, ActiveMeansThread
<1> QED
  BY <1>1, ControlInvariant, PTL

(* stop cancels and joins its own direction's thread, although handles are never
   reset and the system reuses their values. *)
THEOREM StopSafe == Spec => []StopHitsOwnThread
<1>1. TypeOK /\ ControlInv => StopHitsOwnThread
  <2> SUFFICES ASSUME TypeOK, ControlInv, mainAt = "join"
               PROVE  \/ handle[mainDir] = mainDir
                      \/ "thread_create" \in env.faults /\ pc[mainDir] \in Gone
    BY DEF StopHitsOwnThread
  <2>1. mainDir \in Dirs
    BY DEF TypeOK
  <2>2. CASE "thread_create" \notin env.faults
    BY <2>1, <2>2 DEF ControlInv, FlagInv
  <2>3. CASE "thread_create" \in env.faults
    BY <2>1, <2>3 DEF ControlInv, HandleNamesThread
  <2> QED
    BY <2>2, <2>3
<1> QED
  BY <1>1, TypeCorrect, ControlInvariant, PTL

=============================================================================
