SPECIFICATION FairSpec
CONSTANTS
  Slots = 2
  InitSize = 3
  HostSize = 2
  OtherSize = 1
  Threads = {t1, t2, t3}
  MaxFrames = 3
  MaxInits = 2
  MaxStarts = 2
INVARIANTS TypeOK CopyInOrder InitQuiesces NoDoubleDelete
PROPERTIES OneStreamThread StopReturns
CHECK_DEADLOCK FALSE
