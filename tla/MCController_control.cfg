SPECIFICATION FairSpec
CONSTANTS
  Environments <- MCEnvironments
  IntRange = 262144
  MaxFrames = 1
INVARIANTS
  TypeOK EnableNeverThrows DisableExclusive InitQuiesces ControlInv
  FrameIsWholeBuffer NoUseAfterDestroy ActiveMeansThread StopHitsOwnThread SizeInv
PROPERTIES StopCompletes FailureAnnounced
