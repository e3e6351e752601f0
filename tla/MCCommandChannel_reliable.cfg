SPECIFICATION FairSpec
CONSTANTS
  h1 = h1
  h2 = h2
  t1 = t1
  t2 = t2
  None = None
  Clients = {h1}
  Callers = {t1, t2}
  Owner <- TwoThreads
  Ops <- TxOps
  Losses = FALSE
  Crashes = FALSE
  Restarts = FALSE
  OneAtATime = FALSE
  MaxCommands = 9
  MaxFrames = 2
INVARIANTS NoStrayDummy OwnReply
PROPERTIES CallReturns RemoteSpec
CHECK_DEADLOCK FALSE
