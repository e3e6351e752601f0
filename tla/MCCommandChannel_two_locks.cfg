SPECIFICATION Spec
CONSTANTS
  h1 = h1
  h2 = h2
  t1 = t1
  t2 = t2
  None = None
  Clients = {h1}
  Callers = {t1, t2}
  Owner <- TwoThreads
  Ops <- AllOps
  Losses = FALSE
  Crashes = FALSE
  Restarts = FALSE
  OneAtATime = FALSE
  MaxCommands = 6
  MaxFrames = 1
INVARIANTS OwnReply
CHECK_DEADLOCK FALSE
