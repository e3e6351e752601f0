SPECIFICATION Spec
CONSTANTS
  h1 = h1
  h2 = h2
  t1 = t1
  t2 = t2
  None = None
  Clients = {h1, h2}
  Callers = {t1, t2}
  Owner <- TwoHosts
  Ops <- TxOps
  Losses = FALSE
  Crashes = TRUE
  Restarts = FALSE
  OneAtATime = TRUE
  MaxCommands = 9
  MaxFrames = 1
INVARIANTS AddressesFixed
CHECK_DEADLOCK FALSE
