\* The proportions of exchange_se: the margin is shorter than WaitDelay.
CONSTANTS
  Request = {r1}
  Sig = {s1}
  NoSig = NoSig
  TTL = 3
  HardCap = 5
  Margin = 1
  MinTimeout = 1
  WaitDelay = 3
  AgentTimeouts = {4}
  PipeHeld = TRUE
  MaxClock = 9

SPECIFICATION Spec

INVARIANTS
  AnswersInTime
