\* Two collections of up to 2 ticks overlap in every order; the clock outlives the TTL by
\* more than a collection; agent timeouts: none, and one that leaves less than the cap.
CONSTANTS
  Request = {r1, r2}
  Sig = {s1, s2}
  NoSig = NoSig
  TTL = 2
  HardCap = 2
  Margin = 1
  MinTimeout = 1
  WaitDelay = 1
  AgentTimeouts = {0, 1}
  PipeHeld = TRUE
  MaxClock = 7

SPECIFICATION Spec
SYMMETRY Symmetry

INVARIANTS
  CacheInvariant
  BoundedRegress
  AnswersWhatWasAsked

PROPERTIES
  LastGoodIsServed
