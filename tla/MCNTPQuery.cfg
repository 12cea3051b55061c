\* The plugins' own constants, in ticks of 250 ms: queries of 3 s, margin and pause 250 ms,
\* 10 s standalone; item timeouts of 1 s (over in the first try), 4 s (in the second), 10 s
\* (the template's, all three tries can fit or not).
CONSTANTS
  MaxRetries = 3
  QueryTimeout = 12
  Backoff = 1
  Margin = 1
  StandaloneTimeout = 40
  AgentTimeouts = {0, 4, 16, 40}

SPECIFICATION Spec

INVARIANTS
  NTPInvariant
  AnsweredInTime
  PoliteToServer
  HonestAnswer
