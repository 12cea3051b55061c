\* TTL = 2 separates "inside the window", "its last second" and "outside"; the
\* clock runs to 12, twice the age at which an entry can still be in the map.
CONSTANTS
  Key = {k1, k2}
  TTL = 2
  MaxClock = 12

SPECIFICATION Spec

INVARIANTS
  Bookkeeping
  MapHoldsOnlyRecent

PROPERTIES
  ImplementsRateLimit
