\* Half seconds, a four second session refreshed after one, one restart, two messages
\* under way: a session is re-issued several times, and crosses both boundaries by
\* less than a second.
CONSTANTS
  Second = 2
  sessionTTL = 8
  refreshAfter = 2
  Gap = 1
  Delay = 1
  MaxTime = 11
  MaxProcess = 2
  MaxUnderWay = 2
SPECIFICATION Spec
INVARIANTS ActiveNeverAsked ProvenNeverAsked
PROPERTY IdleExpires
\* The clock stops at its bound.
CHECK_DEADLOCK FALSE
