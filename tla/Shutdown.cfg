\* Two connections, so that one can hold up the drain for another; the timeouts are
\* those of the code, ten and fifteen seconds, in units of five.
CONSTANTS
  Conn = {c1, c2}
  ShutdownTimeout = 2
  SlowTimeout = 3
SPECIFICATION FairSpec
INVARIANTS RequestedIsClean
PROPERTIES StreamsDoNotDelay ShutdownTerminates
\* The process ends.
CHECK_DEADLOCK FALSE
