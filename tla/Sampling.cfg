\* Ten ticks' worth of clock is more than enough for a tick to be late, dropped or
\* overtaken by addSpec, and for a magnet's metadata to arrive while one is on its way;
\* one byte short of 30000
\* is where truncating and rounding to two decimals differ.
CONSTANTS
  Interval = 3
  MaxTime = 10
  Size = 30000
  Bytes = {0, 1, 29999, 30000}
SPECIFICATION SamplingSpec
INVARIANTS RateIsFinite
PROPERTIES OneSample CompleteIsComplete
\* The clock stops at its bound.
CHECK_DEADLOCK FALSE
