\* A browser that comes and goes, a buffer of two and three samples: a queue can hold
\* frames older than the snapshot, and overflow.  More browsers: EventsProofs.
CONSTANTS
  Browser = {b1}
  SubBuffer = 2
  MaxSample = 3
SPECIFICATION FairSpec
INVARIANTS NothingMissed WatchersAreConnected ClosedReleasesAll
PROPERTIES Converges StalledLeaves
\* Between samples, without browsers, everything waits.
CHECK_DEADLOCK FALSE
