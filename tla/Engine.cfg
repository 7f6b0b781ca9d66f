\* One torrent, with a spare handle for its next life and a third watcher, so that two
\* stale ones can be about while it is watched; one caller of Close.  No symmetry, since
\* liveness is checked.
CONSTANTS
  Hash = {h1}
  Handle = {t1, t2}
  Watcher = {w1, w2, w3}
  Closer = {c1}
  Rest = {r1}
  None = None
SPECIFICATION FairSpec
INVARIANTS CacheMatchesClient StartedNotPhantom WatcherOwned ClosedStaysClosed QuietAfterClose
PROPERTIES StoppedStaysStopped ImplementsLifecycle CloseReturns SamplerNeverStalls
\* The engine stops for good once it is closed.
CHECK_DEADLOCK FALSE
