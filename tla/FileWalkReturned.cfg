\* Limit entries in one directory at the top are enough.
CONSTANTS
  Dir = {1, 3}
  File = {2, 4}
  Limit = 3
SPECIFICATION WalkSpec
INVARIANT WalkedIsReturned
