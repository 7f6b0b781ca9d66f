\* A directory and a file, one of them within the budget with the root: entries come and
\* go, move and are written to, and the listing can be truncated.  A settle window of two
\* samples, and time for a change in the window, its admission and one more window.
CONSTANTS
  Dir = {1}
  File = {2}
  Limit = 2
  Settle = 2
  MaxTime = 5
  MaxChange = 2
SPECIFICATION Spec
INVARIANTS TypeOK LastChangeArrives
