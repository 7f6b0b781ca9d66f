\* Kicks from two API calls and two browsers can meet in every phase of the loop; three
\* floors to a sample (five in the code), and time for two samples.
CONSTANTS
  Caller = {a1, a2}
  Browser = {b1, b2}
  Floor = 2
  Interval = 6
  MaxTime = 14
SPECIFICATION Spec
INVARIANTS NoLostWakeup Prompt BurstsAreBounded
