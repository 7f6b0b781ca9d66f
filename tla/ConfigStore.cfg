\* Two handlers at once, directories relative or in either of two places, one good value of
\* the rest beside the bad one: saves that touch the same field or different ones, a change
\* that waits for a restart and one that takes it back, a start where the last one was not.
CONSTANTS
  Request = {q1, q2}
  Cwd = {w1, w2}
  Here = Here
  Name = {d1}
  DefaultName = d1
  Other = {o1}
  DefaultOther = o1
  BadOther = BadOther
  Keep = Keep
  Missing = Missing
  Torn = Torn
  Nobody = Nobody
SPECIFICATION Spec
INVARIANTS FileIsValid DesiredIsFile
PROPERTIES OnlyRestartPending SavesAreAtomic
