\* One save at a time is enough.
CONSTANTS
  Request = {q1}
  Cwd = {w1, w2}
  Here = Here
  Name = {d1}
  DefaultName = d1
  Other = {o1}
  DefaultOther = o1
  BadOther = BadOther
  Keep = Keep
  Missing = Missing
  Torn = Torn
  Nobody = Nobody
SPECIFICATION Spec
PROPERTY AutoStartAppliesLive
