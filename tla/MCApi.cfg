CONSTANTS
  Caller = {c1, c2}
  Hash = {h1}
  Content = {h1}
  Malformed = Malformed
  File = {f1, f2}
  Address = {a1, a2, p1}
  Disallowed = {p1}
  MaxSize = 1
  maxRedirects = 2
  MaxUpload = 2
  Free = {c1}
  Sends <- MCSends
SPECIFICATION FairSpec
INVARIANTS NoInvisibleChange OutcomeIsTrue BlameIsRight FetchIsSound
PROPERTY EveryCallIsAnswered
