\* Two directories and two files: directories nest, and the budget runs out at the top,
\* in a directory or in a nested one, or not at all; changes at every point of the walk,
\* and of the archive of either directory, wherever it is, which any of its files may end.
CONSTANTS
  Dir = {1, 3}
  File = {2, 4}
  Limit = 3
SPECIFICATION WalkSpec
INVARIANTS WalkIsExact BudgetIsKept ArchiveIsExact
