CONSTANTS
  c1 = c1  c2 = c2  Unset = Unset
  Callables <- MCCallables
  NumScripts = 2
  MaxTasks = 1
  NodeBuild = FALSE

SPECIFICATION Spec

INVARIANT TypeOK
INVARIANT ReactionsSettledAtHostBoundary
INVARIANT LoadResultsAsDocumented
CHECK_DEADLOCK FALSE
