CONSTANTS
  t1 = t1  t2 = t2  r1 = r1  r2 = r2  f1 = f1  f2 = f2
  NoThread = NoThread  NoRuntime = NoRuntime  NoRef = NoRef
  Threads <- MCThreads
  MainThread = t1
  Runtimes <- MCRuntimes
  Refs <- MCRefs
  Registered <- MCRegistered
  MaxDepth = 5
  MaxTasks = 1
  Server = TRUE
  WarnAnywhere = FALSE
  NodeBuild = TRUE

SPECIFICATION Spec
SYMMETRY Symmetry

INVARIANT TypeOK
INVARIANT EngineExclusive
INVARIANT CurrentRuntimeRestored
PROPERTY FreedOnlyAtSafePoint
 
