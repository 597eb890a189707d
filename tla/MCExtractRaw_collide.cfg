\* two inputs with the same basename write the same .pgm
CONSTANTS
  Args <- MCArgs
  BaseName <- MCCollidingBaseName
  EngineFiles <- MCEngineFiles
  OpenInBrowser = FALSE
  MaxRuns = 1
SPECIFICATION Spec
INVARIANT EveryInputKeepsItsOutput
CHECK_DEADLOCK FALSE
