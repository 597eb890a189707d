\* getRawData may leave the CFA data compressed
CONSTANTS
  Args <- MCArgs
  BaseName <- MCBaseName
  EngineFiles <- MCEngineFilesCompressed
  OpenInBrowser = FALSE
  MaxRuns = 1
SPECIFICATION Spec
INVARIANT PgmHoldsSamples
CHECK_DEADLOCK FALSE
