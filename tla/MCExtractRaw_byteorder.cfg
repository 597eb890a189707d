\* the engine's 16-bit samples may be in either byte order
CONSTANTS
  Args <- MCArgs
  BaseName <- MCBaseName
  EngineFiles <- MCEngineFilesByteOrder
  OpenInBrowser = FALSE
  MaxRuns = 1
SPECIFICATION Spec
INVARIANT PgmSamplesMostSignificantFirst
CHECK_DEADLOCK FALSE
