CONSTANTS
  Args <- MCArgs
  BaseName <- MCBaseName
  EngineFiles <- MCEngineFiles
  OpenInBrowser = TRUE
  MaxRuns = 2
SPECIFICATION Spec
INVARIANT TypeOK
INVARIANT OutputMatchesEngine
INVARIANT CleanRunLeavesNoTruncatedFile
PROPERTY ImplementsBatch
\* cfa.py is a batch program: it stops once main() returns or raises
CHECK_DEADLOCK FALSE
