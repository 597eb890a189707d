CONSTANTS
  Args <- MCArgs
  BaseName <- MCBaseName
  EngineFiles <- MCEngineFilesMixed
  GuessExtension <- MCGuessExtension
  OpenInBrowser = TRUE
  MaxRuns = 2
SPECIFICATION Spec
INVARIANT TypeOK
INVARIANT UnsupportedSkippedOthersExported
INVARIANT FailingRawFileExportsNothing
INVARIANT CleanRunLeavesNoTruncatedThumbnail
PROPERTY ImplementsThumbBatch
\* thumb.py is a batch program: it stops once main() returns or raises
CHECK_DEADLOCK FALSE
