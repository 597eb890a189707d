\* one run of thumb.py on two RAW files with one basename, x/duck.cr2 and y/duck.cr2
CONSTANTS
  Args <- MCArgs
  BaseName <- MCCollidingBaseName
  EngineFiles <- MCEngineFilesOneJpeg
  GuessExtension <- MCGuessExtension
  OpenInBrowser = FALSE
  MaxRuns = 1
SPECIFICATION Spec
INVARIANT EveryEmbeddedThumbnailExported
CHECK_DEADLOCK FALSE
