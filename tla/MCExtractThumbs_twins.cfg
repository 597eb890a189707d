\* one run of thumb.py on RAW files holding two thumbnails of one width
CONSTANTS
  Args <- MCArgs
  BaseName <- MCBaseName
  EngineFiles <- MCEngineFilesTwins
  GuessExtension <- MCGuessExtension
  OpenInBrowser = FALSE
  MaxRuns = 1
SPECIFICATION Spec
INVARIANT EveryEmbeddedThumbnailExported
CHECK_DEADLOCK FALSE
