\* one run of thumb.py with the suffixes CPython 2.7's mimetypes answers
CONSTANTS
  Args <- MCArgs
  BaseName <- MCBaseName
  EngineFiles <- MCEngineFilesMixed
  GuessExtension <- MCGuessExtension
  OpenInBrowser = FALSE
  MaxRuns = 1
SPECIFICATION Spec
INVARIANT ThumbnailSuffixesConventional
CHECK_DEADLOCK FALSE
