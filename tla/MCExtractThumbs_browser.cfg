\* one run of thumb.py -b on RAW files that list the same width twice
CONSTANTS
  Args <- MCArgs
  BaseName <- MCBaseName
  EngineFiles <- MCEngineFilesDuplicates
  GuessExtension <- MCGuessExtension
  OpenInBrowser = TRUE
  MaxRuns = 1
SPECIFICATION Spec
INVARIANT BrowserShowsWholeFiles
CHECK_DEADLOCK FALSE
