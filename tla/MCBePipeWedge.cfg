SPECIFICATION FairSpec
CONSTANTS
  NumWord = 3
  NumReg = 3
  Programs <- DataPrograms
  Contents <- Reset
  QueueEls = 4
  Predict <- NextWord
  Prompt = TRUE
  FetchAhead = 1
PROPERTY RedirectAnswered
