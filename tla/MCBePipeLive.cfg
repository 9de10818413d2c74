SPECIFICATION FairSpec
CONSTANTS
  NumWord = 3
  NumReg = 3
  Programs <- MovingPrograms
  Contents <- Reset
  QueueEls = 4
  Predict <- AnyWord
  Prompt = FALSE
  FetchAhead = 1
PROPERTIES RedirectAnswered MovesOn
