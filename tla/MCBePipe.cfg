SPECIFICATION Spec
CONSTANTS
  NumWord = 3
  NumReg = 3
  Programs <- AllPrograms
  Contents <- Reset
  QueueEls = 5
  Predict <- AnyWord
  Prompt = FALSE
  FetchAhead = 2
INVARIANTS TypeOK NpcIsEx1 CheckpointNotAhead CheckpointExact
PROPERTY InOrderButStale
