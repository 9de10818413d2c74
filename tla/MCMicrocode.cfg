SPECIFICATION FairSpec
CONSTANTS
  Stoi <- MCStoi
  LabelKey <- MCLabelKey
  WithEof <- MCWithEof
  Leftover <- MCLeftover
  Texts <- MCTexts
  Args <- MCArgs
  MaxTokens = 20
  Els = 4
INVARIANTS TypeOK TextKept EffectsAsWritten ExecutesRom
PROPERTIES FetchesInOrder RunsAsWritten Settles
CHECK_DEADLOCK FALSE
